CONSTANTS
    Thief = {s1}
    TaskQueueSize = 2
    MaxTask = 3
    Overrun = TRUE
SPECIFICATION TaskSpec
INVARIANTS HandedOutOnce
