CONSTANTS
    Backend = {"registered"}
    Cap = 1
    OtherPes = FALSE
    Stream = {"node"}
    node_queue_max = 16
    thread_queue_max = 16
    FreqChoice <- DefaultTable
    SCHED_TABLE_SIZE = 64
    UintBits = 16
    PollsProgress = TRUE
    MaxPool = 1
SPECIFICATION FairSpec
PROPERTIES NodeStreamServesLocal
