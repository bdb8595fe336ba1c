CONSTANTS
    Backend = {"old", "registered", "randomized"}
    Cap = 1
    OtherPes = TRUE
    Stream = {"thread", "node", "ahead", "behind", "local", "task", "stop"}
    node_queue_max = 2
    thread_queue_max = 1
    FreqChoice <- EvenTable
    SCHED_TABLE_SIZE = 5
    UintBits = 16
    PollsProgress = TRUE
    MaxPool = 3
SPECIFICATION FairSpec
 
PROPERTIES IdleOnlyWhenDone EverythingRuns
