SPECIFICATION Spec
CONSTANTS
    RingBufferSize = 5
    VsyncLen = 1
    SleepLimit = 2
    VsyncQueueSize = 1
INVARIANTS
    VsyncSleeperIsWoken
CHECK_DEADLOCK FALSE
