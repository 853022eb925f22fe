SPECIFICATION FairSpec
CONSTANTS
    RingBufferSize = 7
    VsyncLen = 1
    SleepLimit = 2
    VsyncQueueSize = 0
INVARIANTS
    TypeOK
    StallAssertions
    FrameCountExact
    SyncMeansDone
PROPERTIES
    ChannelSpec
    CallsReturn
CHECK_DEADLOCK FALSE
