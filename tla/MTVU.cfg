SPECIFICATION FairSpec
CONSTANTS
    buffer_size = 10
    SafetyNet = 2
    ExecuteLen = 3
    WriteLen = 2
INVARIANTS
    WaitVUMeansDone
PROPERTIES
    ChannelSpec
    CallsReturn
CHECK_DEADLOCK FALSE
