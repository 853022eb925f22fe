SPECIFICATION FairSpec
CONSTANTS
    buffSize = 11
    buffLimit = 9
    KickSizes = {2}
    ProgramLimit = 4
    MaxPrograms = 3
    MaxPosts = 1
INVARIANTS
    BufferIntact
    OnePacketPerProgram
    QuietWhenSynced
PROPERTIES RoomIsFound
CHECK_DEADLOCK FALSE
