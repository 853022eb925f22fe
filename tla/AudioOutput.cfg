SPECIFICATION Spec
CONSTANTS
    m_buffer_size = 6
    CHUNK_SIZE = 2
    ToFill = 2
    Unit = 2
    quantum = 3
    MAX_AUDIO_FRAMES_PER_RUN = 4
    MaxChunks = 4
    MaxCalls = 4
INVARIANTS TypeOK SlotsDisjoint FramesAccounted FramesInOrder RateKept
