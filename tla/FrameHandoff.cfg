SPECIFICATION Spec
CONSTANTS
    kLibretroBackbuffers = 3
    VsyncQueueSize = 2
    MaxSkipped = 1
    MaxCredit = 1
    MaxCalls = 1
INVARIANTS
    FenceOwnership
    FrameIntact
