SPECIFICATION InterruptSpec
CONSTANTS
    Bits = {"low", "high"}
INVARIANTS
    InterruptTypeOK
    LabelsPreserved
    PendingFlagged
PROPERTIES
    OverwriteReported
