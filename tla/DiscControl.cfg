SPECIFICATION DiscSpec
CONSTANTS
    Images = {a, b}
    NoPath = NoPath
    MaxDiscs = 3
SYMMETRY Symmetry
INVARIANTS DiscTypeOK DriveTruthful
PROPERTY SwapAllOrNothing
