SPECIFICATION Spec
CONSTANTS
    Key = {a, b, c}
    NoKey = NoKey
    MaxPages = 2
    MaxVersion = 2
    MaxFaults = 1
SYMMETRY KeySymmetry
INVARIANTS
    TypeOK
    IntactCopy
    TakenSurvives
PROPERTY ImplementsStore
CHECK_DEADLOCK FALSE
