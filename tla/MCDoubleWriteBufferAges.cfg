SPECIFICATION Spec
CONSTANTS
    Key = {a, b}
    NoKey = NoKey
    MaxPages = 2
    MaxVersion = 2
    MaxFaults = 0
INVARIANT RecoveryNeverAges
CHECK_DEADLOCK FALSE
