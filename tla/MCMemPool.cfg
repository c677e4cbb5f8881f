SPECIFICATION Spec
CONSTANTS
    Thread = {t1, t2}
    PoolNum <- MCPoolNum
    ItemNum = 2
    MaxPools = 2
    MaxStray = 1
SYMMETRY ThreadSymmetry
INVARIANTS
    TypeOK
    PoolsWhole
    OwnContent
PROPERTY FailsOnlyDry
