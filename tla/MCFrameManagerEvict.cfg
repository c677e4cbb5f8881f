SPECIFICATION Spec
CONSTANTS
    t1 = t1  t2 = t2
    Thread = {t1, t2}
    Frame = {f1, f2}
    NoFrame = NoFrame
    PageId <- MCPageId
    PurgeCount = {1, 2}
    MaxPurges = 1
SYMMETRY ThreadSymmetry
INVARIANTS
    EvictedIsGone
