CONSTANTS
    ByteBits = 3
    MaxBits = 7
    Verifier = {t1, t2}
    ByteValue <- MCBytes
    DataSize = 4
    Values <- MCValues
    Tails <- MCTails
    MaxRow = 3
SPECIFICATION Spec
CONSTRAINT Followed
SYMMETRY VerifierSymmetry
INVARIANTS
    BitmapSearch
    VerifyTells
    RowRoundTrip
    ValueOrder
CHECK_DEADLOCK FALSE
