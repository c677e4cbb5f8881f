SPECIFICATION ReaderFairSpec
CONSTANTS
    HEAD_SIZE = 2
    max_payload_size = 3
    Contents <- MCContents
    Garbage <- MCGarbage
    StartLsn = {0, 2, 3, 5}
INVARIANTS
    ReaderTypeOK
    DeliversWanted
    TornPayloadReported
PROPERTIES
    Terminates
