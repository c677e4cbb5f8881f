SPECIFICATION ReaderSpec
CONSTANTS
    HEAD_SIZE = 2
    max_payload_size = 3
    Contents <- MCIntact
    Garbage <- MCGarbage
    StartLsn = {0, 2, 3, 5}
INVARIANTS
    StartsAtLsn
