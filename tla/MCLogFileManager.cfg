SPECIFICATION Spec
CONSTANTS
    NoFile = NoFile
    FileName = {0, 2, 4, 6}
    HEAD_SIZE = 1
    max_payload_size = 1
    Payload = {0, 1}
    max_entry_number_per_file = 2
    MaxLsn = 5
    MaxStarts = 3
    MaxIoErrors = 2
INVARIANTS
    TypeOK
    RangeByName
    FilesTile
    ListMissesTwo
CHECK_DEADLOCK FALSE
