SPECIFICATION Spec
CONSTANTS
    a1 = a1  a2 = a2  f1 = f1  f2 = f2
    NoThread = NoThread
    NoFile = NoFile
    Appender = {a1, a2}
    Flusher = {f1, f2}
    FileName = {1, 2}
    Payload = {0, 1, 2}
    max_payload_size = 1
    HEAD_SIZE = 1
    max_bytes = 2
    BatchSize = {0, 1}
    TornSize = {0, 1, 2, 3}
    EndLsn = {2, 4}
    InitLsn = 0
    MaxLsn = 3
    MaxIoErrors = 1
SYMMETRY ThreadSymmetry
INVARIANTS
    TypeOK
    LsnChain
    Durable
    OnceInOrder
    LimitOvershoot
    BytesExact
PROPERTIES
    ImplementsLog
