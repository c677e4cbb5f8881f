SPECIFICATION Spec
CONSTANTS
    Thread = {t1, t2}
    Appender = 2
    MaxEvent = 4
    LowEvent = {1}
    LineSize <- MCLineSize
    MaxSize = 2
    MaxDay = 1
    MaxFaults = 1
    MaxReopens = 1
INVARIANTS
    TypeOK
    LinesKept
    SizeLimit
    DayFile
PROPERTY CallsReturn
CHECK_DEADLOCK FALSE
