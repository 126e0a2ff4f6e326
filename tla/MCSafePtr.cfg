SPECIFICATION Spec
CONSTANTS
    ALL = ALL
    NULL = NULL
    GONE = GONE
    Sps = {s1, s2}
    NestMask = 1
    MaxCb = 2
    MaxAll = 1
INVARIANTS TypeOK RefsCounted CbLive LoadedObjectLive ReaderVisible MetaLive
CHECK_DEADLOCK FALSE
