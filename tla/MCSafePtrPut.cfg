SPECIFICATION Spec
CONSTANTS
    ALL = ALL
    NULL = NULL
    GONE = GONE
    Sps = {s1, s2}
    NestMask = 1
    MaxCb = 1
    MaxAll = 0
INVARIANT LockUsable
CHECK_DEADLOCK FALSE
