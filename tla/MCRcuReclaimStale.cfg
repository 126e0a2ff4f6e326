SPECIFICATION SpecAll
CONSTANTS
    a = a
    b = b
    c = c
    Threads = {a, b}
    Tid <- OwnTid
    IdSpace = 4
    NestMask = 1
    MaxNest = 1
    NULL = NULL
    Writers = {a, b}
    MaxObj = 1
    MaxSync = 1
INVARIANT NoUseAfterFree
