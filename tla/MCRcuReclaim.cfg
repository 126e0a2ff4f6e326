SPECIFICATION FairSpecAll
CONSTANTS
    a = a
    b = b
    c = c
    Threads = {a, b, c}
    Tid <- CutTid
    IdSpace = 4
    NestMask = 2
    MaxNest = 3
    NULL = NULL
    Writers = {b, c}
    MaxObj = 1
    MaxSync = 2
CONSTRAINT NoMishap
INVARIANTS ClientTypeOK NodeOwned NestIsDepth FreshReadersProtected TwoCallsProtect
PROPERTY SecondWaitEnds
