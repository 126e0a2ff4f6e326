SPECIFICATION FairSpec
CONSTANTS
    NULL = NULL
    Works = {w1}
    w1 = w1
    w2 = w2
    NrCpu = 2
    CpuArgs <- AnyCpu
    MaxCalls <- Two
    MaxWq = 2
PROPERTY ExitReturns
CHECK_DEADLOCK FALSE
