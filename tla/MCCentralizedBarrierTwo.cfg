SPECIFICATION Spec
CONSTANTS
    b1 = b1
    b2 = b2
    Threads = {t1, t2, t3}
    Barriers = {b1, b2}
    MaxCalls = 4
    Plan <- TwoPlan
    N = 3
INVARIANT BarrierSync
