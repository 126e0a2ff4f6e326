SPECIFICATION FairSpec
CONSTANTS
    b1 = b1
    b2 = b2
    Threads = {t1, t2, t3, t4, t5}
    Barriers = {b1}
    MaxCalls = 6
    Plan <- OnePlan
    N = 5
INVARIANTS TypeOK BarrierSync
PROPERTIES ImplementsBarrier EveryoneReturns
