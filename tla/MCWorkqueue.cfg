SPECIFICATION FairSpec
CONSTANTS
    w1 = w1
    w2 = w2
    NULL = NULL
    Works = {w1, w2}
    NrCpu = 2
    CpuArgs <- BeyondAndAny
    MaxCalls <- TwoAndOne
    MaxWq = 3
INVARIANTS TypeOK OneQueuePerCpu NoQueueLeft QueuedWorkServed WalkLeadsBack
PROPERTIES ImplementsWorkPool ScheduledWorkRuns ExitEnds
CHECK_DEADLOCK FALSE
