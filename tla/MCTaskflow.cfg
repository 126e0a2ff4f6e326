SPECIFICATION FairSpec
CONSTANTS
    MaxTask = 4
    MaxMoves = 3
    HEAD = HEAD
    ADD = ADD
    NEW_ADD = NEW_ADD
    NULL = NULL
CONSTRAINT Bounded
INVARIANTS TypeOK StagesMatch OrderKept AwaitRunsAll
PROPERTY AwaitReturns
