SPECIFICATION FairSpec
CONSTANTS
    MaxTask = 3
    MaxMoves = 2
    HEAD = HEAD
    ADD = ADD
    NEW_ADD = NEW_ADD
    NULL = NULL
CONSTRAINT Bounded
PROPERTY AwaitEndsAll
