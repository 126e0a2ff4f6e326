SPECIFICATION FairSpec
CONSTANTS
    A = A
    B = B
    Groups = {A, B}
    Nr <- NrAB
    Plans <- OnlyWait
    Word = 8
PROPERTY JoinWorkEnds
