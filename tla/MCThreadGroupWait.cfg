SPECIFICATION FairSpec
CONSTANTS
    A = A
    B = B
    Groups = {A, B}
    Nr <- NrAB
    Plans <- BothPlans
    Word = 8
INVARIANTS TypeOK StartTogether BarrierObjectLive SharesCounted
PROPERTIES CallsReturn AutoJoin
