------------------------------- MODULE GpWord -------------------------------
(***************************************************************************)
(* The gp_seq word of an RCU node (include/mthpc/rcu.h): its phase bit     *)
(* (MTHPC_GP_CTR_PHASE) and its nesting count (the bits under              *)
(* MTHPC_GP_CTR_NEST_MASK).  Inc and Dec add and subtract MTHPC_GP_COUNT   *)
(* modulo 2 * PHASE, the carry reaching the phase.                         *)
(***************************************************************************)
EXTENDS Naturals

CONSTANT NestMask   \* MTHPC_GP_CTR_NEST_MASK, 2^32 - 1 in the code

Phases == {0, 1}
GpSeq == [phase : Phases, nest : 0..NestMask]
Idle == [phase |-> 0, nest |-> 0]   \* the word of a fresh node

Inc(g) ==
    IF g.nest < NestMask THEN [g EXCEPT !.nest = @ + 1]
                         ELSE [phase |-> 1 - g.phase, nest |-> 0]
Dec(g) ==
    IF g.nest > 0 THEN [g EXCEPT !.nest = @ - 1]
                  ELSE [phase |-> 1 - g.phase, nest |-> NestMask]

\* Broken variants: MTHPC_GP_CTR_PHASE is added; the phase is left alone.
FlipAdds(g) == g + 1
NoFlip(g) == g

Flip(g) == 1 - g    \* of a phase: gp_seq ^ MTHPC_GP_CTR_PHASE

\* Broken variant: the lowest bit of the count is missing from the mask.
MaskMissesOne(g, phase) == g.nest \in {0, 1} \/ g.phase # phase

\* What ends the inner loop of mthpc_wait_for_readers() on a node with word
\* g: the node is not active, or has the other phase.
Passed(g, phase) == g.nest = 0 \/ g.phase # phase
=============================================================================
