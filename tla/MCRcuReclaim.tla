---------------------------- MODULE MCRcuReclaim ----------------------------
(* Small instances of RcuReclaim.  With CutTid the pthread_self() of a and *)
(* of b differ, and are the same number when they are cut to an id, whether*)
(* the two threads are alive together or one finds the other's node left.  *)
EXTENDS RcuReclaim, TLC

CONSTANTS a, b, c

CutTid == (a :> 5) @@ (b :> 9) @@ (c :> 6)

\* TLC follows a behaviour up to its first mishap, after which no property
\* says anything; the proofs go on.
NoMishap == mishap = "no"

OwnTid == (a :> 5) @@ (b :> 6)
=============================================================================
