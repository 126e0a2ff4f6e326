----------------------------- MODULE MCTaskflow -----------------------------
(***************************************************************************)
(* Bounds for the taskflows in which a call was not straight.  Those of    *)
(* straight calls have them all.                                           *)
(***************************************************************************)
EXTENDS Taskflow

\* An await() that goes round in circles runs the tasks over and over; it is
\* followed through the first round.
Bounded ==
    /\ \A t \in Tasks : runs[t] <= 1
    /\ astray = "no" \/ moves <= 1 \/ (moves <= 2 /\ nr_task <= 3)
=============================================================================
