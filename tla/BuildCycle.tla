---------------------------- MODULE BuildCycle ----------------------------
(***************************************************************************)
(* What a pipeline run promises, whichever back end executes it: at least  *)
(* one and at most "max" rounds of development and testing, another round  *)
(* exactly when the tests found critical bugs and rounds are left, then    *)
(* one review.  Any agent may fail the run.  A session may be run again.   *)
(***************************************************************************)
EXTENDS Naturals

CONSTANT MaxIterations      \* the largest max_iterations a request may ask for

VARIABLES
    phase,      \* what is going on
    rounds,     \* rounds of development so far
    critical,   \* the verdict of the last tests
    max         \* max_iterations of the session

Init ==
    /\ phase = "idle"
    /\ rounds = 0
    /\ critical = FALSE
    /\ max \in 1..MaxIterations

Start ==
    /\ phase \in {"idle", "done", "failed"}
    /\ phase' = "developing" /\ rounds' = 0 /\ critical' = FALSE

Develop ==
    /\ phase = "developing" /\ rounds < max
    /\ phase' = "testing" /\ rounds' = rounds + 1
    /\ UNCHANGED critical

Test ==
    /\ phase = "testing"
    /\ critical' \in BOOLEAN
    /\ phase' = IF critical' /\ rounds < max THEN "developing" ELSE "reviewing"
    /\ UNCHANGED rounds

Review ==
    /\ phase = "reviewing"
    /\ phase' = "done"
    /\ UNCHANGED <<rounds, critical>>

Fail ==
    /\ phase \in {"developing", "testing", "reviewing"}
    /\ phase' = "failed"
    /\ UNCHANGED <<rounds, critical>>

Next == (Start \/ Develop \/ Test \/ Review \/ Fail) /\ UNCHANGED max

Spec == Init /\ [][Next]_<<phase, rounds, critical, max>>
===========================================================================
