---------------------------- MODULE VersionLog ----------------------------
(***************************************************************************)
(* What the version store promises (versioning/store.py): a log of file    *)
(* snapshots that only grows.  The n-th entry is version n, the last one   *)
(* is the current one, and going back to a version appends its files again *)
(* "same pattern as Replit".                                               *)
(***************************************************************************)
EXTENDS Naturals, Sequences

CONSTANT Files      \* file snapshots

VARIABLES
    log,        \* the snapshots, version n at position n
    current     \* the number of the version shown, 0 when there is none

Init == log = <<>> /\ current = 0

\* A new snapshot becomes the current version.
Save(f) == log' = Append(log, f) /\ current' = Len(log) + 1

Next == \/ \E f \in Files : Save(f)
        \/ \E n \in 1..Len(log) : Save(log[n])

Spec == Init /\ [][Next]_<<log, current>>
===========================================================================
