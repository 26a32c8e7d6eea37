-------------------------- MODULE SessionContract --------------------------
(***************************************************************************)
(* What a session of the app builder promises to whoever looks at its      *)
(* status (GET /status and every check of main.py): one pipeline at a      *)
(* time, started when nobody is told that one works, and every end of it   *)
(* told.  A session may be lost from memory and come back, a deleted one   *)
(* only with the result of a pipeline.                                     *)
(***************************************************************************)

VARIABLES
    shown,      \* the status, "absent" when the session is not in memory
    work,       \* the pipeline at work: "none", "planning" or "working"
    gone        \* the session was deleted

Init == shown = "absent" /\ work = "none" /\ gone = FALSE

Begin(kind) == shown' = "running" /\ work' = kind
End(status) == shown' = status /\ work' = "none"

Generate == shown = "absent" /\ work = "none" /\ ~gone /\ Begin("planning")

PlanReady == shown = "running" /\ work = "planning" /\ End("awaiting_approval")

Approve == shown = "awaiting_approval" /\ work = "none" /\ Begin("working")

Iterate == shown \in {"done", "error"} /\ work = "none" /\ Begin("working")

\* The result of a deleted session's pipeline brings the session back.
Return == work = "working" /\ (shown = "running" \/ gone) /\ End("done")

Fail == shown = "running" /\ work # "none" /\ End("error")

\* A pipeline without its session ends unnoticed; one is started by a chat
\* that was asked before the session was deleted.
EndUnseen   == shown = "absent" /\ gone /\ work # "none" /\ End("absent")
StartUnseen == shown = "absent" /\ gone /\ work = "none" /\ work' = "working" /\ UNCHANGED shown

\* The process restarts; the session is read back from its row.
Lose    == End("absent")
Restore == shown = "absent" /\ work = "none" /\ ~gone /\ shown' \in {"done", "error"}
           /\ UNCHANGED work

Delete == shown' = "absent" /\ gone' = TRUE /\ UNCHANGED work

Next ==
    \/ Delete
    \/ /\ \/ Generate \/ PlanReady \/ Approve \/ Iterate \/ Return \/ Fail
          \/ EndUnseen \/ StartUnseen \/ Lose \/ Restore
       /\ UNCHANGED gone

Spec == Init /\ [][Next]_<<shown, work, gone>>
=============================================================================
