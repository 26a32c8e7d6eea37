-------------------------- MODULE AgentLoopProofs --------------------------
(***************************************************************************)
(* Proofs about AgentLoop: whatever the round limit and however often a    *)
(* session is run, both back ends deliver what was tested in the last      *)
(* round but for the reviewer's changes, show the developer what the last  *)
(* round of this run broke, and implement BuildCycle.                      *)
(***************************************************************************)
EXTENDS AgentLoop, TLAPS

\* The counter every decision reads is the number of rounds of this run.
Counted == agent \in Working => iteration = rounds

\* A round is started for critical bugs and while rounds are left.
Started ==
    agent = "developer" => rounds < max /\ (rounds > 0 => report = "critical")

InRound ==
    agent \in {"designer", "sandbox", "analysis"} => rounds \in 1..max

\* What the reviewer is handed has been tested, and is delivered.
Tested ==
    /\ agent \in {"analysis", "reviewer"} => untested = {}
    /\ agent = "done" => untested \subseteq {"reviewer"}
    /\ agent \in {"reviewer", "done"} => /\ report # "none"
                                         /\ found => report = "critical"
                                         /\ report = "critical" => rounds = max

\* Nothing is reported before a session's first round.
Untested == agent = "idle" \/ (agent = "developer" /\ rounds = 0) => report = "none"

IInv ==
    /\ TypeOK
    /\ Counted
    /\ Started
    /\ InRound
    /\ Tested
    /\ Untested
    /\ FeedbackIsFresh

\* The invariant holds initially: nothing has run.
LEMMA InitInv == Init => IInv
<1> SUFFICES ASSUME Init PROVE IInv
    OBVIOUS
<1>1. TypeOK
  <2>1. found \in BOOLEAN
        BY Zenon DEF Init
  <2> QED BY <2>1, LoopAssumption DEF Init, TypeOK, Working, Ended, Reports
<1>2. Counted /\ Started /\ InRound
      BY DEF Init, Counted, Started, InRound, Working
<1>3. Tested /\ Untested /\ FeedbackIsFresh
      BY DEF Init, Tested, Untested, FeedbackIsFresh
<1> QED BY <1>1, <1>2, <1>3 DEF IInv

\* Every step of either back end keeps the invariant.
LEMMA StepInv == IInv /\ [Next]_vars => IInv'
<1> SUFFICES ASSUME IInv, [Next]_vars PROVE IInv'
    OBVIOUS
<1> USE LoopAssumption
    DEF IInv, TypeOK, Counted, Started, InRound, Tested, Untested,
        FeedbackIsFresh, Working, Ended, Reports, Improve
<1>1. CASE Approve
      BY <1>1 DEF Approve, Begin
<1>2. CASE Iterate
      BY <1>2 DEF Iterate, Begin
<1>3. CASE Retry
      BY <1>3 DEF Retry, Attempts
<1>4. CASE Fail
      BY <1>4 DEF Fail
<1>5. CASE Develop
  <2>1. /\ rounds' \in 1..max /\ iteration' = rounds'
        /\ rounds' <= MaxIterations
        BY <1>5 DEF Develop
  <2>2. feedback' = IF rounds' > 1 THEN "critical" ELSE "none"
        BY <1>5 DEF Develop, Feedback
  <2> QED BY <1>5, <2>1, <2>2 DEF Develop
<1>6. CASE Design
      BY <1>6 DEF Design
<1>7. CASE TestInSandbox
      BY <1>7 DEF TestInSandbox
<1>8. ASSUME NEW bugs \in BOOLEAN, found => bugs, Conclude(bugs) PROVE IInv'
  <2>1. CASE bugs /\ iteration < max
        BY <1>8, <2>1 DEF Conclude, MoreRounds
  <2>2. CASE ~(bugs /\ iteration < max)
        BY <1>8, <2>2 DEF Conclude, MoreRounds
  <2> QED BY <2>1, <2>2
<1>9. CASE Analyse
      BY <1>8, <1>9 DEF Analyse
<1>10. CASE FallBack
      BY <1>8, <1>10 DEF FallBack
<1>11. CASE Review
      BY <1>11 DEF Review
<1>12. CASE UNCHANGED vars
      BY <1>12 DEF vars
<1> QED BY <1>1, <1>2, <1>3, <1>4, <1>5, <1>6, <1>7, <1>9, <1>10, <1>11, <1>12
        DEF Next, Work

\* The inductive invariant holds in every state of every run.
THEOREM Invariance == Spec => []IInv
BY InitInv, StepInv, PTL DEF Spec

\* The counters and reports of the agents' loop keep their ranges, for any
\* bound on max_iterations.
THEOREM TypeCorrect == Spec => []TypeOK
<1>1. IInv => TypeOK
      BY DEF IInv
<1> QED BY <1>1, Invariance, PTL

\* What both back ends deliver was run in the sandbox in the last round of
\* this run, except for the files the reviewer replaced afterwards; no failure
\* of that sandbox run is missing from the report, and critical bugs are known
\* only when all rounds asked for are spent (_route_after_tester and the loop
\* of crew_backend.py), for any bound on max_iterations.
THEOREM DeliversTested == Spec => []Delivery
<1>1. IInv => Delivery
      BY DEF IInv, Tested, Delivery
<1> QED BY <1>1, Invariance, PTL

\* The developer's feedback section is about the previous round of this run
\* and empty in the first, however earlier runs of the session ended.
THEOREM FeedbackOfThisRun == Spec => []FeedbackIsFresh
<1>1. IInv => FeedbackIsFresh
      BY DEF IInv
<1> QED BY <1>1, Invariance, PTL

---------------------------------------------------------------------------
(* Refinement *)

\* An untouched session is an idle cycle.
LEMMA InitCycle == Init => Cycle!Init
BY DEF Init, Cycle!Init, Phase

\* Every step of an agent is a step of the cycle or leaves it alone: model
\* calls that are repeated, the designer and the sandbox run are invisible.
LEMMA StepCycle ==
    IInv /\ [Next]_vars
        => [Cycle!Next]_<<Phase, rounds, report = "critical", max>>
<1> SUFFICES ASSUME IInv, [Next]_vars
             PROVE  [Cycle!Next]_<<Phase, rounds, report = "critical", max>>
    OBVIOUS
<1> USE DEF IInv, TypeOK, Counted, Started, InRound, Working, Ended, Reports
<1>1. CASE Approve
  <2>1. Cycle!Start
        BY <1>1 DEF Approve, Begin, Untested, Cycle!Start, Phase
  <2> QED BY <1>1, <2>1 DEF Approve, Begin, Cycle!Next
<1>2. CASE Iterate
  <2>1. Cycle!Start
        BY <1>2 DEF Iterate, Begin, Cycle!Start, Phase
  <2> QED BY <1>2, <2>1 DEF Iterate, Begin, Cycle!Next
<1>3. CASE Retry
      BY <1>3 DEF Retry, Phase
<1>4. CASE Fail
  <2>1. Cycle!Fail
        BY <1>4 DEF Fail, Cycle!Fail, Phase
  <2> QED BY <1>4, <2>1 DEF Fail, Cycle!Next
<1>5. CASE Develop
  <2>1. Cycle!Develop
        BY <1>5 DEF Develop, Cycle!Develop, Phase
  <2> QED BY <1>5, <2>1 DEF Develop, Cycle!Next
<1>6. CASE Design
      BY <1>6 DEF Design, Phase
<1>7. CASE TestInSandbox
      BY <1>7 DEF TestInSandbox, Phase
<1>8. ASSUME NEW bugs \in BOOLEAN, Conclude(bugs)
      PROVE  Cycle!Next
  <2>1. Cycle!Test
    <3>1. CASE bugs /\ iteration < max
          BY <1>8, <3>1 DEF Conclude, MoreRounds, Cycle!Test, Phase
    <3>2. CASE ~(bugs /\ iteration < max)
          BY <1>8, <3>2 DEF Conclude, MoreRounds, Cycle!Test, Phase
    <3> QED BY <3>1, <3>2
  <2> QED BY <1>8, <2>1 DEF Conclude, Cycle!Next
<1>9. CASE Analyse
      BY <1>8, <1>9 DEF Analyse
<1>10. CASE FallBack
      BY <1>8, <1>10 DEF FallBack
<1>11. CASE Review
  <2>1. Cycle!Review
        BY <1>11 DEF Review, Cycle!Review, Phase
  <2> QED BY <1>11, <2>1 DEF Review, Cycle!Next
<1>12. CASE UNCHANGED vars
      BY <1>12 DEF vars, Phase
<1> QED BY <1>1, <1>2, <1>3, <1>4, <1>5, <1>6, <1>7, <1>9, <1>10, <1>11, <1>12
        DEF Next, Work

\* LangGraph's graph and CrewAI's loop, with their retries and fallbacks,
\* implement the abstract build cycle, for any bound on max_iterations.
THEOREM LoopImplementsCycle == Spec => ImplementsCycle
<1>1. Init => Cycle!Init
      BY InitCycle
<1>2. IInv /\ [Next]_vars
          => [Cycle!Next]_<<Phase, rounds, report = "critical", max>>
      BY StepCycle
<1> QED BY <1>1, <1>2, Invariance, PTL DEF Spec, ImplementsCycle, Cycle!Spec
===========================================================================
