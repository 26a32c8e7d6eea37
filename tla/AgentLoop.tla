----------------------------- MODULE AgentLoop -----------------------------
(***************************************************************************)
(* The agents of one session, run after run: developer, designer, tester   *)
(* and reviewer as the LangGraph graph (pipeline/graph.py) and the CrewAI  *)
(* back end (pipeline/crew_backend.py) chain them, with the retries of     *)
(* their model calls.                                                      *)
(*                                                                         *)
(* The tester first runs the project in the sandbox, then has a model      *)
(* analyse it: two steps, "sandbox" and "analysis".                        *)
(***************************************************************************)
EXTENDS Naturals

CONSTANT MaxIterations      \* bound of max_iterations (5 in schemas.py)

ASSUME LoopAssumption == MaxIterations \in Nat

VARIABLES
    backend,    \* the session's back end
    max,        \* state["max_iterations"]
    agent,      \* who is at work, or how the run ended
    iteration,  \* state["iteration"]
    report,     \* state["test_report"]
    found,      \* has_critical_bugs of the sandbox report
    attempt,    \* failed attempts of the current model call
    feedback,   \* the report the developer of this round was shown
    (* History variables. *)
    rounds,     \* rounds of development of this run
    untested    \* whose changes to the files the sandbox has not run

vars == <<backend, max, agent, iteration, report, found, attempt, feedback,
          rounds, untested>>

Working == {"developer", "designer", "sandbox", "analysis", "reviewer"}
Ended   == {"idle", "done", "failed"}
Reports == {"none", "clean", "critical"}

TypeOK ==
    /\ backend \in {"langgraph", "crewai"}
    /\ max \in 1..MaxIterations
    /\ agent \in Working \cup Ended
    /\ iteration \in 0..MaxIterations
    /\ report \in Reports
    /\ found \in BOOLEAN
    /\ attempt \in 0..4
    /\ feedback \in Reports
    /\ rounds \in 0..MaxIterations
    /\ untested \subseteq {"developer", "designer", "reviewer"}

Init ==
    /\ backend \in {"langgraph", "crewai"}
    /\ max \in 1..MaxIterations
    /\ agent = "idle"
    /\ iteration = 0
    /\ report = "none"
    /\ found = FALSE
    /\ attempt = 0
    /\ feedback = "none"
    /\ rounds = 0
    /\ untested = {}

---------------------------------------------------------------------------
(* Approving the plan and iterating reset what the previous run left. *)

\* Mutant: the counter is not reset when a session is run again.
BeginKeepsCount ==
    /\ agent' = "developer"
    /\ rounds' = 0
    /\ UNCHANGED <<backend, max, iteration, found, attempt, feedback, untested>>

Begin ==
    /\ agent' = "developer"
    /\ iteration' = 0
    /\ rounds' = 0
    /\ UNCHANGED <<backend, max, found, attempt, feedback, untested>>

Approve == agent = "idle" /\ Begin /\ UNCHANGED report

Iterate == agent \in {"done", "failed"} /\ Begin /\ report' = "none"

---------------------------------------------------------------------------
(* Model calls *)

\* Attempts of the call the agent makes: retry_llm_call retries four times,
\* once for the tester; CrewAI repeats the developer's call only.
Attempts ==
    IF backend = "langgraph"
    THEN IF agent = "analysis" THEN 2 ELSE 5
    ELSE IF agent = "developer" THEN 3 ELSE 1

\* A transient error; for CrewAI's developer any error and any answer that
\* cannot be parsed.
Retry ==
    /\ agent \in Working \ {"sandbox"}
    /\ attempt + 1 < Attempts
    /\ attempt' = attempt + 1
    /\ UNCHANGED <<backend, max, agent, iteration, report, found, feedback, rounds, untested>>

\* An error no attempt is left for, or the client cannot be built; with
\* retry_llm_call any other error, and a developer's answer nobody can parse.
GivesUp == backend = "langgraph" \/ attempt \in {0, Attempts - 1}

\* The exception ends the run.  Failing tests are a report, but an unreachable
\* sandbox is an exception; a failed analysis falls back on the report, one
\* that answers nothing (None) is an exception when it is merged.
Fail ==
    /\ agent \in Working
    /\ GivesUp
    /\ agent' = "failed"
    /\ attempt' = 0
    /\ UNCHANGED <<backend, max, iteration, report, found, feedback, rounds, untested>>

---------------------------------------------------------------------------
(* Agents *)

\* Mutant: the condition counts rounds from one.
FeedbackFromTwo == IF iteration > 1 THEN report ELSE "none"

\* The section of the developer's prompt about the last tests.
Feedback == IF iteration > 0 THEN report ELSE "none"

\* All files are new.
Develop ==
    /\ agent = "developer"
    /\ agent' = IF backend = "langgraph" THEN "designer" ELSE "sandbox"
    /\ feedback' = Feedback
    /\ iteration' = iteration + 1
    /\ rounds' = rounds + 1
    /\ untested' = {"developer"}
    /\ attempt' = 0
    /\ UNCHANGED <<backend, max, report, found>>

\* The designer and the reviewer lay files over the others, or none.
Improve(who) == untested' \in {untested, untested \cup {who}}

Design ==
    /\ agent = "designer"
    /\ agent' = "sandbox"
    /\ attempt' = 0
    /\ Improve("designer")
    /\ UNCHANGED <<backend, max, iteration, report, found, feedback, rounds>>

TestInSandbox ==
    /\ agent = "sandbox"
    /\ agent' = "analysis"
    /\ found' \in BOOLEAN
    /\ untested' = {}
    /\ UNCHANGED <<backend, max, iteration, report, attempt, feedback, rounds>>

\* Mutant: one round less than promised.
MoreRoundsShort == iteration + 1 < max

\* After the tests: _route_after_tester, and the end of CrewAI's loop body.
MoreRounds == iteration < max

Conclude(bugs) ==
    /\ agent = "analysis"
    /\ report' = IF bugs THEN "critical" ELSE "clean"
    /\ agent' = IF bugs /\ MoreRounds THEN "developer" ELSE "reviewer"
    /\ attempt' = 0
    /\ UNCHANGED <<backend, max, iteration, found, feedback, rounds, untested>>

Analyse == \E bugs \in BOOLEAN : Conclude(found \/ bugs)

\* Mutant: a failed analysis starts the tests again.
FallBackRetests ==
    /\ agent = "analysis"
    /\ agent' = "sandbox"
    /\ attempt' = 0
    /\ UNCHANGED <<backend, max, iteration, report, found, feedback, rounds, untested>>

\* The analysis failed or took too long: the sandbox report stands alone.
FallBack == Conclude(found)

\* The reviewer's changes go out as they are.
Review ==
    /\ agent = "reviewer"
    /\ agent' = "done"
    /\ attempt' = 0
    /\ Improve("reviewer")
    /\ UNCHANGED <<backend, max, iteration, report, found, feedback, rounds>>

Work == Retry \/ Fail \/ Develop \/ Design \/ TestInSandbox
        \/ Analyse \/ FallBack \/ Review

Next == Approve \/ Iterate \/ Work

Spec == Init /\ [][Next]_vars

\* Model calls, sandbox runs and the sleeps between attempts end.
FairSpec == Spec /\ WF_vars(Work)

---------------------------------------------------------------------------
(* Properties *)

\* What is delivered has been tested in this run but for what the reviewer
\* laid over it (reviewer.py:70, crew_backend.py:374); the report that goes
\* with it hides no failure of those tests, and tells of critical bugs only
\* when all rounds the user asked for have been spent on them, however earlier
\* runs of the session ended.
Delivery ==
    agent = "done" => /\ untested \subseteq {"reviewer"}
                      /\ report # "none"
                      /\ found => report = "critical"
                      /\ report = "critical" => rounds = max

\* The developer is told what the previous round of this run broke, and
\* nothing about earlier runs.
FeedbackIsFresh ==
    agent \in {"designer", "sandbox", "analysis"} =>
        feedback = IF rounds > 1 THEN "critical" ELSE "none"

\* Every run ends: loops and retries are bounded.
RunEnds == agent \in Working ~> agent \in Ended

(* Both back ends implement the same cycle. *)
Phase == IF agent = "developer" THEN "developing"
         ELSE IF agent \in {"designer", "sandbox", "analysis"} THEN "testing"
         ELSE IF agent = "reviewer" THEN "reviewing"
         ELSE agent

Cycle == INSTANCE BuildCycle WITH phase <- Phase, critical <- (report = "critical")

ImplementsCycle == Cycle!Spec
===========================================================================
