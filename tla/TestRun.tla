------------------------------ MODULE TestRun ------------------------------
(***************************************************************************)
(* One test run of a generated project: the runner that works in a thread  *)
(* (sandbox/python_runner.py, node_runner.py, static_runner.py), the       *)
(* sandbox service that streams its terminal lines and then its report     *)
(* (sandbox_service/app.py), and the gateway that passes the lines on to   *)
(* the session and returns the verdict (sandbox/gateway.py).  Without      *)
(* SANDBOX_URL the runner works in the application itself.                 *)
(*                                                                         *)
(* The thread and the service's event loop interleave at every step; the   *)
(* loop's own steps are atomic up to the next await.                       *)
(***************************************************************************)
EXTENDS Naturals, Sequences

CONSTANTS
    Runtimes,   \* runtimes a session may ask for
    IdleLimit   \* seconds the gateway waits for the next bytes of the answer

ASSUME TestRunAssumption == Runtimes \subseteq STRING /\ IdleLimit \in Nat

VARIABLES
    remote,     \* SANDBOX_URL is set
    runtime,    \* the runtime asked for
    has,        \* what the project has
    gateway,    \* where run_tests of the gateway is
    at,         \* where the runner is
    ran,        \* how the test command ended
    result,     \* what the runner returned, or that it raised
    said,       \* history: the terminal lines the runner emitted
    terminal,   \* the service's queue
    future,     \* the service's loop knows that the thread has returned
    sender,     \* where the service's generator is
    wire,       \* lines sent and not yet read
    trailer,    \* what follows them: the report, or a broken connection
    seen,       \* the lines put into the session's queue
    verdict,    \* what run_tests returned, or that it raised
    broken      \* history: the service failed or could not be reached

rigid == <<remote, runtime, has>>
runner == <<at, ran, result, said>>
service == <<future, sender, wire, trailer>>
vars == <<rigid, runner, terminal, service, gateway, seen, verdict, broken>>

Lines == {"install", "installed", "tests", "output", "error", "skipped", "checked"}
Features == {"package", "build", "script", "tests", "index"}
Reports == {"clean", "critical"}

TypeOK ==
    /\ remote \in BOOLEAN /\ runtime \in Runtimes /\ has \subseteq Features
    /\ gateway \in {"calling", "reading", "ended"}
    /\ at \in {"idle", "start", "install", "ready", "test", "ended"}
    /\ ran \in {"no", "passed", "failed", "timeout"}
    /\ result \in Reports \cup {"none", "raised"}
    /\ said \in Seq(Lines) /\ terminal \in Seq(Lines) /\ wire \in Seq(Lines)
    /\ seen \in Seq(Lines \cup {"refused"})
    /\ future \in BOOLEAN /\ broken \in BOOLEAN
    /\ sender \in {"idle", "poll", "empty", "ended"}
    /\ trailer \in Reports \cup {"none", "cut"}
    /\ verdict \in Reports \cup {"none", "raised"}

\* Scripts are a part of package.json.
Init ==
    /\ remote \in BOOLEAN /\ runtime \in Runtimes
    /\ has \in {h \in SUBSET Features : {"build", "script"} \cap h # {} => "package" \in h}
    /\ gateway = "calling" /\ at = "idle" /\ ran = "no" /\ result = "none"
    /\ said = <<>> /\ terminal = <<>> /\ wire = <<>> /\ seen = <<>>
    /\ future = FALSE /\ sender = "idle" /\ trailer = "none"
    /\ verdict = "none" /\ broken = FALSE

---------------------------------------------------------------------------
(* The runner *)

Runner == CASE runtime \in {"node", "react", "angular"} -> "node"
            [] runtime = "static" -> "static"
            [] OTHER -> "python"

\* A front-end project: the build is its test, unless it has a test script.
Build == Runner = "node" /\ "build" \in has

Skips == Build /\ "script" \notin has

NeedsInstall == Runner = "node" /\ "package" \in has
HasTests == Build \/ "tests" \in has

\* Mutant: the limit of a front-end project for every command.
LongLimit == 180

\* The seconds the present command may take.
CommandLimit == IF Build THEN 180 ELSE IF at = "install" THEN 60 ELSE 30

\* emit_terminal: to the service's queue, or to the session's.
Emit(lines) ==
    /\ said' = said \o lines
    /\ IF remote
       THEN terminal' = terminal \o lines /\ UNCHANGED seen
       ELSE seen' = seen \o lines /\ UNCHANGED terminal

\* Output that is blank is not emitted.
Blank(line) == {<<>>, <<line>>}

Runs == UNCHANGED <<rigid, service, gateway, verdict, broken>>

Return(report, lines) ==
    /\ at' = "ended"
    /\ result' = report
    /\ Emit(lines)

Raise == Return("raised", <<>>)

CheckStatic ==
    /\ at = "start" /\ Runner = "static"
    /\ Return(IF "index" \in has THEN "clean" ELSE "critical", <<"checked">>)
    /\ Runs /\ UNCHANGED ran

SkipBuild ==
    /\ at = "start" /\ Skips
    /\ Return("clean", <<"skipped">>)
    /\ Runs /\ UNCHANGED ran

\* Writing the files raises for names that are no paths.
WriteFiles ==
    /\ at = "start" /\ Runner # "static" /\ ~Skips
    /\ \/ Raise
       \/ NeedsInstall /\ at' = "install" /\ Emit(<<"install">>) /\ UNCHANGED result
       \/ ~NeedsInstall /\ at' = "ready" /\ Emit(<<>>) /\ UNCHANGED result
    /\ Runs /\ UNCHANGED ran

\* npm install, whatever its exit code; its time limit or a missing npm skip
\* the tests of a front-end project and are ignored otherwise.
Install ==
    /\ at = "install"
    /\ \/ Raise
       \/ /\ at' = "ready" /\ UNCHANGED result
          /\ \E out \in IF Build THEN {<<>>} ELSE Blank("installed") : Emit(out)
       \/ Build /\ Return("clean", <<"skipped">>)
    /\ Runs /\ UNCHANGED ran

FindTests ==
    /\ at = "ready"
    /\ \/ HasTests /\ at' = "test" /\ Emit(<<"tests">>) /\ UNCHANGED result
       \/ ~HasTests /\ Return("clean", <<"skipped">>)
    /\ Runs /\ UNCHANGED ran

\* The command returned: its exit code decides, whatever its output says.
TestsReturn ==
    /\ at = "test"
    /\ \E code \in {"passed", "failed"}, out \in Blank("output") :
         /\ ran' = code
         /\ Return(IF code = "passed" THEN "clean" ELSE "critical", out)
    /\ Runs

\* Mutant: a test run that was cut off counts as skipped.
TimeOutSkips ==
    /\ at = "test"
    /\ ran' = "timeout"
    /\ Return("clean", <<"error">>)
    /\ Runs

TestsTimeOut ==
    /\ at = "test"
    /\ ran' = "timeout"
    /\ Return("critical", <<"error">>)
    /\ Runs

\* The command cannot be started, or its output cannot be decoded: pytest's
\* runner reports every exception, node's a missing node, npm test's none.
TestsCannotRun ==
    /\ at = "test"
    /\ \/ ~Build /\ Return("critical", <<"error">>)
       \/ Runner = "node" /\ Raise
    /\ Runs /\ UNCHANGED ran

Test ==
    \/ CheckStatic \/ SkipBuild \/ WriteFiles \/ Install
    \/ FindTests \/ TestsReturn \/ TestsTimeOut \/ TestsCannotRun

---------------------------------------------------------------------------
(* The service: its generator polls the queue without ever waiting in it. *)

Serves == UNCHANGED <<rigid, runner, gateway, seen, verdict, broken>>

\* The thread's return reaches the future in a callback of the loop, so never
\* between a look into the queue and the look at the future that follows it.
NoticeReturn ==
    /\ remote /\ at = "ended" /\ ~future /\ sender # "empty"
    /\ future' = TRUE
    /\ UNCHANGED <<sender, wire, trailer, terminal>>
    /\ Serves

SendLine ==
    /\ sender = "poll" /\ terminal # <<>>
    /\ wire' = Append(wire, Head(terminal))
    /\ terminal' = Tail(terminal)
    /\ UNCHANGED <<future, sender, trailer>>
    /\ Serves

FindEmpty ==
    /\ sender = "poll" /\ terminal = <<>>
    /\ sender' = "empty"
    /\ UNCHANGED <<future, wire, trailer, terminal>>
    /\ Serves

\* Mutant: the generator asks the thread, which may just have emitted a line.
SeesThread == at = "ended"

SeesReturn == future

\* Mutant: the connection is left open when the runner raised.
LeftOpen == IF result = "raised" THEN "none" ELSE result

\* The report; a runner that raised breaks the connection off.
Trailer == IF result = "raised" THEN "cut" ELSE result

\* Nothing left to send: sleep, or send what follows the lines.
LookAtTask ==
    /\ sender = "empty"
    /\ IF SeesReturn
       THEN sender' = "ended" /\ trailer' = Trailer
       ELSE sender' = "poll" /\ UNCHANGED trailer
    /\ UNCHANGED <<future, wire, terminal>>
    /\ Serves

\* The gateway is gone: the generator is cancelled, the thread works on.
Disconnect ==
    /\ gateway = "ended" /\ sender \in {"poll", "empty"}
    /\ sender' = "ended"
    /\ UNCHANGED <<future, wire, trailer, terminal>>
    /\ Serves

Service == NoticeReturn \/ SendLine \/ FindEmpty \/ LookAtTask \/ Disconnect

\* The service or the connection dies, with whatever had not arrived.
ServiceDies ==
    /\ remote /\ gateway = "reading"
    /\ \E n \in 0..Len(wire) : wire' = SubSeq(wire, 1, n)
    /\ trailer' = "cut" /\ sender' = "ended" /\ broken' = TRUE
    /\ UNCHANGED <<rigid, runner, terminal, future, gateway, seen, verdict>>

---------------------------------------------------------------------------
(* The gateway *)

Verdict(v) ==
    /\ gateway' = "ended"
    /\ verdict' = v

\* Without a service the runner starts in a thread of the application.
Call ==
    /\ gateway = "calling"
    /\ gateway' = "reading" /\ at' = "start"
    /\ sender' = IF remote THEN "poll" ELSE "idle"
    /\ UNCHANGED <<rigid, ran, result, said, terminal, future, wire, trailer,
                   seen, verdict, broken>>

\* Another answer than a stream: an error in JSON is put into the session's
\* queue and leaves the gateway without a report, any other text raises.
Refused ==
    /\ remote /\ gateway = "calling"
    /\ \/ Verdict("raised") /\ UNCHANGED seen
       \/ Verdict("critical") /\ seen' = Append(seen, "refused")
    /\ broken' = TRUE
    /\ UNCHANGED <<rigid, runner, terminal, service>>

ReadLine ==
    /\ gateway = "reading" /\ wire # <<>>
    /\ seen' = Append(seen, Head(wire))
    /\ wire' = Tail(wire)
    /\ UNCHANGED <<rigid, runner, terminal, future, sender, trailer, gateway,
                   verdict, broken>>

ReadTrailer ==
    /\ gateway = "reading" /\ wire = <<>> /\ trailer # "none"
    /\ Verdict(IF trailer = "cut" THEN "raised" ELSE trailer)
    /\ UNCHANGED <<rigid, runner, terminal, service, seen, broken>>

\* Nothing for so long; the generator polls every 50 ms, so there is nothing
\* to send, and only a command may last long enough.
IdleTimeout ==
    /\ remote /\ gateway = "reading" /\ wire = <<>> /\ terminal = <<>>
    /\ at \in {"install", "test"} /\ CommandLimit > IdleLimit
    /\ Verdict("raised")
    /\ UNCHANGED <<rigid, runner, terminal, service, seen, broken>>

RunnerReturns ==
    /\ ~remote /\ gateway = "reading" /\ at = "ended"
    /\ Verdict(result)
    /\ UNCHANGED <<rigid, runner, terminal, service, seen, broken>>

Gateway == Call \/ ReadLine \/ ReadTrailer \/ RunnerReturns

Next == Test \/ Service \/ Gateway \/ ServiceDies \/ Refused \/ IdleTimeout

Spec == Init /\ [][Next]_vars

\* Every command has a time limit, both loops go on, and the service's runs
\* its callbacks between two polls of the generator.
FairSpec ==
    /\ Spec
    /\ WF_vars(Test) /\ WF_vars(Service) /\ WF_vars(Gateway)
    /\ SF_vars(NoticeReturn)

---------------------------------------------------------------------------
(* Properties *)

\* No test command is started for them; a front-end project that cannot be
\* installed is left to its build.
NothingToTest == Build \/ ~HasTests

NotStarted == \A i \in 1..Len(said) : said[i] # "tests"

\* A verdict without critical bugs means that the tests passed, that a static
\* project has its page, or that there was nothing to run; no time limit, lost
\* connection or refused call is ever reported as a success (the critical
\* report for a missing one, gateway.py:71).
NoFalsePass ==
    verdict = "clean" =>
        CASE ran = "passed" -> TRUE
          [] ran = "no"     -> IF Runner = "static" THEN "index" \in has
                               ELSE NothingToTest /\ NotStarted
          [] OTHER          -> FALSE

IsPrefix(s, t) == \E n \in 0..Len(t) : s = SubSeq(t, 1, n)

\* The session is shown the runner's lines in their order, and when the
\* verdict is the runner's report, all of them, though thread, service and
\* gateway work at the same time (app.py:66-76).
LinesBeforeVerdict ==
    \/ seen = <<"refused">>
    \/ /\ IsPrefix(seen, said)
       /\ verdict \in Reports => seen = said

\* Tests that fail, hang or cannot run are reported, they do not fail the run
\* with an exception: unless the runner itself raised, the service failed, or
\* a front-end project's command outlasted the gateway's patience
\* (gateway.py:56 against the limits of the runners).
FailuresAreReports ==
    verdict = "raised" => result = "raised" \/ broken \/ (remote /\ Build)

\* Every test run ends with a verdict, whatever the tests do.
TestsEnd == <>(verdict # "none")
=============================================================================
