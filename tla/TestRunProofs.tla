---------------------------- MODULE TestRunProofs ----------------------------
(***************************************************************************)
(* Proofs about TestRun, for any set of runtimes and any patience of the   *)
(* gateway: the verdict is the runner's report, a success is a real one,   *)
(* and no line is lost between the thread and the session.                 *)
(***************************************************************************)
EXTENDS TestRun, SequenceTheorems, TLAPS

Words == Lines \cup {"refused"}

\* What the terminal shows of one step: nothing, or one line.
Shown == {<<>>} \cup {<<line>> : line \in Lines}

\* Why a run may count as free of critical bugs.
Sound ==
    CASE ran = "passed" -> TRUE
      [] ran = "no"     -> IF Runner = "static" THEN "index" \in has
                           ELSE NothingToTest /\ NotStarted
      [] OTHER          -> FALSE

\* Where the runner is tells what it has done.
Progress ==
    /\ at = "ended" <=> result # "none"
    /\ at = "idle" => said = <<>>
    /\ at \in {"idle", "start", "install", "ready"} => ran = "no" /\ NotStarted
    /\ at \in {"install", "ready", "test"} => Runner # "static"
    /\ at = "test" => ran = "no"
    /\ result = "clean" => Sound

\* A report that is passed on is the runner's.
Reported ==
    /\ trailer \in Reports => trailer = result
    /\ trailer = "cut" => result = "raised" \/ broken
    /\ verdict = "clean" => result = "clean"

\* Who has started, and who takes part.
Stages ==
    /\ gateway = "calling" => /\ at = "idle" /\ sender = "idle" /\ trailer = "none"
                              /\ wire = <<>> /\ terminal = <<>> /\ seen = <<>>
                              /\ verdict = "none"
    /\ sender = "idle" => trailer = "none" /\ wire = <<>> /\ terminal = <<>>
    /\ gateway = "reading" => verdict = "none"
    /\ sender = "idle" => ~remote \/ at = "idle"
    /\ ~remote => sender = "idle"
    /\ future => at = "ended"
    /\ future /\ sender = "empty" => terminal = <<>>
    /\ sender \in {"poll", "empty"} => trailer = "none"

Extends(s, t) == \E u \in Seq(Words) : t = s \o u

\* The lines on their way from the thread to the session.
InOrder ==
    \/ /\ seen = <<"refused">> /\ gateway = "ended"
       /\ at = "idle" /\ sender = "idle"
    \/ /\ Extends(seen \o wire, said)
       /\ ~remote => seen = said
       /\ sender \in {"poll", "empty"} => (seen \o wire) \o terminal = said
       /\ trailer \in Reports => seen \o wire = said
       /\ verdict \in Reports => seen = said /\ at = "ended"

IInv == TypeOK /\ Progress /\ Reported /\ Stages /\ InOrder

---------------------------------------------------------------------------
(* Sequences *)

LEMMA MoveHead ==
    ASSUME NEW S, NEW s \in Seq(S), NEW t \in Seq(S), t # <<>>
    PROVE  /\ Head(t) \in S /\ Tail(t) \in Seq(S) /\ Append(s, Head(t)) \in Seq(S)
           /\ Append(s, Head(t)) \o Tail(t) = s \o t
<1>1. /\ Head(t) \in S /\ Tail(t) \in Seq(S) /\ Len(Tail(t)) = Len(t) - 1
      /\ \A i \in 1 .. Len(Tail(t)) : Tail(t)[i] = t[i + 1]
      BY HeadTailProperties
<1>2. Len(t) \in Nat \ {0} /\ Len(s) \in Nat /\ Head(t) = t[1]
      BY EmptySeq, LenProperties
<1> DEFINE a == Append(s, Head(t))
<1>3. /\ a \in Seq(S) /\ Len(a) = Len(s) + 1
      /\ \A i \in 1 .. Len(s) : a[i] = s[i]
      /\ a[Len(s) + 1] = Head(t)
      BY <1>1, AppendProperties
<1> HIDE DEF a
<1>4. /\ a \o Tail(t) \in Seq(S)
      /\ Len(a \o Tail(t)) = Len(a) + Len(Tail(t))
      /\ \A i \in 1 .. Len(a) + Len(Tail(t)) :
           (a \o Tail(t))[i] = IF i <= Len(a) THEN a[i] ELSE Tail(t)[i - Len(a)]
      BY <1>1, <1>3, ConcatProperties
<1>5. /\ s \o t \in Seq(S)
      /\ Len(s \o t) = Len(s) + Len(t)
      /\ \A i \in 1 .. Len(s) + Len(t) :
           (s \o t)[i] = IF i <= Len(s) THEN s[i] ELSE t[i - Len(s)]
      BY ConcatProperties
<1>6. Len(a \o Tail(t)) = Len(s \o t)
      BY <1>1, <1>2, <1>3, <1>4, <1>5
<1>7. \A i \in 1 .. Len(a \o Tail(t)) : (a \o Tail(t))[i] = (s \o t)[i]
      BY <1>1, <1>2, <1>3, <1>4, <1>5
<1>8. a \o Tail(t) = s \o t
  <2> DEFINE x == a \o Tail(t)
             y == s \o t
  <2>1. x \in Seq(S) /\ y \in Seq(S) /\ Len(x) = Len(y) /\ \A i \in 1 .. Len(x) : x[i] = y[i]
        BY <1>4, <1>5, <1>6, <1>7
  <2> HIDE DEF x, y
  <2>2. x = y
        BY <2>1, SeqEqual
  <2> QED BY <2>2 DEF x, y
<1> QED BY <1>1, <1>3, <1>8 DEF a

LEMMA PassOn ==
    ASSUME NEW s \in Seq(Words), NEW w \in Seq(Words), NEW t \in Seq(Words), t # <<>>
    PROVE  (s \o Append(w, Head(t))) \o Tail(t) = (s \o w) \o t
<1> DEFINE v == Append(w, Head(t))
<1>1. v \in Seq(Words) /\ Tail(t) \in Seq(Words) /\ v \o Tail(t) = w \o t
      BY MoveHead
<1> HIDE DEF v
<1>2. (s \o v) \o Tail(t) = s \o (v \o Tail(t))
      BY <1>1, ConcatAssociative
<1>3. s \o (w \o t) = (s \o w) \o t
      BY ConcatAssociative
<1>4. (s \o v) \o Tail(t) = (s \o w) \o t
      BY <1>1, <1>2, <1>3
<1> QED BY <1>4 DEF v

LEMMA Regroup ==
    ASSUME NEW s \in Seq(Words), NEW t \in Seq(Words), NEW u \in Seq(Words)
    PROVE  s \o (t \o u) = (s \o t) \o u
BY ConcatAssociative

LEMMA Longer ==
    ASSUME NEW s \in Seq(Words), NEW t, NEW u \in Seq(Words), Extends(s, t)
    PROVE  Extends(s, t \o u)
<1>1. PICK v \in Seq(Words) : t = s \o v
      BY DEF Extends
<1>2. t \o u = s \o (v \o u) /\ v \o u \in Seq(Words)
      BY <1>1, ConcatAssociative, ConcatProperties
<1> QED BY <1>2 DEF Extends

LEMMA Shorter ==
    ASSUME NEW s \in Seq(Words), NEW u \in Seq(Words), NEW t, Extends(s \o u, t)
    PROVE  Extends(s, t)
<1>1. PICK v \in Seq(Words) : t = (s \o u) \o v
      BY DEF Extends
<1>2. t = s \o (u \o v) /\ u \o v \in Seq(Words)
      BY <1>1, ConcatAssociative, ConcatProperties
<1> QED BY <1>2 DEF Extends

LEMMA CutOff ==
    ASSUME NEW s \in Seq(Words), NEW u \in Seq(Words), NEW t, Extends(s \o u, t),
           NEW n \in 0 .. Len(u)
    PROVE  Extends(s \o SubSeq(u, 1, n), t)
<1>1. Len(u) \in Nat /\ \A i \in 1 .. Len(u) : u[i] \in Words
      BY LenProperties, ElementOfSeq
<1> DEFINE a == SubSeq(u, 1, n)
           b == SubSeq(u, n + 1, Len(u))
<1>2. a \in Seq(Words) /\ b \in Seq(Words)
      BY <1>1, SubSeqProperties
<1>3. a \o b = u
  <2>1. /\ 1 \in 1 .. Len(u) + 1 /\ n \in 1 - 1 .. Len(u)
        /\ Len(u) \in n .. Len(u)
        BY <1>1
  <2>2. SubSeq(u, 1, n) \o SubSeq(u, n + 1, Len(u)) = SubSeq(u, 1, Len(u))
        BY <2>1, ConcatAdjacentSubSeq, Zenon
  <2> QED BY <2>2, SubSeqFull
<1> HIDE DEF a, b
<1>4. s \o a \in Seq(Words)
      BY <1>2, ConcatProperties
<1>6. (s \o a) \o b = s \o (a \o b)
      BY <1>2, ConcatAssociative
<1>5. Extends(s \o a, t)
  <2>1. Extends((s \o a) \o b, t)
        BY <1>3, <1>6
  <2> QED BY <1>2, <1>4, <2>1, Shorter
<1> QED BY <1>5 DEF a

LEMMA ExtendsIsPrefix ==
    ASSUME NEW s \in Seq(Words), NEW t, Extends(s, t)
    PROVE  IsPrefix(s, t)
<1>1. PICK u \in Seq(Words) : t = s \o u
      BY DEF Extends
<1>2. Len(s) \in Nat /\ Len(u) \in Nat /\ Len(t) = Len(s) + Len(u)
      BY <1>1, LenProperties, ConcatProperties
<1>3. CASE s = <<>>
      BY <1>2, <1>3, SubSeqEmpty DEF IsPrefix
<1>4. CASE s # <<>>
  <2>1. Len(s) \in 1 .. Len(s)
        BY <1>2, <1>4, EmptySeq
  <2>2. 1 \in 1 .. Len(s)
        BY <1>2, <2>1
  <2>3. SubSeq(s \o u, 1, Len(s)) = SubSeq(s, 1, Len(s))
        BY <2>1, <2>2, SubSeqOfConcat1, Zenon
  <2>4. SubSeq(t, 1, Len(s)) = s
        BY <1>1, <2>3, SubSeqFull
  <2>5. Len(s) \in 0 .. Len(t)
        BY <1>2
  <2> QED BY <2>4, <2>5, Zenon DEF IsPrefix
<1> QED BY <1>3, <1>4

---------------------------------------------------------------------------
(* The runner *)

LEMMA RigidFact ==
    ASSUME UNCHANGED rigid
    PROVE  /\ Runner' = Runner /\ has' = has /\ remote' = remote
           /\ Build' = Build /\ HasTests' = HasTests /\ NothingToTest' = NothingToTest
BY DEF rigid, Runner, Build, HasTests, NothingToTest

\* A step of the runner: the lines it shows, where it gets, and on what
\* grounds it returns a report without critical bugs.
Ran(lines) ==
    /\ Emit(lines) /\ Runs
    /\ at \in {"start", "install", "ready", "test"}
    /\ at' \in {"install", "ready", "test", "ended"}
    /\ ran' \in {"no", "passed", "failed", "timeout"}
    /\ result' \in Reports \cup {"none", "raised"}
    /\ at' = "ended" <=> result' # "none"
    /\ at' \in {"install", "ready"} =>
         at # "test" /\ ran' = ran /\ Runner # "static" /\ lines # <<"tests">>
    /\ at' = "test" => at # "test" /\ ran' = ran /\ Runner # "static"
    /\ result' = "clean" =>
         \/ ran' = "passed"
         \/ /\ at # "test" /\ ran' = ran /\ lines # <<"tests">>
            /\ IF Runner = "static" THEN "index" \in has ELSE NothingToTest

LEMMA TestFact ==
    ASSUME TypeOK, Progress, Test
    PROVE  \E lines \in Shown : Ran(lines)
<1>0. \A line \in Lines : <<line>> \in Shown /\ <<line>> # <<>>
      BY DEF Shown
<1>00. <<>> \in Shown /\ <<>> # <<"tests">>
      BY DEF Shown
<1>1. CASE CheckStatic
  <2>1. Ran(<<"checked">>)
        BY <1>1 DEF CheckStatic, Return, Ran, Runs, TypeOK, Progress, Reports
  <2> QED BY <1>0, <2>1 DEF Lines
<1>2. CASE SkipBuild
  <2>1. Ran(<<"skipped">>)
        BY <1>2 DEF SkipBuild, Skips, Build, NothingToTest, Return, Ran, Runs, TypeOK, Progress,
                    Reports
  <2> QED BY <1>0, <2>1 DEF Lines
<1>3. CASE WriteFiles
  <2>1. CASE Raise
    <3>1. Ran(<<>>)
          BY <1>3, <2>1 DEF WriteFiles, Raise, Return, Ran, Runs, TypeOK, Reports
    <3> QED BY <1>00, <3>1
  <2>2. CASE at' = "install" /\ Emit(<<"install">>) /\ UNCHANGED result
    <3>1. Ran(<<"install">>)
          BY <1>3, <2>2 DEF WriteFiles, Ran, Runs, TypeOK, Progress, Reports
    <3> QED BY <1>0, <3>1 DEF Lines
  <2>3. CASE at' = "ready" /\ Emit(<<>>) /\ UNCHANGED result
    <3>1. Ran(<<>>)
          BY <1>00, <1>3, <2>3 DEF WriteFiles, Ran, Runs, TypeOK, Progress, Reports
    <3> QED BY <1>00, <3>1
  <2> QED BY <1>3, <2>1, <2>2, <2>3 DEF WriteFiles
<1>4. CASE Install
  <2>1. CASE Raise
    <3>1. Ran(<<>>)
          BY <1>4, <2>1 DEF Install, Raise, Return, Ran, Runs, TypeOK, Reports
    <3> QED BY <1>00, <3>1
  <2>2. ASSUME at' = "ready", UNCHANGED result, NEW out \in {<<>>, <<"installed">>}, Emit(out)
        PROVE  \E lines \in Shown : Ran(lines)
    <3>1. out \in Shown /\ out # <<"tests">>
          BY <1>0, <1>00, <2>2 DEF Lines
    <3>2. Ran(out)
          BY <1>4, <2>2, <3>1 DEF Install, Ran, Runs, TypeOK, Progress, Reports
    <3> QED BY <3>1, <3>2
  <2>3. CASE Build /\ Return("clean", <<"skipped">>)
    <3>1. Ran(<<"skipped">>)
          BY <1>4, <2>3 DEF Install, Return, Ran, Runs, TypeOK, Progress, Reports, NothingToTest
    <3> QED BY <1>0, <3>1 DEF Lines
  <2> QED BY <1>4, <2>1, <2>2, <2>3 DEF Install, Blank
<1>5. CASE FindTests
  <2>1. CASE at' = "test" /\ Emit(<<"tests">>) /\ UNCHANGED result
    <3>1. Ran(<<"tests">>)
          BY <1>5, <2>1 DEF FindTests, Ran, Runs, TypeOK, Progress, Reports
    <3> QED BY <1>0, <3>1 DEF Lines
  <2>2. CASE ~HasTests /\ Return("clean", <<"skipped">>)
    <3>1. Ran(<<"skipped">>)
          BY <1>5, <2>2 DEF FindTests, Return, Ran, Runs, TypeOK, Progress, Reports, NothingToTest
    <3> QED BY <1>0, <3>1 DEF Lines
  <2> QED BY <1>5, <2>1, <2>2 DEF FindTests
<1>6. CASE TestsReturn
  <2>1. PICK code \in {"passed", "failed"}, out \in Blank("output") :
          /\ ran' = code
          /\ Return(IF code = "passed" THEN "clean" ELSE "critical", out)
        BY <1>6 DEF TestsReturn
  <2>2. out \in Shown
        BY <1>0, <1>00, <2>1 DEF Blank, Lines
  <2>3. Ran(out)
        BY <1>6, <2>1 DEF TestsReturn, Return, Ran, Runs, Reports
  <2> QED BY <2>2, <2>3
<1>7. CASE TestsTimeOut
  <2>1. Ran(<<"error">>)
        BY <1>7 DEF TestsTimeOut, Return, Ran, Runs, Reports
  <2> QED BY <1>0, <2>1 DEF Lines
<1>8. CASE TestsCannotRun
  <2>1. CASE Return("critical", <<"error">>)
    <3>1. Ran(<<"error">>)
          BY <1>8, <2>1 DEF TestsCannotRun, Return, Ran, Runs, Reports, TypeOK
    <3> QED BY <1>0, <3>1 DEF Lines
  <2>2. CASE Raise
    <3>1. Ran(<<>>)
          BY <1>8, <2>2 DEF TestsCannotRun, Raise, Return, Ran, Runs, Reports, TypeOK
    <3> QED BY <1>00, <3>1
  <2> QED BY <1>8, <2>1, <2>2 DEF TestsCannotRun
<1> QED BY <1>1, <1>2, <1>3, <1>4, <1>5, <1>6, <1>7, <1>8 DEF Test

\* The words of a step, and what they do to the lines so far.
LEMMA ShownFact ==
    ASSUME NEW lines \in Shown
    PROVE  lines \in Seq(Lines) /\ lines \in Seq(Words)
<1>1. lines \in Seq(Lines)
  <2>1. CASE lines = <<>>
        BY <2>1, EmptySeq
  <2>2. ASSUME NEW line \in Lines, lines = <<line>> PROVE lines \in Seq(Lines)
        BY <2>2
  <2> QED BY <2>1, <2>2 DEF Shown
<1>2. Lines \subseteq Words
      BY DEF Words
<1> QED BY <1>1, <1>2, SeqMonotonic

LEMMA StillNotStarted ==
    ASSUME said \in Seq(Lines), NEW lines \in Shown, NotStarted, lines # <<"tests">>,
           said' = said \o lines
    PROVE  NotStarted'
<1>1. CASE lines = <<>>
  <2>1. said' = said
        BY <1>1, ConcatEmptySeq
  <2> QED BY <2>1 DEF NotStarted
<1>2. CASE lines # <<>>
  <2>1. PICK line \in Lines : lines = <<line>>
        BY <1>2 DEF Shown
  <2>2. line # "tests" /\ Len(lines) = 1 /\ lines[1] = line /\ Len(said) \in Nat
        BY <2>1, LenProperties
  <2>3. /\ Len(said') = Len(said) + 1
        /\ \A i \in 1 .. Len(said) + 1 :
             said'[i] = IF i <= Len(said) THEN said[i] ELSE lines[i - Len(said)]
        BY <2>2, ShownFact, ConcatProperties
  <2>4. \A i \in 1 .. Len(said) + 1 : i <= Len(said) \/ i - Len(said) = 1
        BY <2>2
  <2> QED BY <2>2, <2>3, <2>4 DEF NotStarted
<1> QED BY <1>1, <1>2

\* Whatever leaves the runner alone leaves its grounds as they are.
LEMMA RunnerKept ==
    ASSUME UNCHANGED rigid, UNCHANGED runner
    PROVE  /\ UNCHANGED <<at, ran, result, said>>
           /\ NotStarted' = NotStarted /\ Sound' = Sound
<1>1. UNCHANGED <<at, ran, result, said>>
      BY DEF runner
<1>2. NotStarted' = NotStarted
      BY <1>1 DEF NotStarted
<1> QED BY <1>1, <1>2, RigidFact DEF Sound

---------------------------------------------------------------------------
(* Types *)

\* One step of the service, the connection or the gateway that takes no line.
Quietly ==
    \/ FindEmpty \/ LookAtTask \/ NoticeReturn \/ Disconnect
    \/ ReadTrailer \/ RunnerReturns \/ IdleTimeout

LEMMA Steps ==
    ASSUME [Next]_vars
    PROVE  \/ Test \/ Call \/ Refused \/ SendLine \/ ReadLine \/ ServiceDies
           \/ Quietly \/ UNCHANGED vars
BY DEF Next, Service, Gateway, Quietly

LEMMA TypeStep == TypeOK /\ Progress /\ [Next]_vars => TypeOK'
<1> SUFFICES ASSUME TypeOK, Progress, [Next]_vars PROVE TypeOK'
    OBVIOUS
<1>1. CASE Test
  <2>1. PICK lines \in Shown : Ran(lines)
        BY <1>1, TestFact
  <2>2. lines \in Seq(Lines) /\ lines \in Seq(Words)
        BY ShownFact
  <2>3. said \o lines \in Seq(Lines) /\ terminal \o lines \in Seq(Lines)
        BY <2>2, ConcatProperties DEF TypeOK
  <2>4. seen \o lines \in Seq(Words)
        BY <2>2, ConcatProperties DEF TypeOK, Words
  <2>5. said' \in Seq(Lines) /\ terminal' \in Seq(Lines) /\ seen' \in Seq(Words)
        BY <2>1, <2>3, <2>4 DEF Ran, Emit, TypeOK, Words
  <2>6. /\ at' \in {"idle", "start", "install", "ready", "test", "ended"}
        /\ ran' \in {"no", "passed", "failed", "timeout"}
        /\ result' \in Reports \cup {"none", "raised"}
        /\ UNCHANGED <<rigid, service, gateway, verdict, broken>>
        BY <2>1 DEF Ran, Runs
  <2> QED BY <2>5, <2>6 DEF TypeOK, Words, rigid, service
<1>2. CASE Call
      BY <1>2 DEF Call, TypeOK, rigid
<1>3. CASE Refused
  <2>1. Append(seen, "refused") \in Seq(Words)
        BY AppendProperties DEF TypeOK, Words
  <2>2. /\ UNCHANGED <<rigid, runner, terminal, service>> /\ broken' = TRUE
        /\ gateway' = "ended" /\ verdict' \in {"raised", "critical"}
        /\ seen' \in {seen, Append(seen, "refused")}
        BY <1>3 DEF Refused, Verdict
  <2>3. seen' \in Seq(Lines \cup {"refused"})
        BY <2>1, <2>2 DEF TypeOK, Words
  <2> QED BY <2>2, <2>3 DEF TypeOK, Reports, rigid, runner, service
<1>4. CASE SendLine
  <2>1. Append(wire, Head(terminal)) \in Seq(Lines) /\ Tail(terminal) \in Seq(Lines)
        BY <1>4, MoveHead DEF SendLine, TypeOK
  <2> QED BY <1>4, <2>1 DEF SendLine, Serves, TypeOK, rigid, runner
<1>5. CASE ReadLine
  <2>1. Head(wire) \in Lines /\ Tail(wire) \in Seq(Lines)
        BY <1>5, HeadTailProperties DEF ReadLine, TypeOK
  <2>2. Append(seen, Head(wire)) \in Seq(Words)
        BY <2>1, AppendProperties DEF TypeOK, Words
  <2> QED BY <1>5, <2>1, <2>2 DEF ReadLine, TypeOK, Words, rigid, runner
<1>6. CASE ServiceDies
  <2>1. PICK n \in 0 .. Len(wire) : wire' = SubSeq(wire, 1, n)
        BY <1>6 DEF ServiceDies
  <2>2. Len(wire) \in Nat /\ \A i \in 1 .. Len(wire) : wire[i] \in Lines
        BY LenProperties, ElementOfSeq DEF TypeOK
  <2>3. SubSeq(wire, 1, n) \in Seq(Lines)
        BY <2>2, SubSeqProperties
  <2> QED BY <1>6, <2>1, <2>3 DEF ServiceDies, TypeOK, rigid, runner
<1>7. CASE Quietly
  <2>1. CASE FindEmpty \/ NoticeReturn \/ Disconnect
        BY <2>1 DEF FindEmpty, NoticeReturn, Disconnect, Serves, TypeOK, rigid, runner
  <2>2. CASE LookAtTask
    <3> QED BY <2>2 DEF LookAtTask, SeesReturn, Trailer, Serves, TypeOK, Reports, rigid, runner
  <2>3. CASE ReadTrailer \/ RunnerReturns \/ IdleTimeout
        BY <2>3 DEF ReadTrailer, RunnerReturns, IdleTimeout, Verdict, TypeOK, Reports,
                    rigid, runner, service
  <2> QED BY <1>7, <2>1, <2>2, <2>3 DEF Quietly
<1>8. CASE UNCHANGED vars
      BY <1>8 DEF vars, rigid, runner, service, TypeOK
<1> QED BY <1>1, <1>2, <1>3, <1>4, <1>5, <1>6, <1>7, <1>8, Steps

---------------------------------------------------------------------------
(* The verdict *)

LEMMA ProgressStep == TypeOK /\ Progress /\ Stages /\ [Next]_vars => Progress'
<1> SUFFICES ASSUME TypeOK, Progress, Stages, [Next]_vars PROVE Progress'
    OBVIOUS
<1>1. CASE Test
  <2>1. PICK lines \in Shown : Ran(lines)
        BY <1>1, TestFact
  <2>2. UNCHANGED rigid /\ said' = said \o lines
        BY <2>1 DEF Ran, Emit, Runs
  <2>3. at # "test" => NotStarted /\ ran = "no"
        BY <2>1 DEF Ran, Progress
  <2>4. at # "test" /\ lines # <<"tests">> => NotStarted'
        BY <2>2, <2>3, StillNotStarted DEF TypeOK
  <2>5. at' \in {"install", "ready"} => ran' = "no" /\ NotStarted' /\ Runner' # "static"
        BY <2>1, <2>2, <2>3, <2>4, RigidFact DEF Ran
  <2>6. at' = "test" => ran' = "no" /\ Runner' # "static"
        BY <2>1, <2>2, <2>3, RigidFact DEF Ran
  <2>7. result' = "clean" => Sound'
    <3>1. CASE ran' = "passed"
          BY <3>1 DEF Sound
    <3>2. CASE /\ at # "test" /\ ran' = ran /\ lines # <<"tests">>
               /\ IF Runner = "static" THEN "index" \in has ELSE NothingToTest
          BY <2>2, <2>3, <2>4, <3>2, RigidFact DEF Sound
    <3> QED BY <2>1, <3>1, <3>2 DEF Ran
  <2>8. /\ at' = "ended" <=> result' # "none"
        /\ at' \in {"install", "ready", "test", "ended"}
        BY <2>1 DEF Ran
  <2> QED BY <2>5, <2>6, <2>7, <2>8 DEF Progress
<1>2. CASE Call
  <2>1. /\ at = "idle" /\ at' = "start"
        /\ UNCHANGED <<ran, result, said>> /\ UNCHANGED rigid
        BY <1>2 DEF Call, Stages
  <2>2. NotStarted' = NotStarted
        BY <2>1 DEF NotStarted
  <2> QED BY <2>1, <2>2 DEF Progress
<1>3. CASE UNCHANGED rigid /\ UNCHANGED runner
      BY <1>3, RunnerKept, RigidFact DEF Progress
<1>4. (UNCHANGED rigid /\ UNCHANGED runner) \/ Test \/ Call
  <2>1. CASE Refused \/ SendLine \/ ReadLine \/ ServiceDies
        BY <2>1 DEF Refused, SendLine, ReadLine, ServiceDies, Serves, rigid, runner
  <2>2. CASE Quietly
        BY <2>2 DEF Quietly, FindEmpty, LookAtTask, NoticeReturn, Disconnect, ReadTrailer,
                    RunnerReturns, IdleTimeout, Serves
  <2>3. CASE UNCHANGED vars
        BY <2>3 DEF vars
  <2> QED BY <2>1, <2>2, <2>3, Steps
<1> QED BY <1>1, <1>2, <1>3, <1>4

LEMMA StagesStep == TypeOK /\ Progress /\ Stages /\ [Next]_vars => Stages'
<1> SUFFICES ASSUME TypeOK, Progress, Stages, [Next]_vars PROVE Stages'
    OBVIOUS
<1>1. CASE Test
  <2>1. PICK lines \in Shown : Ran(lines)
        BY <1>1, TestFact
  <2>2. /\ at \notin {"idle", "ended"} /\ at' # "idle"
        /\ UNCHANGED <<remote, future, sender, wire, trailer, gateway, verdict>>
        /\ ~remote => terminal' = terminal
        BY <2>1 DEF Ran, Runs, Emit, rigid, service
  <2>3. ~future /\ gateway # "calling"
        BY <2>2 DEF Stages
  <2>4. sender = "idle" => ~remote
        BY <2>2 DEF Stages
  <2> QED BY <2>2, <2>3, <2>4 DEF Stages
<1>2. CASE Call
      BY <1>2 DEF Call, Stages, rigid
<1>3. CASE Refused
      BY <1>3 DEF Refused, Verdict, Stages, rigid, runner, service
<1>4. CASE SendLine \/ ReadLine
      BY <1>4 DEF SendLine, ReadLine, Serves, Stages, rigid, runner
<1>5. CASE ServiceDies
      BY <1>5 DEF ServiceDies, Stages, rigid, runner
<1>6. CASE Quietly
  <2>1. CASE FindEmpty \/ NoticeReturn \/ LookAtTask \/ Disconnect
        BY <2>1 DEF FindEmpty, NoticeReturn, LookAtTask, SeesReturn, Disconnect, Serves,
                    Stages, rigid, runner
  <2>2. CASE ReadTrailer \/ RunnerReturns \/ IdleTimeout
        BY <2>2 DEF ReadTrailer, RunnerReturns, IdleTimeout, Verdict, Stages, rigid, runner, service
  <2> QED BY <1>6, <2>1, <2>2 DEF Quietly
<1>7. CASE UNCHANGED vars
      BY <1>7 DEF vars, rigid, runner, service, Stages
<1> QED BY <1>1, <1>2, <1>3, <1>4, <1>5, <1>6, <1>7, Steps

LEMMA ReportedStep == TypeOK /\ Progress /\ Stages /\ Reported /\ [Next]_vars => Reported'
<1> SUFFICES ASSUME TypeOK, Progress, Stages, Reported, [Next]_vars PROVE Reported'
    OBVIOUS
<1>1. CASE Test
  <2>1. /\ at # "ended" /\ UNCHANGED <<trailer, verdict, broken>>
        BY <1>1, TestFact DEF Ran, Runs, service
  <2>2. result = "none"
        BY <2>1 DEF Progress
  <2> QED BY <2>1, <2>2 DEF Reported, Reports, TypeOK
<1>2. CASE Call
      BY <1>2 DEF Call, Reported
<1>3. CASE Refused
      BY <1>3 DEF Refused, Verdict, Reported, runner, service
<1>4. CASE SendLine \/ ReadLine
      BY <1>4 DEF SendLine, ReadLine, Serves, Reported, runner
<1>5. CASE ServiceDies
      BY <1>5 DEF ServiceDies, Reported, Reports, runner
<1>6. CASE Quietly
  <2>1. CASE FindEmpty \/ NoticeReturn \/ LookAtTask \/ Disconnect
        BY <2>1 DEF FindEmpty, NoticeReturn, LookAtTask, Trailer, Disconnect, Serves,
                    Reported, runner, TypeOK, Reports
  <2>2. CASE ReadTrailer \/ RunnerReturns \/ IdleTimeout
        BY <2>2 DEF ReadTrailer, RunnerReturns, IdleTimeout, Verdict, Reported, Reports,
                    runner, service, TypeOK
  <2> QED BY <1>6, <2>1, <2>2 DEF Quietly
<1>7. CASE UNCHANGED vars
      BY <1>7 DEF vars, runner, service, Reported
<1> QED BY <1>1, <1>2, <1>3, <1>4, <1>5, <1>6, <1>7, Steps

\* Commands other than a front-end project's are cut off within a minute.
LEMMA FailuresStep ==
    ASSUME IdleLimit >= 60
    PROVE  TypeOK /\ Progress /\ Stages /\ Reported /\ FailuresAreReports /\ [Next]_vars
             => FailuresAreReports'
<1> SUFFICES ASSUME TypeOK, Progress, Stages, Reported, FailuresAreReports, [Next]_vars
             PROVE  FailuresAreReports'
    OBVIOUS
<1>1. CASE Test
  <2>1. /\ at # "ended" /\ UNCHANGED <<verdict, broken>> /\ UNCHANGED rigid
        BY <1>1, TestFact DEF Ran, Runs
  <2>2. result = "none"
        BY <2>1 DEF Progress
  <2> QED BY <2>1, <2>2, RigidFact DEF FailuresAreReports
<1>2. CASE Call
      BY <1>2, RigidFact DEF Call, FailuresAreReports
<1>3. CASE Refused
      BY <1>3 DEF Refused, FailuresAreReports
<1>4. CASE SendLine \/ ReadLine
      BY <1>4, RigidFact DEF SendLine, ReadLine, Serves, FailuresAreReports, runner
<1>5. CASE ServiceDies
      BY <1>5 DEF ServiceDies, FailuresAreReports
<1>6. CASE Quietly
  <2>1. CASE FindEmpty \/ NoticeReturn \/ LookAtTask \/ Disconnect
        BY <2>1, RigidFact DEF FindEmpty, NoticeReturn, LookAtTask, Disconnect, Serves,
                    FailuresAreReports, runner
  <2>2. CASE ReadTrailer
    <3>1. verdict' = (IF trailer = "cut" THEN "raised" ELSE trailer) /\ trailer # "none"
          BY <2>2 DEF ReadTrailer, Verdict
    <3>2. UNCHANGED <<result, broken>>
          BY <2>2 DEF ReadTrailer, runner
    <3> QED BY <3>1, <3>2 DEF FailuresAreReports, Reported, TypeOK, Reports
  <2>3. CASE RunnerReturns
        BY <2>3 DEF RunnerReturns, Verdict, FailuresAreReports, runner
  <2>4. CASE IdleTimeout
    <3>1. remote /\ Build
          BY <2>4, TestRunAssumption DEF IdleTimeout, CommandLimit
    <3> QED BY <2>4, <3>1, RigidFact DEF IdleTimeout, FailuresAreReports
  <2> QED BY <1>6, <2>1, <2>2, <2>3, <2>4 DEF Quietly
<1>7. CASE UNCHANGED vars
      BY <1>7, RigidFact DEF vars, runner, FailuresAreReports
<1> QED BY <1>1, <1>2, <1>3, <1>4, <1>5, <1>6, <1>7, Steps

---------------------------------------------------------------------------
(* The lines *)

LEMMA OrderStep == TypeOK /\ Progress /\ Stages /\ Reported /\ InOrder /\ [Next]_vars => InOrder'
<1> SUFFICES ASSUME TypeOK, Progress, Stages, Reported, InOrder, [Next]_vars PROVE InOrder'
    OBVIOUS
<1>0. /\ said \in Seq(Words) /\ terminal \in Seq(Words) /\ wire \in Seq(Words)
      /\ seen \in Seq(Words) /\ wire \in Seq(Lines)
      /\ seen \o wire \in Seq(Words) /\ seen \o <<>> = seen /\ terminal \in Seq(Lines)
  <2>1. Lines \subseteq Words
        BY DEF Words
  <2>2. /\ said \in Seq(Words) /\ terminal \in Seq(Words) /\ wire \in Seq(Words)
        /\ seen \in Seq(Words)
        BY <2>1, SeqMonotonic DEF TypeOK, Words
  <2>3. seen \o wire \in Seq(Words)
        BY <2>2, ConcatProperties
  <2> QED BY <2>2, <2>3, ConcatEmptySeq DEF TypeOK
<1> DEFINE Refusal == /\ seen = <<"refused">> /\ gateway = "ended"
                      /\ at = "idle" /\ sender = "idle"
           Kept == /\ Extends(seen \o wire, said)
                   /\ ~remote => seen = said
                   /\ sender \in {"poll", "empty"} => (seen \o wire) \o terminal = said
                   /\ trailer \in Reports => seen \o wire = said
                   /\ verdict \in Reports => seen = said /\ at = "ended"
<1>00. Refusal \/ Kept
      BY DEF InOrder
<1>000. SUFFICES Refusal' \/ Kept'
      BY DEF InOrder
<1>1. CASE Test
  <2>1. PICK lines \in Shown : Ran(lines)
        BY <1>1, TestFact
  <2>2. /\ at # "idle" /\ at # "ended" /\ UNCHANGED <<remote, sender, wire, trailer, verdict>>
        /\ said' = said \o lines
        /\ IF remote
           THEN terminal' = terminal \o lines /\ UNCHANGED seen
           ELSE seen' = seen \o lines /\ UNCHANGED terminal
        BY <2>1 DEF Ran, Runs, Emit, rigid, service
  <2>3. Kept /\ trailer \notin Reports /\ verdict \notin Reports
        BY <1>00, <2>2 DEF Progress, Reported, Reports
  <2>4. lines \in Seq(Words)
        BY ShownFact
  <2>5. CASE remote
    <3>1. Extends(seen \o wire, said \o lines)
          BY <1>0, <2>3, <2>4, Longer
    <3>2. (seen \o wire) \o (terminal \o lines) = ((seen \o wire) \o terminal) \o lines
      <4> DEFINE sent == seen \o wire
      <4>1. sent \in Seq(Words) /\ terminal \in Seq(Words) /\ lines \in Seq(Words)
            BY <1>0, <2>4
      <4> HIDE DEF sent
      <4>2. sent \o (terminal \o lines) = (sent \o terminal) \o lines
            BY <4>1, Regroup
      <4> QED BY <4>2 DEF sent
    <3> QED BY <2>2, <2>3, <2>5, <3>1, <3>2
  <2>6. CASE ~remote
    <3>1. sender = "idle" /\ wire = <<>>
          BY <2>6 DEF Stages
    <3>2. seen' = said' /\ seen' \in Seq(Words)
          BY <1>0, <2>2, <2>3, <2>4, <2>6, ConcatProperties
    <3>3. seen' \o wire' = said' /\ said' = said' \o <<>> /\ <<>> \in Seq(Words)
          BY <2>2, <3>1, <3>2, ConcatEmptySeq
    <3>4. Extends(seen' \o wire', said')
          BY <3>3 DEF Extends
    <3> QED BY <2>2, <2>3, <3>1, <3>2, <3>4
  <2> QED BY <2>5, <2>6
<1>2. CASE Call
  <2>1. /\ wire = <<>> /\ terminal = <<>> /\ seen = <<>> /\ said = <<>>
        /\ trailer = "none" /\ verdict = "none"
        /\ UNCHANGED <<wire, terminal, seen, said, trailer, verdict>>
        BY <1>2 DEF Call, Stages, Progress
  <2>2. <<>> \o <<>> = <<>> /\ <<>> \in Seq(Words)
        BY <1>0, <2>1
  <2>3. Extends(<<>> \o <<>>, <<>>)
        BY <2>2 DEF Extends
  <2> QED BY <2>1, <2>2, <2>3 DEF Reports
<1>3. CASE Refused
  <2>1. /\ wire = <<>> /\ seen = <<>> /\ said = <<>> /\ at = "idle" /\ sender = "idle"
        /\ trailer = "none" /\ remote
        /\ UNCHANGED <<remote, wire, terminal, said, at, sender, trailer>>
        BY <1>3 DEF Refused, Stages, Progress, rigid, runner, service
  <2>2. CASE verdict' = "raised" /\ seen' = seen
    <3>1. Kept
          BY <1>00, <2>1
    <3> QED BY <2>1, <2>2, <3>1 DEF Reports
  <2>3. CASE seen' = Append(seen, "refused") /\ gateway' = "ended"
        BY <2>1, <2>3
  <2> QED BY <1>3, <2>2, <2>3 DEF Refused, Verdict
<1>4. CASE SendLine
  <2>1. /\ sender = "poll" /\ terminal # <<>>
        /\ wire' = Append(wire, Head(terminal)) /\ terminal' = Tail(terminal)
        /\ UNCHANGED <<remote, sender, trailer, seen, said, verdict, at>>
        BY <1>4 DEF SendLine, Serves, rigid, runner
  <2>2. Kept /\ remote /\ trailer = "none"
        BY <1>00, <2>1 DEF Stages
  <2>3. (seen \o wire') \o terminal' = (seen \o wire) \o terminal
    <3>1. (seen \o Append(wire, Head(terminal))) \o Tail(terminal) = (seen \o wire) \o terminal
          BY <1>0, <2>1, PassOn, Zenon
    <3> QED BY <2>1, <3>1
  <2>4. wire' \in Seq(Words) /\ terminal' \in Seq(Words)
        BY <1>0, <2>1, MoveHead
  <2>5. (seen \o wire') \o terminal' = said
        BY <2>1, <2>2, <2>3
  <2>6. Extends(seen \o wire', said)
        BY <2>4, <2>5 DEF Extends
  <2> QED BY <2>1, <2>2, <2>5, <2>6 DEF Reports
<1>5. CASE ReadLine
  <2>1. /\ gateway = "reading" /\ wire # <<>>
        /\ seen' = Append(seen, Head(wire)) /\ wire' = Tail(wire)
        /\ UNCHANGED <<remote, sender, trailer, terminal, said, verdict, at>>
        BY <1>5 DEF ReadLine, rigid, runner
  <2>2. Kept /\ remote
        BY <1>00, <2>1 DEF Stages
  <2>3. seen' \o wire' = seen \o wire
        BY <1>0, <2>1, MoveHead
  <2>4. verdict \notin Reports
        BY <2>1 DEF Stages, Reports
  <2> QED BY <2>1, <2>2, <2>3, <2>4
<1>6. CASE ServiceDies
  <2>1. PICK n \in 0 .. Len(wire) : wire' = SubSeq(wire, 1, n)
        BY <1>6 DEF ServiceDies
  <2>2. /\ remote /\ gateway = "reading" /\ trailer' = "cut" /\ sender' = "ended"
        /\ UNCHANGED <<remote, terminal, seen, said, verdict, at>>
        BY <1>6 DEF ServiceDies, rigid, runner
  <2>3. Kept
        BY <1>00, <2>2
  <2>4. Extends(seen \o SubSeq(wire, 1, n), said)
        BY <1>0, <2>3, CutOff
  <2> QED BY <2>1, <2>2, <2>3, <2>4 DEF Reports
<1>7. CASE Quietly
  <2>1. UNCHANGED <<remote, seen, said, wire, at>>
        BY <1>7 DEF Quietly, FindEmpty, LookAtTask, NoticeReturn, Disconnect, ReadTrailer,
                    RunnerReturns, IdleTimeout, Serves, rigid, runner, service
  <2>2. CASE FindEmpty \/ NoticeReturn \/ Disconnect
        BY <1>00, <2>1, <2>2 DEF FindEmpty, NoticeReturn, Disconnect, Serves
  <2>3. CASE LookAtTask
    <3>1. CASE future
      <4>1. terminal = <<>> /\ sender = "empty" /\ sender' = "ended"
            /\ UNCHANGED verdict
            BY <2>3, <3>1 DEF LookAtTask, SeesReturn, Stages, Serves
      <4>2. Kept
            BY <1>00, <4>1
      <4>3. seen \o wire = said
            BY <1>0, <4>1, <4>2, ConcatEmptySeq
      <4> QED BY <2>1, <4>1, <4>2, <4>3
    <3>2. CASE ~future
          BY <1>00, <2>1, <2>3, <3>2 DEF LookAtTask, SeesReturn, Serves
    <3> QED BY <3>1, <3>2
  <2>4. CASE ReadTrailer
    <3>1. /\ gateway = "reading" /\ wire = <<>> /\ UNCHANGED <<terminal, sender, trailer>>
          /\ verdict' = (IF trailer = "cut" THEN "raised" ELSE trailer) /\ trailer # "none"
          BY <2>4 DEF ReadTrailer, Verdict, service
    <3>2. Kept
          BY <1>00, <3>1
    <3>3. trailer \in Reports => seen = said /\ at = "ended"
          BY <1>0, <3>1, <3>2 DEF Reported, Progress, Reports
    <3> QED BY <2>1, <3>1, <3>2, <3>3 DEF TypeOK, Reports
  <2>5. CASE RunnerReturns
    <3>1. /\ gateway = "reading" /\ ~remote /\ at = "ended"
          /\ UNCHANGED <<terminal, sender, trailer>>
          BY <2>5 DEF RunnerReturns, service
    <3> QED BY <1>00, <2>1, <3>1
  <2>6. CASE IdleTimeout
    <3>1. /\ gateway = "reading" /\ verdict' = "raised"
          /\ UNCHANGED <<terminal, sender, trailer>>
          BY <2>6 DEF IdleTimeout, Verdict, service
    <3> QED BY <1>00, <2>1, <3>1 DEF Reports
  <2> QED BY <1>7, <2>2, <2>3, <2>4, <2>5, <2>6 DEF Quietly
<1>8. CASE UNCHANGED vars
      BY <1>00, <1>8 DEF vars, rigid, runner, service
<1> QED BY <1>1, <1>2, <1>3, <1>4, <1>5, <1>6, <1>7, <1>8, Steps

---------------------------------------------------------------------------
(* The theorems *)

LEMMA Initially == Init => IInv
<1> SUFFICES ASSUME Init PROVE IInv
    OBVIOUS
<1>1. /\ said = <<>> /\ terminal = <<>> /\ wire = <<>> /\ seen = <<>>
      /\ at = "idle" /\ result = "none" /\ ran = "no" /\ trailer = "none"
      /\ verdict = "none" /\ sender = "idle" /\ gateway = "calling" /\ future = FALSE
      BY DEF Init
<1>2. TypeOK
      BY EmptySeq DEF Init, TypeOK
<1>3. NotStarted
      BY <1>1 DEF NotStarted
<1>4. Progress /\ Reported /\ Stages
      BY <1>1, <1>3 DEF Progress, Reported, Stages, Reports
<1>5. <<>> \o <<>> = <<>> /\ <<>> \in Seq(Words)
      BY EmptySeq, ConcatEmptySeq
<1>6. Extends(<<>> \o <<>>, <<>>)
      BY <1>5 DEF Extends
<1>7. InOrder
      BY <1>1, <1>5, <1>6 DEF InOrder, Reports
<1> QED BY <1>2, <1>4, <1>7 DEF IInv

LEMMA Invariance == Spec => []IInv
<1>1. IInv /\ [Next]_vars => IInv'
      BY TypeStep, ProgressStep, ReportedStep, StagesStep, OrderStep DEF IInv
<1> QED BY Initially, <1>1, PTL DEF Spec

\* The variables keep their types: terminal lines, reports and verdicts are
\* what runner, service and gateway make of them (gateway.py:42-77).
THEOREM TypeCorrect == Spec => []TypeOK
<1>1. IInv => TypeOK
      BY DEF IInv
<1> QED BY <1>1, Invariance, PTL

\* Whatever the project and the faults, a verdict without critical bugs has a
\* reason: the tests passed, or there was nothing to run (gateway.py:71).
THEOREM SuccessIsReal == Spec => []NoFalsePass
<1>1. IInv => NoFalsePass
      BY DEF IInv, Reported, Progress, Sound, NoFalsePass
<1> QED BY <1>1, Invariance, PTL

\* In every interleaving of thread, service and gateway the session gets the
\* runner's lines in order, and all of them before a verdict that is the
\* runner's report (app.py:66-76).
THEOREM LinesArrive == Spec => []LinesBeforeVerdict
<1>1. IInv => LinesBeforeVerdict
  <2> SUFFICES ASSUME IInv, seen # <<"refused">>
               PROVE  IsPrefix(seen, said) /\ (verdict \in Reports => seen = said)
      BY DEF LinesBeforeVerdict
  <2>1. /\ Extends(seen \o wire, said)
        /\ verdict \in Reports => seen = said
        BY DEF IInv, InOrder
  <2>2. seen \in Seq(Words) /\ wire \in Seq(Words)
    <3>1. Lines \subseteq Words
          BY DEF Words
    <3> QED BY <3>1, SeqMonotonic DEF IInv, TypeOK, Words
  <2>3. IsPrefix(seen, said)
        BY <2>1, <2>2, Shorter, ExtendsIsPrefix
  <2> QED BY <2>1, <2>3
<1> QED BY <1>1, Invariance, PTL

\* If the gateway waits a minute or more for the next line, only a runner that
\* raises, a broken service or a front-end project ends a test run with an
\* exception (gateway.py:56 against the limits of the runners).
THEOREM FailuresReturn == IdleLimit >= 60 => (Spec => []FailuresAreReports)
<1> SUFFICES ASSUME IdleLimit >= 60 PROVE Spec => []FailuresAreReports
    OBVIOUS
<1>1. Init => FailuresAreReports
      BY DEF Init, FailuresAreReports
<1>2. IInv /\ FailuresAreReports /\ [Next]_vars => FailuresAreReports'
      BY FailuresStep DEF IInv
<1> QED BY <1>1, <1>2, Invariance, PTL DEF Spec
=============================================================================
