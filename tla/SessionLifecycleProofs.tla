---------------------- MODULE SessionLifecycleProofs ----------------------
(***************************************************************************)
(* Theorems about SessionLifecycle for every set of clients, tasks, dicts  *)
(* and file sets, with or without a sandbox service, with or without       *)
(* restarts.                                                               *)
(***************************************************************************)
EXTENDS SessionLifecycle, TLAPS

---------------------------------------------------------------------------
(* What the building blocks of the actions do. *)

\* The initial dict, task and handler have their types.
LEMMA RecordTypes ==
  /\ Blank \in State
  /\ NoRun \in RunRecord
  /\ NoCall \in CallRecord
  BY DEF Blank, State, Status, FileSets, NoRun, RunRecord, RunPc, RunKind,
         NoCall, CallRecord, CallPc

\* A handler that awaits something changes nobody else's record.
LEMMA SuspendLemma ==
  ASSUME NEW c \in Clients, NEW pc \in CallPc, NEW o \in Objects \cup {None},
         calls \in [Clients -> CallRecord], Suspend(c, pc, o)
  PROVE  /\ calls' \in [Clients -> CallRecord]
         /\ calls'[c].pc = pc /\ calls'[c].obj = o
         /\ \A d \in Clients : d # c => calls'[d] = calls[d]
  <1>1. [NoCall EXCEPT !.pc = pc, !.obj = o] \in CallRecord
    BY DEF NoCall, CallRecord, CallPc, FileSets
  <1>2. calls' = [calls EXCEPT ![c] = [NoCall EXCEPT !.pc = pc, !.obj = o]]
    BY DEF Suspend
  <1>3. /\ [NoCall EXCEPT !.pc = pc, !.obj = o].pc = pc
        /\ [NoCall EXCEPT !.pc = pc, !.obj = o].obj = o
    BY DEF NoCall
  <1> QED BY <1>1, <1>2, <1>3

\* A handler that answers is gone, and nobody else is.
LEMMA AnswerLemma ==
  ASSUME NEW c \in Clients, calls \in [Clients -> CallRecord], Answer(c)
  PROVE  /\ calls' \in [Clients -> CallRecord]
         /\ calls'[c].pc = "idle"
         /\ \A d \in Clients : d # c => calls'[d] = calls[d]
  <1>1. NoCall.pc = "idle"
    BY DEF NoCall
  <1> QED BY <1>1, RecordTypes DEF Answer

\* History only records known events.
LEMMA RecordLemma ==
  ASSUME NEW e, past \subseteq Events, Record(e)
  PROVE  past' \subseteq Events
  BY ConstantsAssumption DEF Record

\* Storing a dict leaves every dict somebody refers to alone.
LEMMA StoreLemma ==
  ASSUME NEW o \in Objects, NEW s \in State,
         heap \in [Objects -> State], Store(o, s)
  PROVE  /\ heap' \in [Objects -> State]
         /\ heap'[o] = s
         /\ \A x \in Live \cap Objects : x # o => heap'[x] = heap[x]
  BY RecordTypes DEF Store

\* Marking a dict changes its status, and nothing else.
LEMMA SetStatusLemma ==
  ASSUME NEW o \in Objects, NEW s \in Status,
         heap \in [Objects -> State], SetStatus(o, s)
  PROVE  /\ heap' \in [Objects -> State]
         /\ heap'[o].status = s
         /\ \A x \in Objects : heap'[x].plan = heap[x].plan
         /\ \A x \in Objects : x # o => heap'[x] = heap[x]
  BY DEF SetStatus, State, Status

\* Replacing a dict's files leaves all statuses alone.
LEMMA SetFilesLemma ==
  ASSUME NEW o, NEW f \in FileSets, heap \in [Objects -> State], SetFiles(o, f)
  PROVE  /\ heap' \in [Objects -> State]
         /\ \A x \in Objects : heap'[x].status = heap[x].status
  BY DEF SetFiles, State

\* asyncio.create_task adds one working task, for the dict it is given.
LEMMA SpawnLemma ==
  ASSUME NEW kind \in RunKind, NEW o \in Objects, NEW e,
         TypeOK, Spawn(kind, o, e)
  PROVE  /\ runs' \in [Runs -> RunRecord]
         /\ past' \subseteq Events
         /\ \E r \in Runs :
              /\ Idle(r)
              /\ runs'[r].pc = "working" /\ runs'[r].obj = o
              /\ runs'[r].kind = kind
              /\ \A q \in Runs : q # r => runs'[q] = runs[q]
  <1> DEFINE b == IF backend = None THEN "langgraph" ELSE backend
             t == [NoRun EXCEPT !.pc = "working", !.kind = kind, !.obj = o,
                                !.backend = b]
  <1>1. PICK r \in Runs :
           /\ Idle(r)
           /\ runs' = [runs EXCEPT ![r] = t]
           /\ Record(e \cup Overlap)
    BY DEF Spawn
  <1>2. b \in {"langgraph", "crewai"}
    BY ConstantsAssumption DEF TypeOK
  <1>3. t \in RunRecord /\ t.pc = "working" /\ t.obj = o /\ t.kind = kind
    BY <1>2 DEF NoRun, RunRecord, RunPc, RunKind, FileSets
  <1>4. past' \subseteq Events
    BY <1>1, RecordLemma DEF TypeOK
  <1> HIDE DEF t
  <1> QED BY <1>1, <1>3, <1>4 DEF TypeOK

\* A task that ends leaves the others as they are.
LEMMA FinishLemma ==
  ASSUME NEW r \in Runs, NEW e, TypeOK, Finish(r, e)
  PROVE  /\ runs' \in [Runs -> RunRecord]
         /\ past' \subseteq Events
         /\ runs'[r].pc = "idle"
         /\ \A q \in Runs : q # r => runs'[q] = runs[q]
  <1>1. NoRun.pc = "idle"
    BY DEF NoRun
  <1> QED BY <1>1, RecordTypes, RecordLemma DEF Finish, TypeOK

\* Going on to pipeline_done keeps the types.
LEMMA TellingLemma ==
  ASSUME NEW r \in Runs, TypeOK,
         runs' = [runs EXCEPT ![r].pc = "telling"]
  PROVE  /\ runs' \in [Runs -> RunRecord]
         /\ runs'[r].pc = "telling" /\ runs'[r].obj = runs[r].obj
         /\ \A q \in Runs : q # r => runs'[q] = runs[q]
  <1>1. [runs[r] EXCEPT !.pc = "telling"] \in RunRecord
    BY DEF TypeOK, RunRecord, RunPc
  <1> QED BY <1>1 DEF TypeOK, RunRecord

---------------------------------------------------------------------------
(* Type correctness.  Its strengthening: whoever is under way holds a      *)
(* dict, and a handler that carries a row carries a well-formed one.       *)

RunRef(r)  == runs[r].pc # "idle" => runs[r].obj \in Objects
CallRef(c) ==
    /\ calls[c].pc \in {"inserting", "stopping", "keys", "asking", "chatStopping"}
           => calls[c].obj \in Objects
    /\ calls[c].pc \in {"inserting", "loading", "installing"}
           => calls[c].row \in Row
RefInv  == (\A r \in Runs : RunRef(r)) /\ (\A c \in Clients : CallRef(c))
TypeInv == TypeOK /\ RefInv

\* The types hold when the server starts.
LEMMA InitTypeInv == Init => TypeInv
  <1>1. NoRun.pc = "idle" /\ NoCall.pc = "idle"
    BY DEF NoRun, NoCall
  <1> QED BY <1>1, RecordTypes, ConstantsAssumption
          DEF Init, TypeInv, TypeOK, RefInv, RunRef, CallRef, FileSets

\* Starting an iteration keeps the types.
LEMMA LaunchLemma ==
  ASSUME NEW c \in Clients, NEW o \in Objects, NEW k \in BOOLEAN,
         TypeInv, Launch(c, o, k)
  PROVE  /\ heap' \in [Objects -> State]
         /\ heap'[o].status = "running"
         /\ \A x \in Objects : x # o => heap'[x] = heap[x]
         /\ runs' \in [Runs -> RunRecord]
         /\ past' \subseteq Events
         /\ calls' \in [Clients -> CallRecord]
         /\ \A r \in Runs : RunRef(r)'
         /\ CallRef(c)'
         /\ \A d \in Clients : d # c => calls'[d] = calls[d]
         /\ \/ calls'[c].pc = "keys" /\ calls'[c].obj = o /\ runs' = runs
            \/ /\ calls'[c].pc = "idle"
               /\ \E r \in Runs :
                    /\ Idle(r)
                    /\ runs'[r].pc = "working" /\ runs'[r].obj = o
                    /\ \A q \in Runs : q # r => runs'[q] = runs[q]
  <1>1. SetStatus(o, "running") /\ "running" \in Status
    BY DEF Launch, Status
  <1>2. CASE k
    <2>1. Suspend(c, "keys", o) /\ UNCHANGED <<runs, past>> /\ "keys" \in CallPc
      BY <1>2 DEF Launch, CallPc
    <2> QED BY <1>1, <2>1, SuspendLemma, SetStatusLemma
            DEF TypeInv, TypeOK, RefInv, RunRef, CallRef
  <1>3. CASE ~k
    <2>1. Answer(c) /\ Spawn("iterate", o, {}) /\ "iterate" \in RunKind
      BY <1>3 DEF Launch, RunKind
    <2> QED BY <1>1, <2>1, AnswerLemma, SpawnLemma, SetStatusLemma
            DEF TypeInv, TypeOK, RefInv, RunRef, CallRef
  <1> QED BY <1>2, <1>3

\* Every request keeps the types.
LEMMA RequestTypeInv ==
  ASSUME NEW c \in Clients, TypeInv, Request(c)
  PROVE  TypeInv'
  <1> USE DEF TypeInv, RefInv, RunRef, CallRef
  <1>1. CASE Generate(c)
    <2>1. PICK o \in Fresh, b \in Backends :
            /\ mem' = o /\ Store(o, Blank) /\ backend' = b
            /\ calls' = [calls EXCEPT ![c] =
                 [NoCall EXCEPT !.pc = "inserting", !.obj = o, !.row = NewRow(b)]]
      BY <1>1 DEF Generate
    <2> DEFINE call == [NoCall EXCEPT !.pc = "inserting", !.obj = o, !.row = NewRow(b)]
    <2>2. NewRow(b) \in Row
      BY DEF NewRow, Row
    <2>3. call \in CallRecord /\ call.obj = o /\ call.row = NewRow(b)
      BY <2>2 DEF NoCall, CallRecord, CallPc, FileSets, Fresh
    <2>4. heap' \in [Objects -> State]
      BY <2>1, StoreLemma, RecordTypes DEF TypeOK, Fresh
    <2> HIDE DEF call
    <2>5. calls' \in [Clients -> CallRecord] /\ \A d \in Clients : CallRef(d)'
      BY <2>1, <2>2, <2>3 DEF TypeOK, call, Fresh
    <2> QED BY <1>1, <2>1, <2>4, <2>5 DEF Generate, TypeOK, Fresh, memory, database
  <1>2. CASE ApprovePlan(c)
    <2>1. mem \in Objects /\ "running" \in Status /\ "build" \in RunKind
      BY <1>2 DEF ApprovePlan, TypeOK, Status, RunKind
    <2>2. heap' \in [Objects -> State]
      BY <1>2, <2>1, SetStatusLemma DEF ApprovePlan, TypeOK
    <2> QED BY <1>2, <2>1, <2>2, SpawnLemma DEF ApprovePlan, TypeOK, database
  <1>3. ASSUME NEW k \in BOOLEAN, Iterate(c, k)
        PROVE  TypeInv'
    <2>1. mem \in Objects
      BY <1>3 DEF Iterate, TypeOK
    <2>2. CASE Remote
      <3>1. Suspend(c, "stopping", mem) /\ UNCHANGED <<heap, runs, past>>
        BY <1>3, <2>2 DEF Iterate
      <3>2. "stopping" \in CallPc
        BY DEF CallPc
      <3> QED BY <1>3, <2>1, <3>1, <3>2, SuspendLemma DEF Iterate, TypeOK, database
    <2>3. CASE ~Remote
      <3>1. Launch(c, mem, k)
        BY <1>3, <2>3 DEF Iterate
      <3> QED BY <1>3, <2>1, <3>1, LaunchLemma DEF Iterate, TypeOK, database
    <2> QED BY <2>2, <2>3
  <1>4. CASE Chat(c)
    <2>1. "asking" \in CallPc
      BY DEF CallPc
    <2> QED BY <1>4, <2>1, SuspendLemma DEF Chat, TypeOK, memory, database
  <1>5. ASSUME NEW f \in Files, UpdateFiles(c, f)
        PROVE  TypeInv'
    BY <1>5, SetFilesLemma, RecordLemma DEF UpdateFiles, TypeOK, FileSets, database
  <1>6. ASSUME NEW f \in versions, Checkout(c, f)
        PROVE  TypeInv'
    <2> DEFINE call == [NoCall EXCEPT !.pc = "applying", !.files = f]
    <2>1. f \in FileSets
      BY DEF TypeOK
    <2>2. call \in CallRecord /\ call.pc = "applying"
      BY <2>1 DEF NoCall, CallRecord, CallPc
    <2>3. calls' = [calls EXCEPT ![c] = call]
      BY <1>6 DEF Checkout
    <2> HIDE DEF call
    <2>4. calls' \in [Clients -> CallRecord] /\ \A d \in Clients : CallRef(d)'
      BY <2>2, <2>3 DEF TypeOK
    <2> QED BY <1>6, <2>1, <2>4, RecordLemma DEF Checkout, TypeOK, memory
  <1>7. ASSUME NEW f \in history, CheckoutInMemory(c, f)
        PROVE  TypeInv'
    BY <1>7, SetFilesLemma, RecordLemma DEF CheckoutInMemory, TypeOK, FileSets, database
  <1>8. CASE Restore(c)
    <2> DEFINE call == [NoCall EXCEPT !.pc = "loading", !.row = row]
    <2>1. row \in Row
      BY <1>8 DEF Restore, TypeOK
    <2>2. call \in CallRecord /\ call.pc = "loading" /\ call.row = row
      BY <2>1 DEF NoCall, CallRecord, CallPc, FileSets
    <2>3. calls' = [calls EXCEPT ![c] = call]
      BY <1>8 DEF Restore
    <2> HIDE DEF call
    <2>4. calls' \in [Clients -> CallRecord] /\ \A d \in Clients : CallRef(d)'
      BY <2>1, <2>2, <2>3 DEF TypeOK
    <2> QED BY <1>8, <2>4 DEF Restore, TypeOK, memory, database
  <1>9. CASE Delete(c)
    <2>1. "popping" \in CallPc
      BY DEF CallPc
    <2> QED BY <1>9, <2>1, SuspendLemma DEF Delete, TypeOK, FileSets, memory
  <1> QED BY <1>1, <1>2, <1>3, <1>4, <1>5, <1>6, <1>7, <1>8, <1>9 DEF Request

\* Every handler that resumes keeps the types.
LEMMA ResumeTypeInv ==
  ASSUME NEW c \in Clients, TypeInv, Resume(c)
  PROVE  TypeInv'
  <1> USE DEF TypeInv, RefInv, RunRef, CallRef
  <1>1. CASE GenerateInserted(c)
    <2>1. calls[c].obj \in Objects /\ calls[c].row \in Row /\ "plan" \in RunKind
      BY <1>1 DEF GenerateInserted, RunKind
    <2>2. row' \in Row \cup {None} /\ \E e : Spawn("plan", calls[c].obj, e)
      BY <1>1, <2>1 DEF GenerateInserted, TypeOK
    <2> QED BY <1>1, <2>1, <2>2, SpawnLemma, AnswerLemma
            DEF GenerateInserted, TypeOK, memory
  <1>2. ASSUME NEW k \in BOOLEAN, IterateStopped(c, k)
        PROVE  TypeInv'
    <2>1. calls[c].obj \in Objects
      BY <1>2 DEF IterateStopped
    <2> QED BY <1>2, <2>1, LaunchLemma DEF IterateStopped, TypeOK, database
  <1>3. CASE IterateKeyRead(c)
    <2>1. calls[c].obj \in Objects /\ "iterate" \in RunKind
      BY <1>3 DEF IterateKeyRead, RunKind
    <2> QED BY <1>3, <2>1, SpawnLemma, AnswerLemma
            DEF IterateKeyRead, TypeOK, memory, database
  <1>4. CASE ChatReplied(c)
    BY <1>4, AnswerLemma DEF ChatReplied, TypeOK, memory, database
  <1>5. CASE ChatIterates(c)
    <2>1. calls[c].obj \in Objects
      BY <1>5 DEF ChatIterates
    <2>2. CASE Remote
      <3>1. /\ Suspend(c, "chatStopping", calls[c].obj)
            /\ UNCHANGED <<heap, runs, past>>
            /\ "chatStopping" \in CallPc
        BY <1>5, <2>2 DEF ChatIterates, CallPc
      <3> QED BY <1>5, <2>1, <3>1, SuspendLemma DEF ChatIterates, TypeOK, database
    <2>3. CASE ~Remote
      <3>1. PICK k \in BOOLEAN : Launch(c, calls[c].obj, k)
        BY <1>5, <2>3, Zenon DEF ChatIterates
      <3> QED BY <1>5, <2>1, <3>1, LaunchLemma DEF ChatIterates, TypeOK, database
    <2> QED BY <2>2, <2>3
  <1>6. CASE ChatStopped(c)
    <2>1. calls[c].obj \in Objects
      BY <1>6 DEF ChatStopped
    <2>2. PICK k \in BOOLEAN : Launch(c, calls[c].obj, k)
      BY <1>6, Zenon DEF ChatStopped
    <2> QED BY <1>6, <2>1, <2>2, LaunchLemma DEF ChatStopped, TypeOK, database
  <1>7. CASE CheckoutApplied(c)
    <2>1. calls[c].files \in FileSets
      BY DEF TypeOK, CallRecord
    <2>2. heap' \in [Objects -> State] /\ past' \subseteq Events
      BY <1>7, <2>1, SetFilesLemma DEF CheckoutApplied, TypeOK
    <2> QED BY <1>7, <2>2, AnswerLemma DEF CheckoutApplied, TypeOK, database
  <1>8. CASE RestoreLoaded(c)
    <2>1. current \in FileSets
      BY DEF TypeOK
    <2>2. [calls[c] EXCEPT !.pc = "installing", !.files = current] \in CallRecord
      BY <2>1 DEF TypeOK, CallRecord, CallPc
    <2>3. /\ calls' \in [Clients -> CallRecord]
          /\ calls'[c].row = calls[c].row /\ calls'[c].pc = "installing"
          /\ \A d \in Clients : d # c => calls'[d] = calls[d]
      BY <1>8, <2>2 DEF RestoreLoaded, TypeOK, CallRecord
    <2> QED BY <1>8, <2>3 DEF RestoreLoaded, TypeOK, memory, database
  <1>9. CASE RestoreInstalled(c)
    <2>1. calls[c].row \in Row /\ calls[c].files \in FileSets
      BY <1>9 DEF RestoreInstalled, TypeOK, CallRecord
    <2> DEFINE s == [status |-> "done", plan |-> calls[c].row.plan, files |-> calls[c].files]
    <2>2. s \in State /\ calls[c].row.backend \in Backends
      BY <2>1 DEF State, Status, Row
    <2>3. PICK o \in Objects : mem' = o /\ Store(o, s)
      BY <1>9 DEF RestoreInstalled, Fresh
    <2> HIDE DEF s
    <2>4. heap' \in [Objects -> State]
      BY <2>2, <2>3, StoreLemma DEF TypeOK
    <2> QED BY <1>9, <2>2, <2>3, <2>4, AnswerLemma DEF RestoreInstalled, TypeOK, database
  <1>10. CASE DeletePopped(c)
    BY <1>10, AnswerLemma, RecordLemma DEF DeletePopped, TypeOK, database
  <1> QED BY <1>1, <1>2, <1>3, <1>4, <1>5, <1>6, <1>7, <1>8, <1>9, <1>10 DEF Resume

\* What a returned pipeline leaves in memory.
LEMMA RunReturnedLemma ==
  ASSUME NEW r \in Runs, NEW f \in Files, TypeInv, RunReturned(r, f)
  PROVE  /\ mem' \in Objects
         /\ heap' \in [Objects -> State]
         /\ heap'[mem'].status = "done"
         /\ \A x \in Live \cap Objects : x # mem' => heap'[x] = heap[x]
         /\ mem' = runs[r].obj \/ mem' \in Fresh
         /\ runs' \in [Runs -> RunRecord]
         /\ runs'[r].pc = "persisting" /\ runs'[r].obj = mem'
         /\ \A q \in Runs : q # r => runs'[q] = runs[q]
         /\ history' \subseteq Files /\ past' \subseteq Events
         /\ UNCHANGED <<backend, row, versions, current, calls, known>>
  <1>1. runs[r].obj \in Objects
    BY DEF RunReturned, Working, TypeInv, RefInv, RunRef
  <1> DEFINE s == [status |-> "done", plan |-> heap[runs[r].obj].plan, files |-> f]
  <1>2. s \in State /\ s.status = "done"
    BY <1>1 DEF State, Status, FileSets, TypeInv, TypeOK
  <1>3. PICK o \in Objects :
          /\ o = runs[r].obj \/ o \in Fresh
          /\ mem' = o /\ Store(o, s)
          /\ runs' = [runs EXCEPT ![r].pc = "persisting", ![r].obj = o]
    BY <1>1 DEF RunReturned, Fresh
  <1> HIDE DEF s
  <1>4. [runs[r] EXCEPT !.pc = "persisting", !.obj = o] \in RunRecord
    BY DEF TypeInv, TypeOK, RunRecord, RunPc
  <1>5. /\ runs' \in [Runs -> RunRecord]
        /\ runs'[r].pc = "persisting" /\ runs'[r].obj = o
        /\ \A q \in Runs : q # r => runs'[q] = runs[q]
    BY <1>3, <1>4 DEF TypeInv, TypeOK, RunRecord
  <1> QED BY <1>2, <1>3, <1>5, StoreLemma DEF RunReturned, TypeInv, TypeOK, database

\* Every step of a task keeps the types.
LEMMA AdvanceTypeInv ==
  ASSUME NEW r \in Runs, TypeInv, Advance(r)
  PROVE  TypeInv'
  <1> USE DEF TypeInv, RefInv, RunRef, CallRef
  <1>1. CASE PlanReady(r)
    <2>1. heap' \in [Objects -> State]
      BY <1>1 DEF PlanReady, TypeOK, State, Status
    <2> QED BY <1>1, <2>1, FinishLemma DEF PlanReady, TypeOK, database
  <1>2. CASE RunFailed(r)
    <2>1. mem \in Objects /\ "error" \in Status
      BY <1>2 DEF RunFailed, TypeOK, Status
    <2> QED BY <1>2, <2>1, FinishLemma, SetStatusLemma DEF RunFailed, TypeOK, database
  <1>3. CASE RunLost(r)
    BY <1>3, FinishLemma DEF RunLost, TypeOK, memory, database
  <1>4. ASSUME NEW f \in Files, RunReturned(r, f)
        PROVE  TypeInv'
    BY <1>4, RunReturnedLemma DEF TypeOK
  <1>5. CASE Prepare(r)
    <2>1. runs[r].obj \in Objects
      BY <1>5 DEF Prepare
    <2> DEFINE snap == heap[runs[r].obj].files
    <2>2. heap[runs[r].obj].plan \in BOOLEAN /\ snap \in FileSets
      BY <2>1 DEF TypeOK, State
    <2>3. row' \in Row \cup {None}
      BY <1>5, <2>2 DEF Prepare, TypeOK, Row
    <2>4. [runs[r] EXCEPT !.pc = "committing", !.snap = snap] \in RunRecord
      <3> HIDE DEF snap
      <3> QED BY <2>2 DEF TypeOK, RunRecord, RunPc
    <2>5. /\ runs' \in [Runs -> RunRecord] /\ runs'[r].obj = runs[r].obj
          /\ \A q \in Runs : q # r => runs'[q] = runs[q]
      BY <1>5, <2>4 DEF Prepare, TypeOK, RunRecord
    <2> QED BY <1>5, <2>1, <2>3, <2>5 DEF Prepare, TypeOK, memory
  <1>6. CASE Commit(r)
    <2>1. runs[r].obj \in Objects /\ runs[r].snap \in FileSets
      BY <1>6 DEF Commit, TypeOK, RunRecord
    <2> QED BY <1>6, <2>1, TellingLemma DEF Commit, TypeOK, memory
  <1>7. CASE PersistFailed(r)
    <2>1. runs[r].obj \in Objects
      BY <1>7 DEF PersistFailed
    <2> QED BY <1>7, <2>1, TellingLemma, RecordLemma DEF PersistFailed, TypeOK, memory, database
  <1>8. CASE Tell(r)
    BY <1>8, FinishLemma DEF Tell, TypeOK, memory, database
  <1> QED BY <1>1, <1>2, <1>3, <1>4, <1>5, <1>6, <1>7, <1>8 DEF Advance

\* Every step keeps the types.
LEMMA NextTypeInv == TypeInv /\ [Next]_vars => TypeInv'
  <1> SUFFICES ASSUME TypeInv, [Next]_vars
               PROVE  TypeInv'
    OBVIOUS
  <1>1. ASSUME NEW c \in Clients, Request(c) PROVE TypeInv'
    BY <1>1, RequestTypeInv
  <1>2. ASSUME NEW c \in Clients, Resume(c) PROVE TypeInv'
    BY <1>2, ResumeTypeInv
  <1>3. ASSUME NEW r \in Runs, Advance(r) PROVE TypeInv'
    BY <1>3, AdvanceTypeInv
  <1>4. ASSUME NEW r \in Runs, NEW f \in Files, CrewWritesFiles(r, f) PROVE TypeInv'
    BY <1>4, SetFilesLemma
       DEF CrewWritesFiles, TypeInv, TypeOK, RefInv, RunRef, CallRef, FileSets, database
  <1>5. CASE Restart
    <2>1. NoRun.pc = "idle" /\ NoCall.pc = "idle"
      BY DEF NoRun, NoCall
    <2> QED BY <1>5, <2>1, RecordTypes
            DEF Restart, TypeInv, TypeOK, RefInv, RunRef, CallRef, database
  <1>6. CASE UNCHANGED vars
    BY <1>6 DEF vars, TypeInv, TypeOK, RefInv, RunRef, CallRef
  <1> QED BY <1>1, <1>2, <1>3, <1>4, <1>5, <1>6 DEF Next

\* The dictionaries, rows, tasks and handlers keep their shape.
THEOREM TypeCorrect == Spec => []TypeOK
  <1>1. Spec => []TypeInv
    BY InitTypeInv, NextTypeInv, PTL DEF Spec
  <1>2. TypeInv => TypeOK
    BY DEF TypeInv
  <1> QED BY <1>1, <1>2, PTL

---------------------------------------------------------------------------
(* One client at a time.  A handler that still holds the dict is the only  *)
(* one under way, so what it read before it was suspended still holds:     *)
(* nobody else marked the session running, or put another dict in place.   *)

Serial == \A c, d \in Clients : c = d

NobodyWorks == \A r \in Runs : ~Working(r)

\* A task works on a session only while the row it may have been deleted
\* from memory is gone as well, and only after POST /generate answered.
WorkingInv ==
  \A r \in Runs : Working(r) => known /\ (mem = None => row = None)

HandlerInv(c) ==
  /\ calls[c].pc \notin {"idle", "inserting"} => known
  /\ calls[c].pc \in {"inserting", "keys"} =>
       NobodyWorks /\ calls[c].obj = mem /\ heap[mem].status = "running"
  /\ calls[c].pc \in {"stopping", "chatStopping"} =>
       NobodyWorks /\ calls[c].obj = mem
  /\ calls[c].pc = "asking" =>
       /\ mem # None
       /\ mem = calls[c].obj \/ heap[calls[c].obj].status # "done"
       /\ \A r \in Runs : Working(r) =>
             runs[r].obj = calls[c].obj /\ heap[calls[c].obj].status = "running"
  /\ calls[c].pc \in {"loading", "installing"} => NobodyWorks
  /\ calls[c].pc = "popping" => row = None

SerialInv ==
  /\ OneRun
  /\ RunOwnsSession
  /\ WorkingInv
  /\ \A c \in Clients : HandlerInv(c)

\* The strengthening holds when the server starts.
LEMMA InitSerialInv == Init => SerialInv
  <1>1. NoRun.pc = "idle" /\ NoCall.pc = "idle"
    BY DEF NoRun, NoCall
  <1> QED BY <1>1 DEF Init, SerialInv, OneRun, RunOwnsSession, WorkingInv,
                      HandlerInv, Working

CallStill(c) == \/ calls'[c] = calls[c]
                \/ calls'[c].pc = "idle"
                \/ calls'[c].pc = "applying" /\ known

\* A step that moves no task into or out of its work and no status.
LEMMA SerialStill ==
  ASSUME TypeInv, SerialInv, mem' = mem, known' = known,
         row = None => row' = None,
         \A r \in Runs : Working(r)' <=> Working(r),
         \A r \in Runs : Working(r) => runs'[r].obj = runs[r].obj,
         \A x \in Objects : heap'[x].status = heap[x].status,
         \A c \in Clients : CallStill(c)
  PROVE  SerialInv'
  <1>1. OneRun' /\ RunOwnsSession' /\ WorkingInv'
    BY DEF TypeInv, TypeOK, SerialInv, OneRun, RunOwnsSession, WorkingInv
  <1> SUFFICES ASSUME NEW c \in Clients PROVE HandlerInv(c)'
    BY <1>1 DEF SerialInv
  <1>2. CASE calls'[c] = calls[c]
    BY <1>2 DEF TypeInv, TypeOK, RefInv, CallRef, SerialInv, HandlerInv, NobodyWorks
  <1>3. CASE calls'[c].pc = "idle"
    BY <1>3 DEF HandlerInv
  <1>4. CASE calls'[c].pc = "applying" /\ known
    BY <1>4 DEF HandlerInv
  <1> QED BY <1>2, <1>3, <1>4 DEF CallStill

\* A task starts on the session nobody works on.
LEMMA SerialSpawn ==
  ASSUME TypeInv, NobodyWorks, mem \in Objects, mem' = mem, known',
         heap'[mem].status = "running",
         \E r \in Runs : /\ runs'[r].obj = mem
                         /\ \A q \in Runs : q # r => runs'[q] = runs[q],
         \A c \in Clients : calls'[c].pc = "idle"
  PROVE  SerialInv'
  BY ConstantsAssumption
     DEF NobodyWorks, SerialInv, OneRun, RunOwnsSession, WorkingInv, HandlerInv, Working

\* A task ends: the dict it worked for, if the session is still in memory,
\* is the session's.
LEMMA SerialEnd ==
  ASSUME TypeInv, SerialInv, NEW r \in Runs, Working(r), ~Working(r)',
         \A q \in Runs : q # r => runs'[q] = runs[q],
         calls' = calls, row' = row, known' = known,
         \A c \in Clients : calls[c].pc = "asking" =>
            mem' # None /\ (mem' = calls[c].obj \/ heap'[calls[c].obj].status # "done")
  PROVE  SerialInv'
  <1>1. NobodyWorks'
    BY DEF SerialInv, OneRun, NobodyWorks, Working
  <1>2. ASSUME NEW c \in Clients PROVE HandlerInv(c)'
    BY <1>1 DEF SerialInv, HandlerInv, NobodyWorks
  <1> QED BY <1>1, <1>2 DEF NobodyWorks, SerialInv, OneRun, RunOwnsSession, WorkingInv

\* "running" is set by a handler for the session nobody works on.
LEMMA SerialLaunch ==
  ASSUME Serial, TypeInv, SerialInv, NEW c \in Clients, NEW k \in BOOLEAN,
         Launch(c, mem, k), NobodyWorks, known, mem \in Objects,
         mem' = mem, known' = known
  PROVE  SerialInv'
  <1>1. heap'[mem].status = "running"
    BY LaunchLemma
  <1>2. CASE calls'[c].pc = "keys" /\ calls'[c].obj = mem /\ runs' = runs
    BY <1>1, <1>2 DEF Serial, NobodyWorks, Working, SerialInv, OneRun,
                      RunOwnsSession, WorkingInv, HandlerInv
  <1>3. CASE /\ calls'[c].pc = "idle"
             /\ \E r \in Runs :
                  /\ Idle(r)
                  /\ runs'[r].pc = "working" /\ runs'[r].obj = mem
                  /\ \A q \in Runs : q # r => runs'[q] = runs[q]
    BY <1>1, <1>3, SerialSpawn DEF Serial
  <1> QED BY <1>2, <1>3, LaunchLemma

\* A request keeps the strengthening when no other is in flight.
LEMMA RequestSerialInv ==
  ASSUME Serial, TypeInv, SerialInv, NEW c \in Clients, Request(c)
  PROVE  SerialInv'
  <1> USE DEF Working
  <1>1. CASE Generate(c)
    <2>1. PICK o \in Fresh, b \in Backends :
            /\ mem' = o /\ Store(o, Blank)
            /\ calls' = [calls EXCEPT ![c] =
                 [NoCall EXCEPT !.pc = "inserting", !.obj = o, !.row = NewRow(b)]]
      BY <1>1 DEF Generate
    <2>2. NobodyWorks
      BY <1>1 DEF Generate, NobodyWorks, SerialInv, WorkingInv
    <2>3. heap'[o].status = "running" /\ o \in Objects
      BY <2>1, StoreLemma, RecordTypes DEF Fresh, TypeInv, TypeOK, Blank
    <2>4. calls'[c].pc = "inserting" /\ calls'[c].obj = o
      BY <2>1 DEF TypeInv, TypeOK, NoCall
    <2> QED BY <1>1, <2>1, <2>2, <2>3, <2>4
            DEF Generate, Serial, NobodyWorks, SerialInv, OneRun, RunOwnsSession,
                WorkingInv, HandlerInv
  <1>2. CASE ApprovePlan(c)
    <2>1. mem \in Objects /\ NobodyWorks /\ "running" \in Status /\ "build" \in RunKind
      BY <1>2 DEF ApprovePlan, TypeInv, TypeOK, NobodyWorks, SerialInv, RunOwnsSession,
                  Status, RunKind
    <2>2. heap'[mem].status = "running"
      BY <1>2, <2>1, SetStatusLemma DEF ApprovePlan, TypeInv, TypeOK
    <2>3. calls[c].pc = "idle"
      BY <1>2 DEF ApprovePlan, Ready, NoCall
    <2> QED BY <1>2, <2>1, <2>2, <2>3, SerialSpawn, SpawnLemma
            DEF ApprovePlan, Ready, Serial, TypeInv
  <1>3. ASSUME NEW k \in BOOLEAN, Iterate(c, k) PROVE SerialInv'
    <2>1. mem \in Objects /\ NobodyWorks
      BY <1>3 DEF Iterate, MayIterate, TypeInv, TypeOK, NobodyWorks, SerialInv,
                  RunOwnsSession
    <2>2. CASE Remote
      <3>1. Suspend(c, "stopping", mem) /\ UNCHANGED <<heap, runs, past>>
        BY <1>3, <2>2 DEF Iterate
      <3>2. calls'[c].pc = "stopping" /\ calls'[c].obj = mem
        BY <2>1, <3>1, SuspendLemma DEF CallPc, TypeInv, TypeOK
      <3> QED BY <1>3, <2>1, <3>1, <3>2
              DEF Iterate, Ready, database, Serial, NobodyWorks, SerialInv, OneRun,
                  RunOwnsSession, WorkingInv, HandlerInv
    <2>3. CASE ~Remote
      BY <1>3, <2>1, <2>3, SerialLaunch DEF Iterate, Ready
    <2> QED BY <2>2, <2>3
  <1>4. CASE Chat(c)
    <2>1. mem \in Objects /\ "asking" \in CallPc
      BY <1>4 DEF Chat, TypeInv, TypeOK, CallPc
    <2>2. calls'[c].pc = "asking" /\ calls'[c].obj = mem
      BY <1>4, <2>1, SuspendLemma DEF Chat, TypeInv, TypeOK
    <2> QED BY <1>4, <2>2, ConstantsAssumption
            DEF Chat, Ready, memory, database, Serial, SerialInv, OneRun,
                RunOwnsSession, WorkingInv, HandlerInv, TypeInv, TypeOK
  <1>5. ASSUME NEW f \in Files, UpdateFiles(c, f) PROVE SerialInv'
    BY <1>5, SetFilesLemma, SerialStill
       DEF CallStill, UpdateFiles, TypeInv, TypeOK, FileSets, database
  <1>6. ASSUME NEW f \in versions, Checkout(c, f) PROVE SerialInv'
    <2>1. calls'[c].pc = "applying" /\ \A d \in Clients : d # c => calls'[d] = calls[d]
      BY <1>6 DEF Checkout, TypeInv, TypeOK, NoCall
    <2> QED BY <1>6, <2>1, SerialStill DEF CallStill, Checkout, Ready, memory
  <1>7. ASSUME NEW f \in history, CheckoutInMemory(c, f) PROVE SerialInv'
    BY <1>7, SetFilesLemma, SerialStill
       DEF CallStill, CheckoutInMemory, TypeInv, TypeOK, FileSets, database
  <1>8. CASE Restore(c)
    <2>1. NobodyWorks
      BY <1>8 DEF Restore, NobodyWorks, SerialInv, WorkingInv
    <2>2. calls'[c].pc = "loading"
      BY <1>8 DEF Restore, TypeInv, TypeOK, NoCall
    <2> QED BY <1>8, <2>1, <2>2
            DEF Restore, Ready, memory, database, Serial, NobodyWorks, SerialInv, OneRun,
                RunOwnsSession, WorkingInv, HandlerInv
  <1>9. CASE Delete(c)
    <2>1. calls'[c].pc = "popping"
      BY <1>9, SuspendLemma DEF Delete, CallPc, TypeInv, TypeOK
    <2> QED BY <1>9, <2>1
            DEF Delete, Ready, memory, Serial, SerialInv, OneRun, RunOwnsSession,
                WorkingInv, HandlerInv
  <1> QED BY <1>1, <1>2, <1>3, <1>4, <1>5, <1>6, <1>7, <1>8, <1>9 DEF Request

\* A handler that resumes keeps it.
LEMMA ResumeSerialInv ==
  ASSUME Serial, TypeInv, SerialInv, NEW c \in Clients, Resume(c)
  PROVE  SerialInv'
  <1> USE DEF Working
  <1>1. CASE GenerateInserted(c)
    <2>1. /\ mem \in Objects /\ NobodyWorks
          /\ calls[c].obj = mem /\ heap[mem].status = "running"
          /\ "plan" \in RunKind
      BY <1>1 DEF GenerateInserted, TypeInv, RefInv, CallRef, SerialInv, HandlerInv, RunKind
    <2>2. \E e : Spawn("plan", mem, e)
      BY <1>1, <2>1 DEF GenerateInserted
    <2>3. calls'[c].pc = "idle"
      BY <1>1, AnswerLemma DEF GenerateInserted, TypeInv, TypeOK
    <2> QED BY <1>1, <2>1, <2>2, <2>3, SerialSpawn, SpawnLemma
            DEF GenerateInserted, memory, Serial, TypeInv
  <1>2. ASSUME NEW k \in BOOLEAN, IterateStopped(c, k) PROVE SerialInv'
    <2>1. NobodyWorks /\ known /\ calls[c].obj = mem /\ mem \in Objects
      BY <1>2 DEF IterateStopped, SerialInv, HandlerInv, TypeInv, RefInv, CallRef
    <2> QED BY <1>2, <2>1, SerialLaunch DEF IterateStopped
  <1>3. CASE IterateKeyRead(c)
    <2>1. /\ mem \in Objects /\ NobodyWorks
          /\ calls[c].obj = mem /\ heap[mem].status = "running"
          /\ "iterate" \in RunKind /\ known
      BY <1>3 DEF IterateKeyRead, TypeInv, RefInv, CallRef, SerialInv, HandlerInv, RunKind
    <2>2. calls'[c].pc = "idle"
      BY <1>3, AnswerLemma DEF IterateKeyRead, TypeInv, TypeOK
    <2> QED BY <1>3, <2>1, <2>2, SerialSpawn, SpawnLemma
            DEF IterateKeyRead, memory, Serial, TypeInv
  <1>4. CASE ChatReplied(c)
    BY <1>4, AnswerLemma, SerialStill DEF CallStill, ChatReplied, TypeInv, TypeOK, memory, database
  <1>5. CASE ChatIterates(c)
    <2>1. mem = calls[c].obj /\ NobodyWorks /\ known /\ mem \in Objects
      BY <1>5 DEF ChatIterates, SerialInv, HandlerInv, NobodyWorks, TypeInv, RefInv, CallRef
    <2>2. CASE Remote
      <3>1. Suspend(c, "chatStopping", mem) /\ UNCHANGED <<heap, runs, past>>
        BY <1>5, <2>1, <2>2 DEF ChatIterates
      <3>2. calls'[c].pc = "chatStopping" /\ calls'[c].obj = mem
        BY <2>1, <3>1, SuspendLemma DEF CallPc, TypeInv, TypeOK
      <3> QED BY <1>5, <2>1, <3>1, <3>2
              DEF ChatIterates, database, Serial, NobodyWorks, SerialInv, OneRun,
                  RunOwnsSession, WorkingInv, HandlerInv
    <2>3. CASE ~Remote
      <3>1. PICK k \in BOOLEAN : Launch(c, calls[c].obj, k)
        BY <1>5, <2>3, Zenon DEF ChatIterates
      <3> QED BY <1>5, <2>1, <3>1, SerialLaunch DEF ChatIterates
    <2> QED BY <2>2, <2>3
  <1>6. CASE ChatStopped(c)
    <2>1. NobodyWorks /\ known /\ calls[c].obj = mem /\ mem \in Objects
      BY <1>6 DEF ChatStopped, SerialInv, HandlerInv, TypeInv, RefInv, CallRef
    <2>2. PICK k \in BOOLEAN : Launch(c, calls[c].obj, k)
      BY <1>6, Zenon DEF ChatStopped
    <2> QED BY <1>6, <2>1, <2>2, SerialLaunch DEF ChatStopped
  <1>7. CASE CheckoutApplied(c)
    <2>1. calls[c].files \in FileSets
      BY DEF TypeInv, TypeOK, CallRecord
    <2>2. \A x \in Objects : heap'[x].status = heap[x].status
      BY <1>7, <2>1, SetFilesLemma DEF CheckoutApplied, TypeInv, TypeOK
    <2> QED BY <1>7, <2>2, AnswerLemma, SerialStill
            DEF CallStill, CheckoutApplied, TypeInv, TypeOK, database
  <1>8. CASE RestoreLoaded(c)
    <2>1. NobodyWorks /\ calls'[c].pc = "installing"
      BY <1>8 DEF RestoreLoaded, SerialInv, HandlerInv, TypeInv, TypeOK, CallRecord
    <2> QED BY <1>8, <2>1
            DEF RestoreLoaded, memory, database, Serial, NobodyWorks, SerialInv,
                OneRun, RunOwnsSession, WorkingInv, HandlerInv
  <1>9. CASE RestoreInstalled(c)
    <2>1. NobodyWorks
      BY <1>9 DEF RestoreInstalled, SerialInv, HandlerInv
    <2>2. calls'[c].pc = "idle"
      BY <1>9, AnswerLemma DEF RestoreInstalled, TypeInv, TypeOK
    <2> QED BY <1>9, <2>1, <2>2
            DEF RestoreInstalled, database, Serial, NobodyWorks, SerialInv, OneRun,
                RunOwnsSession, WorkingInv, HandlerInv
  <1>10. CASE DeletePopped(c)
    <2>1. calls'[c].pc = "idle" /\ row = None
      BY <1>10, AnswerLemma DEF DeletePopped, TypeInv, TypeOK, SerialInv, HandlerInv
    <2> QED BY <1>10, <2>1
            DEF DeletePopped, database, Serial, SerialInv, OneRun, RunOwnsSession,
                WorkingInv, HandlerInv
  <1> QED BY <1>1, <1>2, <1>3, <1>4, <1>5, <1>6, <1>7, <1>8, <1>9, <1>10 DEF Resume

\* A step of a task keeps it.
LEMMA AdvanceSerialInv ==
  ASSUME TypeInv, SerialInv, NEW r \in Runs, Advance(r)
  PROVE  SerialInv'
  <1> USE DEF Working
  <1>1. CASE PlanReady(r)
    BY <1>1, FinishLemma, SerialEnd
       DEF PlanReady, database, TypeInv, SerialInv, RunOwnsSession, HandlerInv
  <1>2. CASE RunFailed(r)
    BY <1>2, FinishLemma, SerialEnd
       DEF RunFailed, database, TypeInv, SerialInv, RunOwnsSession, HandlerInv
  <1>3. CASE RunLost(r)
    BY <1>3, FinishLemma, SerialEnd
       DEF RunLost, memory, database, TypeInv, SerialInv, HandlerInv
  <1>4. ASSUME NEW f \in Files, RunReturned(r, f) PROVE SerialInv'
    <2>1. ASSUME NEW c \in Clients, calls[c].pc = "asking"
          PROVE  mem' = calls[c].obj \/ heap'[calls[c].obj].status # "done"
      <3>1. calls[c].obj \in Live \cap Objects
        BY <2>1 DEF Live, TypeInv, RefInv, CallRef
      <3>2. heap[calls[c].obj].status = "running"
        BY <1>4, <2>1 DEF RunReturned, SerialInv, HandlerInv
      <3> QED BY <1>4, <3>1, <3>2, RunReturnedLemma
    <2>2. Working(r) /\ ~Working(r)' /\ mem' # None
      BY <1>4, RunReturnedLemma, ConstantsAssumption DEF RunReturned
    <2>3. UNCHANGED <<calls, row, known>> /\ \A q \in Runs : q # r => runs'[q] = runs[q]
      BY <1>4, RunReturnedLemma
    <2> QED BY <2>1, <2>2, <2>3, SerialEnd
  <1>5. CASE Prepare(r)
    <2>1. /\ runs'[r].pc = "committing" /\ runs'[r].obj = runs[r].obj
          /\ \A q \in Runs : q # r => runs'[q] = runs[q]
      BY <1>5 DEF Prepare, TypeInv, TypeOK, RunRecord
    <2>2. row = None => row' = None
      BY <1>5 DEF Prepare
    <2> QED BY <1>5, <2>1, <2>2, SerialStill DEF CallStill, Prepare, memory
  <1>6. CASE Commit(r)
    BY <1>6, TellingLemma, SerialStill DEF CallStill, Commit, memory, TypeInv
  <1>7. CASE PersistFailed(r)
    BY <1>7, TellingLemma, SerialStill DEF CallStill, PersistFailed, memory, database, TypeInv
  <1>8. CASE Tell(r)
    BY <1>8, FinishLemma, SerialStill DEF CallStill, Tell, memory, database, TypeInv
  <1> QED BY <1>1, <1>2, <1>3, <1>4, <1>5, <1>6, <1>7, <1>8 DEF Advance

\* With one request in flight at a time every step keeps it.
LEMMA NextSerialInv ==
  ASSUME Serial, TypeInv, SerialInv, [Next]_vars
  PROVE  SerialInv'
  <1>1. ASSUME NEW r \in Runs, NEW f \in Files, CrewWritesFiles(r, f)
        PROVE  SerialInv'
    BY <1>1, SetFilesLemma, SerialStill
       DEF CallStill, CrewWritesFiles, TypeInv, TypeOK, FileSets, database, Working
  <1>2. CASE Restart
    <2>1. NoRun.pc = "idle" /\ NoCall.pc = "idle"
      BY DEF NoRun, NoCall
    <2> QED BY <1>2, <2>1 DEF Restart, SerialInv, OneRun, RunOwnsSession,
                              WorkingInv, HandlerInv, Working
  <1>3. CASE UNCHANGED vars
    BY <1>3, SerialStill DEF CallStill, vars, Working
  <1> QED BY <1>1, <1>2, <1>3, RequestSerialInv, ResumeSerialInv, AdvanceSerialInv
          DEF Next

\* With one request in flight at a time no second pipeline is ever started
\* on a session, whatever is deleted, restored, iterated or chatted about.
THEOREM OneRunAtATime == Serial => (Spec => []OneRun)
  <1> SUFFICES ASSUME Serial PROVE Spec => []OneRun
    OBVIOUS
  <1>1. Spec => [](TypeInv /\ SerialInv)
    BY InitTypeInv, NextTypeInv, InitSerialInv, NextSerialInv, PTL DEF Spec
  <1>2. SerialInv => OneRun
    BY DEF SerialInv
  <1> QED BY <1>1, <1>2, PTL

\* And the dict a pipeline works for is the one every reader is shown, as
\* running, until the pipeline has returned.
THEOREM RunOwnsItsSession == Serial => (Spec => []RunOwnsSession)
  <1> SUFFICES ASSUME Serial PROVE Spec => []RunOwnsSession
    OBVIOUS
  <1>1. Spec => [](TypeInv /\ SerialInv)
    BY InitTypeInv, NextTypeInv, InitSerialInv, NextSerialInv, PTL DEF Spec
  <1>2. SerialInv => RunOwnsSession
    BY DEF SerialInv
  <1> QED BY <1>1, <1>2, PTL

---------------------------------------------------------------------------
(* However many clients race, a session is never left running for ever:    *)
(* whoever writes "running" into a dict has just created, or is about to   *)
(* create, a task for that dict.  NoWedge is inductive as it stands.       *)

Tended(o) == \/ \E r \in Runs : Working(r) /\ runs[r].obj = o
             \/ \E c \in Clients : calls[c].pc \in {"inserting", "keys"}
                                   /\ calls[c].obj = o

\* Nobody lets go of a dict, and the session's keeps its status.
LEMMA WedgeStill ==
  ASSUME NoWedge, mem' = mem,
         mem # None => heap'[mem].status = heap[mem].status,
         mem # None /\ Tended(mem) => Tended(mem)'
  PROVE  NoWedge'
  BY DEF NoWedge, Tended

\* An iteration being started has somebody who will end it.
LEMMA LaunchTends ==
  ASSUME TypeInv, NoWedge, NEW c \in Clients, NEW o \in Objects, NEW k \in BOOLEAN,
         calls[c].pc \notin {"inserting", "keys"}, Launch(c, o, k), mem' = mem
  PROVE  NoWedge'
  <1>1. Tended(o)'
    <2>1. CASE calls'[c].pc = "keys" /\ calls'[c].obj = o
      BY <2>1 DEF Tended
    <2>2. CASE \E r \in Runs : runs'[r].pc = "working" /\ runs'[r].obj = o
      BY <2>2 DEF Tended, Working
    <2> QED BY <2>1, <2>2, LaunchLemma
  <1>2. ASSUME mem # None, Tended(mem) PROVE Tended(mem)'
    BY <1>2, LaunchLemma DEF Tended, Working, Idle
  <1>3. CASE mem = o
    BY <1>1, <1>3 DEF NoWedge, Tended
  <1>4. CASE mem # o
    BY <1>2, <1>4, LaunchLemma, WedgeStill DEF TypeInv, TypeOK
  <1> QED BY <1>3, <1>4

\* A spawned task takes over from the handler that created it.
LEMMA SpawnTends ==
  ASSUME TypeInv, NoWedge, NEW c \in Clients, NEW kind \in RunKind,
         NEW o \in Objects, NEW e, Spawn(kind, o, e),
         calls[c].pc \in {"inserting", "keys"} => calls[c].obj = o,
         mem' = mem, mem # None /\ mem # o => heap'[mem] = heap[mem],
         \A d \in Clients : d # c => calls'[d] = calls[d]
  PROVE  NoWedge'
  <1>1. PICK r \in Runs :
           /\ Idle(r)
           /\ runs'[r].pc = "working" /\ runs'[r].obj = o
           /\ \A q \in Runs : q # r => runs'[q] = runs[q]
    BY SpawnLemma DEF TypeInv
  <1>2. CASE mem = o
    BY <1>1, <1>2 DEF NoWedge, Working
  <1>3. CASE mem # o
    <2>1. ASSUME mem # None, Tended(mem) PROVE Tended(mem)'
      BY <1>1, <1>3, <2>1 DEF Tended, Working, Idle
    <2> QED BY <1>3, <2>1, WedgeStill
  <1> QED BY <1>2, <1>3

\* No request wedges the session.
LEMMA RequestNoWedge ==
  ASSUME TypeInv, NoWedge, NEW c \in Clients, Request(c)
  PROVE  NoWedge'
  <1>1. CASE Generate(c)
    <2>1. PICK o \in Fresh, b \in Backends :
            /\ mem' = o
            /\ calls' = [calls EXCEPT ![c] =
                 [NoCall EXCEPT !.pc = "inserting", !.obj = o, !.row = NewRow(b)]]
      BY <1>1 DEF Generate
    <2>2. calls'[c].pc = "inserting" /\ calls'[c].obj = mem'
      BY <2>1 DEF TypeInv, TypeOK, NoCall
    <2> QED BY <2>2 DEF NoWedge
  <1>2. CASE ApprovePlan(c)
    <2>1. mem \in Objects /\ "build" \in RunKind
      BY <1>2 DEF ApprovePlan, TypeInv, TypeOK, RunKind
    <2>2. calls[c].pc = "idle"
      BY <1>2 DEF ApprovePlan, Ready, NoCall
    <2> QED BY <1>2, <2>1, <2>2, SpawnTends DEF ApprovePlan
  <1>3. ASSUME NEW k \in BOOLEAN, Iterate(c, k) PROVE NoWedge'
    <2>1. mem \in Objects /\ calls[c].pc = "idle"
      BY <1>3 DEF Iterate, Ready, NoCall, TypeInv, TypeOK
    <2>2. CASE Remote
      <3>1. \A d \in Clients : d # c => calls'[d] = calls[d]
        BY <1>3, <2>1, <2>2, SuspendLemma DEF Iterate, CallPc, TypeInv, TypeOK
      <3> QED BY <1>3, <2>1, <2>2, <3>1, WedgeStill DEF Iterate, Tended, Working
    <2>3. CASE ~Remote
      BY <1>3, <2>1, <2>3, LaunchTends DEF Iterate
    <2> QED BY <2>2, <2>3
  <1>4. CASE Chat(c)
    <2>1. mem \in Objects /\ calls[c].pc = "idle"
      BY <1>4 DEF Chat, Ready, NoCall, TypeInv, TypeOK
    <2>2. \A d \in Clients : d # c => calls'[d] = calls[d]
      BY <1>4, <2>1, SuspendLemma DEF Chat, CallPc, TypeInv, TypeOK
    <2> QED BY <1>4, <2>1, <2>2, WedgeStill DEF Chat, memory, Tended, Working
  <1>5. ASSUME NEW f \in Files, UpdateFiles(c, f) PROVE NoWedge'
    BY <1>5, SetFilesLemma, WedgeStill
       DEF UpdateFiles, TypeInv, TypeOK, FileSets, Tended, Working
  <1>6. ASSUME NEW f \in versions, Checkout(c, f) PROVE NoWedge'
    <2>1. calls[c].pc = "idle" /\ \A d \in Clients : d # c => calls'[d] = calls[d]
      BY <1>6 DEF Checkout, Ready, NoCall, TypeInv, TypeOK
    <2> QED BY <1>6, <2>1, WedgeStill DEF Checkout, memory, Tended, Working
  <1>7. ASSUME NEW f \in history, CheckoutInMemory(c, f) PROVE NoWedge'
    BY <1>7, SetFilesLemma, WedgeStill
       DEF CheckoutInMemory, TypeInv, TypeOK, FileSets, Tended, Working
  <1>8. CASE Restore(c)
    BY <1>8 DEF Restore, memory, NoWedge
  <1>9. CASE Delete(c)
    <2>1. calls[c].pc = "idle" /\ \A d \in Clients : d # c => calls'[d] = calls[d]
      BY <1>9, SuspendLemma DEF Delete, Ready, NoCall, CallPc, TypeInv, TypeOK
    <2> QED BY <1>9, <2>1, WedgeStill DEF Delete, memory, Tended, Working
  <1> QED BY <1>1, <1>2, <1>3, <1>4, <1>5, <1>6, <1>7, <1>8, <1>9 DEF Request

\* No handler that resumes wedges it.
LEMMA ResumeNoWedge ==
  ASSUME TypeInv, NoWedge, NEW c \in Clients, Resume(c)
  PROVE  NoWedge'
  <1>1. CASE GenerateInserted(c)
    <2>1. calls[c].obj \in Objects /\ "plan" \in RunKind
      BY <1>1 DEF GenerateInserted, TypeInv, RefInv, CallRef, RunKind
    <2>2. \E e : Spawn("plan", calls[c].obj, e)
      BY <1>1 DEF GenerateInserted
    <2>3. \A d \in Clients : d # c => calls'[d] = calls[d]
      BY <1>1, AnswerLemma DEF GenerateInserted, TypeInv, TypeOK
    <2> QED BY <1>1, <2>1, <2>2, <2>3, SpawnTends DEF GenerateInserted, memory
  <1>2. ASSUME NEW k \in BOOLEAN, IterateStopped(c, k) PROVE NoWedge'
    <2>1. calls[c].obj \in Objects
      BY <1>2 DEF IterateStopped, TypeInv, RefInv, CallRef
    <2> QED BY <1>2, <2>1, LaunchTends DEF IterateStopped
  <1>3. CASE IterateKeyRead(c)
    <2>1. calls[c].obj \in Objects /\ "iterate" \in RunKind
      BY <1>3 DEF IterateKeyRead, TypeInv, RefInv, CallRef, RunKind
    <2>2. \A d \in Clients : d # c => calls'[d] = calls[d]
      BY <1>3, AnswerLemma DEF IterateKeyRead, TypeInv, TypeOK
    <2> QED BY <1>3, <2>1, <2>2, SpawnTends DEF IterateKeyRead, memory
  <1>4. CASE ChatReplied(c)
    <2>1. \A d \in Clients : d # c => calls'[d] = calls[d]
      BY <1>4, AnswerLemma DEF ChatReplied, TypeInv, TypeOK
    <2> QED BY <1>4, <2>1, WedgeStill DEF ChatReplied, memory, Tended, Working
  <1>5. CASE ChatIterates(c)
    <2>1. calls[c].obj \in Objects /\ calls[c].pc = "asking"
      BY <1>5 DEF ChatIterates, TypeInv, RefInv, CallRef
    <2>2. CASE Remote
      <3>1. \A d \in Clients : d # c => calls'[d] = calls[d]
        BY <1>5, <2>1, <2>2, SuspendLemma DEF ChatIterates, CallPc, TypeInv, TypeOK
      <3> QED BY <1>5, <2>1, <2>2, <3>1, WedgeStill DEF ChatIterates, Tended, Working
    <2>3. CASE ~Remote
      <3>1. PICK k \in BOOLEAN : Launch(c, calls[c].obj, k)
        BY <1>5, <2>3, Zenon DEF ChatIterates
      <3> QED BY <1>5, <2>1, <3>1, LaunchTends DEF ChatIterates
    <2> QED BY <2>2, <2>3
  <1>6. CASE ChatStopped(c)
    <2>1. calls[c].obj \in Objects
      BY <1>6 DEF ChatStopped, TypeInv, RefInv, CallRef
    <2>2. PICK k \in BOOLEAN : Launch(c, calls[c].obj, k)
      BY <1>6, Zenon DEF ChatStopped
    <2> QED BY <1>6, <2>1, <2>2, LaunchTends DEF ChatStopped
  <1>7. CASE CheckoutApplied(c)
    <2>1. calls[c].files \in FileSets
      BY DEF TypeInv, TypeOK, CallRecord
    <2>2. \A x \in Objects : heap'[x].status = heap[x].status
      BY <1>7, <2>1, SetFilesLemma DEF CheckoutApplied, TypeInv, TypeOK
    <2>3. \A d \in Clients : d # c => calls'[d] = calls[d]
      BY <1>7, AnswerLemma DEF CheckoutApplied, TypeInv, TypeOK
    <2> QED BY <1>7, <2>2, <2>3, WedgeStill
            DEF CheckoutApplied, TypeInv, TypeOK, Tended, Working
  <1>8. CASE RestoreLoaded(c)
    <2>1. calls'[c].obj = calls[c].obj /\ \A d \in Clients : d # c => calls'[d] = calls[d]
      BY <1>8 DEF RestoreLoaded, TypeInv, TypeOK, CallRecord
    <2> QED BY <1>8, <2>1, WedgeStill DEF RestoreLoaded, memory, Tended, Working
  <1>9. CASE RestoreInstalled(c)
    <2>1. calls[c].row \in Row /\ calls[c].files \in FileSets
      BY <1>9 DEF RestoreInstalled, TypeInv, TypeOK, RefInv, CallRef, CallRecord
    <2> DEFINE s == [status |-> "done", plan |-> calls[c].row.plan, files |-> calls[c].files]
    <2>2. s \in State /\ s.status = "done"
      BY <2>1 DEF State, Status, Row
    <2>3. PICK o \in Objects : mem' = o /\ Store(o, s)
      BY <1>9 DEF RestoreInstalled, Fresh
    <2> HIDE DEF s
    <2>4. heap'[mem'].status = "done"
      BY <2>2, <2>3, StoreLemma DEF TypeInv, TypeOK
    <2> QED BY <2>4 DEF NoWedge
  <1>10. CASE DeletePopped(c)
    BY <1>10 DEF DeletePopped, NoWedge
  <1> QED BY <1>1, <1>2, <1>3, <1>4, <1>5, <1>6, <1>7, <1>8, <1>9, <1>10 DEF Resume

\* No step of a task wedges it.
LEMMA AdvanceNoWedge ==
  ASSUME TypeInv, NoWedge, NEW r \in Runs, Advance(r)
  PROVE  NoWedge'
  <1>1. CASE PlanReady(r)
    <2>1. heap'[mem].status = "awaiting_approval"
      BY <1>1 DEF PlanReady, TypeInv, TypeOK, State
    <2> QED BY <1>1, <2>1 DEF PlanReady, NoWedge
  <1>2. CASE RunFailed(r)
    <2>1. heap'[mem].status = "error"
      BY <1>2, SetStatusLemma DEF RunFailed, Status, TypeInv, TypeOK
    <2> QED BY <1>2, <2>1 DEF RunFailed, NoWedge
  <1>3. CASE RunLost(r)
    BY <1>3 DEF RunLost, memory, NoWedge
  <1>4. ASSUME NEW f \in Files, RunReturned(r, f) PROVE NoWedge'
    BY <1>4, RunReturnedLemma DEF NoWedge
  <1>5. CASE Prepare(r)
    <2>1. \A q \in Runs : Working(q) => runs'[q] = runs[q]
      BY <1>5 DEF Prepare, Working, TypeInv, TypeOK
    <2> QED BY <1>5, <2>1, WedgeStill DEF Prepare, memory, Tended, Working
  <1>6. CASE Commit(r)
    BY <1>6, TellingLemma, WedgeStill DEF Commit, memory, Tended, Working, TypeInv
  <1>7. CASE PersistFailed(r)
    BY <1>7, TellingLemma, WedgeStill DEF PersistFailed, memory, Tended, Working, TypeInv
  <1>8. CASE Tell(r)
    BY <1>8, FinishLemma, WedgeStill DEF Tell, memory, Tended, Working, TypeInv
  <1> QED BY <1>1, <1>2, <1>3, <1>4, <1>5, <1>6, <1>7, <1>8 DEF Advance

\* No step wedges it.
LEMMA NextNoWedge ==
  ASSUME TypeInv, NoWedge, [Next]_vars
  PROVE  NoWedge'
  <1>1. ASSUME NEW r \in Runs, NEW f \in Files, CrewWritesFiles(r, f)
        PROVE  NoWedge'
    BY <1>1, SetFilesLemma, WedgeStill
       DEF CrewWritesFiles, TypeInv, TypeOK, FileSets, Tended, Working
  <1>2. CASE Restart
    BY <1>2 DEF Restart, NoWedge
  <1>3. CASE UNCHANGED vars
    BY <1>3, WedgeStill DEF vars, Tended, Working
  <1> QED BY <1>1, <1>2, <1>3, RequestNoWedge, ResumeNoWedge, AdvanceNoWedge DEF Next

\* A session shown as running always has a task, or a handler about to
\* create one, that works for the dict shown.
THEOREM NeverWedged == Spec => []NoWedge
  <1>1. Init => NoWedge
    BY DEF Init, NoWedge
  <1>2. Spec => [](TypeInv /\ NoWedge)
    BY InitTypeInv, NextTypeInv, <1>1, NextNoWedge, PTL DEF Spec
  <1> QED BY <1>2, PTL

---------------------------------------------------------------------------
(* What happens once, and who may be left without a session.  For any      *)
(* number of clients.                                                      *)

AllIdle == \A r \in Runs : Idle(r)

\* Handlers that will create a task for the dict they hold.
Attached(c) ==
  calls[c].pc \in {"inserting", "stopping", "keys", "asking", "chatStopping"}

\* Before POST /generate has answered there is nothing but its handler.
Unanswered ==
  ~known => /\ AllIdle /\ "built" \notin past
            /\ \A c \in Clients : calls[c].pc \in {"idle", "inserting"}

Inserting ==
  \A c \in Clients : calls[c].pc = "inserting" =>
    /\ ~known /\ mem # None
    /\ \A d \in Clients : calls[d].pc = "inserting" => d = c

\* There is one planner task, and it ends before the plan is approved.
Planning ==
  \A r \in Runs :
    /\ Idle(r) => runs[r].kind = "none"
    /\ runs[r].kind = "plan" =>
         /\ Working(r) /\ "built" \notin past
         /\ \A q \in Runs : runs[q].kind = "plan" => q = r

Awaiting ==
  mem # None /\ heap[mem].status = "awaiting_approval" =>
    known /\ "built" \notin past /\ \A r \in Runs : runs[r].kind # "plan"

\* Nobody works on, or is about to work on, a session that is not in memory,
\* unless it was deleted.
Lost ==
  "deleted" \in Recorded /\ mem = None /\ "deleted" \notin past =>
    AllIdle /\ \A c \in Clients : ~Attached(c)

Silent == "deleted" \in Recorded => NoSilentDeath

OnceInv == Unanswered /\ Inserting /\ Planning /\ Awaiting /\ Lost /\ Silent

\* They hold when the server starts.
LEMMA InitOnceInv == Init => OnceInv
  <1>1. NoRun.pc = "idle" /\ NoRun.kind = "none" /\ NoCall.pc = "idle"
    BY DEF NoRun, NoCall
  <1> QED BY <1>1 DEF Init, OnceInv, Unanswered, Inserting, Planning, Awaiting, Lost,
                      Silent, NoSilentDeath, AllIdle, Attached, Idle

\* Of the events that are never taken back, only "overlap" and those named
\* are added.
Remembers(e) == /\ past \ {"unsaved"} \subseteq past'
                /\ past' \subseteq past \cup e \cup {"overlap", "fault", "unsaved", "buildFailed"}

\* A spawned task is of the kind asked for, and adds to the past what it is given.
LEMMA SpawnKind ==
  ASSUME NEW kind \in RunKind, NEW o \in Objects, NEW e, TypeOK, Spawn(kind, o, e)
  PROVE  /\ Record(e \cup Overlap)
         /\ past \subseteq past' /\ past' \subseteq past \cup e \cup {"overlap"}
  <1>1. Record(e \cup Overlap)
    BY DEF Spawn
  <1> QED BY <1>1 DEF Record, Overlap

\* A handler's step that lets it go on or end, but creates no task.
CallGoes(c) ==
  \/ calls'[c].pc = calls[c].pc
  \/ calls'[c].pc = "idle"
  \/ /\ known /\ calls'[c].pc # "inserting"
     /\ Attached(c)' => mem # None \/ Attached(c)

\* A step that neither creates nor ends a task, nor asks for approval.
LEMMA OnceStill ==
  ASSUME OnceInv, mem' = mem, known' = known, Remembers({}),
         mem # None => heap'[mem].status \in {heap[mem].status, "running", "done", "error"},
         \A r \in Runs : /\ runs'[r].kind = runs[r].kind
                         /\ Idle(r)' <=> Idle(r)
                         /\ runs[r].kind = "plan" => (Working(r)' <=> Working(r)),
         \A c \in Clients : CallGoes(c)
  PROVE  OnceInv'
  <1>1. Unanswered'
    BY DEF OnceInv, Unanswered, AllIdle, CallGoes, Remembers
  <1>2. Inserting'
    BY DEF OnceInv, Inserting, CallGoes
  <1>3. Planning'
    BY DEF OnceInv, Planning, Remembers
  <1>4. Awaiting'
    BY DEF OnceInv, Awaiting, Remembers
  <1>5. Lost' /\ Silent'
    BY DEF OnceInv, Lost, Silent, NoSilentDeath, AllIdle, Attached, CallGoes, Remembers
  <1> QED BY <1>1, <1>2, <1>3, <1>4, <1>5 DEF OnceInv

\* A task is created that is not the planner's.
LEMMA OnceSpawn ==
  ASSUME TypeInv, OnceInv, NEW c \in Clients, NEW kind \in {"build", "iterate"},
         NEW o \in Objects, NEW e \in {{}, {"built"}}, Spawn(kind, o, e),
         mem # None \/ Attached(c), known, mem' = mem, known' = known,
         mem # None => heap'[mem].status \in {heap[mem].status, "running"},
         e # {} => /\ \A r \in Runs : runs[r].kind # "plan"
                   /\ mem # None => heap'[mem].status = "running",
         calls'[c].pc = "idle", \A d \in Clients : d # c => calls'[d] = calls[d]
  PROVE  OnceInv'
  <1>1. PICK r \in Runs :
           /\ Idle(r)
           /\ runs'[r].pc = "working" /\ runs'[r].kind = kind
           /\ \A q \in Runs : q # r => runs'[q] = runs[q]
    BY SpawnLemma DEF TypeInv, RunKind
  <1>2. past \subseteq past' /\ past' \subseteq past \cup e \cup {"overlap"}
    BY SpawnKind DEF TypeInv, RunKind
  <1>3. Unanswered' /\ Inserting'
    BY DEF OnceInv, Unanswered, Inserting
  <1>4. Planning' /\ Awaiting'
    BY <1>1, <1>2 DEF OnceInv, Planning, Awaiting, Idle, Working
  <1>5. Lost' /\ Silent'
    BY <1>2 DEF OnceInv, Lost, Silent, NoSilentDeath
  <1> QED BY <1>3, <1>4, <1>5 DEF OnceInv

\* An iteration is started.
LEMMA OnceLaunch ==
  ASSUME TypeInv, OnceInv, NEW c \in Clients, NEW o \in Objects, NEW k \in BOOLEAN,
         Launch(c, o, k), mem # None \/ Attached(c), known, mem' = mem, known' = known
  PROVE  OnceInv'
  <1>1. mem # None => heap'[mem].status \in {heap[mem].status, "running"}
    BY LaunchLemma DEF TypeInv, TypeOK
  <1>2. CASE k
    <2>1. Suspend(c, "keys", o) /\ UNCHANGED <<runs, past>> /\ "keys" \in CallPc
      BY <1>2 DEF Launch, CallPc
    <2>2. \A d \in Clients : CallGoes(d)
      BY <2>1, SuspendLemma DEF CallGoes, TypeInv, TypeOK
    <2> QED BY <1>1, <2>1, <2>2, OnceStill DEF Remembers, Idle, Working
  <1>3. CASE ~k
    <2>1. Answer(c) /\ Spawn("iterate", o, {})
      BY <1>3 DEF Launch
    <2> QED BY <1>1, <2>1, AnswerLemma, OnceSpawn DEF TypeInv, TypeOK
  <1> QED BY <1>2, <1>3

\* A task ends.
LEMMA OnceFinish ==
  ASSUME TypeInv, OnceInv, NEW r \in Runs, Working(r) \/ runs[r].pc = "telling",
         NEW e \in {{}, {"buildFailed"}, {"silent"}}, Finish(r, e),
         mem' = mem, known' = known, calls' = calls,
         e = {"silent"} => mem = None,
         \/ mem # None => heap'[mem].status \in {heap[mem].status, "error"}
         \/ runs[r].kind = "plan"
  PROVE  OnceInv'
  <1>1. /\ runs'[r].pc = "idle" /\ runs'[r].kind = "none"
        /\ \A q \in Runs : q # r => runs'[q] = runs[q]
    BY DEF Finish, NoRun, TypeInv, TypeOK
  <1>2. past \subseteq past' /\ past' \subseteq past \cup e
    BY DEF Finish, Record
  <1>3. known /\ ~Idle(r)
    BY DEF OnceInv, Unanswered, AllIdle, Idle, Working
  <1>4. Unanswered' /\ Inserting'
    BY <1>3 DEF OnceInv, Unanswered, Inserting
  <1>5. Planning'
    BY <1>1, <1>2 DEF OnceInv, Planning, Idle, Working
  <1>6. Awaiting'
    BY <1>1, <1>2, <1>3 DEF OnceInv, Awaiting, Planning
  <1>7. Lost'
    BY <1>1, <1>2 DEF OnceInv, Lost, AllIdle, Attached, Idle
  <1>8. Silent'
    BY <1>2, <1>3 DEF OnceInv, Silent, NoSilentDeath, Lost, AllIdle
  <1> QED BY <1>4, <1>5, <1>6, <1>7, <1>8 DEF OnceInv

\* Every request keeps them.
LEMMA RequestOnce ==
  ASSUME TypeInv, OnceInv, NEW c \in Clients, Request(c)
  PROVE  OnceInv'
  <1> USE DEF Remembers
  <1>1. CASE Generate(c)
    <2>1. PICK o \in Fresh, b \in Backends :
            /\ mem' = o /\ Store(o, Blank)
            /\ calls' = [calls EXCEPT ![c] =
                 [NoCall EXCEPT !.pc = "inserting", !.obj = o, !.row = NewRow(b)]]
      BY <1>1 DEF Generate
    <2>2. heap'[o].status = "running" /\ o \in Objects
      BY <2>1, StoreLemma, RecordTypes DEF Fresh, TypeInv, TypeOK, Blank
    <2>3. /\ calls'[c].pc = "inserting" /\ mem' # None
          /\ \A d \in Clients : d # c => calls'[d] = calls[d]
      BY <2>1, <2>2, ConstantsAssumption DEF TypeInv, TypeOK, NoCall
    <2> QED BY <1>1, <2>1, <2>2, <2>3
            DEF Generate, OnceInv, Unanswered, Inserting, Planning, Awaiting, Lost, Silent,
                NoSilentDeath, AllIdle, Idle, Working
  <1>2. CASE ApprovePlan(c)
    <2>1. /\ mem \in Objects /\ "running" \in Status /\ calls[c].pc = "idle" /\ known
          /\ Spawn("build", mem, {"built"})
      BY <1>2 DEF ApprovePlan, Ready, NoCall, TypeInv, TypeOK, Status
    <2>2. heap'[mem].status = "running" /\ \A r \in Runs : runs[r].kind # "plan"
      BY <1>2, <2>1, SetStatusLemma DEF ApprovePlan, OnceInv, Awaiting, TypeInv, TypeOK
    <2> QED BY <1>2, <2>1, <2>2, OnceSpawn DEF ApprovePlan
  <1>3. ASSUME NEW k \in BOOLEAN, Iterate(c, k) PROVE OnceInv'
    <2>1. mem \in Objects /\ mem # None /\ known
      BY <1>3 DEF Iterate, Ready, TypeInv, TypeOK
    <2>2. CASE Remote
      <3>1. Suspend(c, "stopping", mem) /\ UNCHANGED <<heap, runs, past>> /\ "stopping" \in CallPc
        BY <1>3, <2>2 DEF Iterate, CallPc
      <3>2. \A d \in Clients : CallGoes(d)
        BY <2>1, <3>1, SuspendLemma DEF CallGoes, TypeInv, TypeOK
      <3> QED BY <1>3, <3>1, <3>2, OnceStill DEF Iterate, Idle, Working
    <2>3. CASE ~Remote
      BY <1>3, <2>1, <2>3, OnceLaunch DEF Iterate
    <2> QED BY <2>2, <2>3
  <1>4. CASE Chat(c)
    <2>1. mem \in Objects /\ mem # None /\ known /\ Suspend(c, "asking", mem) /\ "asking" \in CallPc
      BY <1>4 DEF Chat, Ready, TypeInv, TypeOK, CallPc
    <2>2. \A d \in Clients : CallGoes(d)
      BY <2>1, SuspendLemma DEF CallGoes, TypeInv, TypeOK
    <2> QED BY <1>4, <2>2, OnceStill DEF Chat, memory, Idle, Working
  <1>5. ASSUME NEW f \in Files, UpdateFiles(c, f) PROVE OnceInv'
    <2>1. \A x \in Objects : heap'[x].status = heap[x].status
      BY <1>5, SetFilesLemma DEF UpdateFiles, TypeInv, TypeOK, FileSets
    <2> QED BY <1>5, <2>1, OnceStill
            DEF UpdateFiles, Record, CallGoes, Idle, Working, TypeInv, TypeOK
  <1>6. ASSUME NEW f \in versions, Checkout(c, f) PROVE OnceInv'
    <2>1. /\ calls'[c].pc = "applying" /\ known
          /\ \A d \in Clients : d # c => calls'[d] = calls[d]
      BY <1>6 DEF Checkout, Ready, TypeInv, TypeOK, NoCall
    <2>2. \A d \in Clients : CallGoes(d)
      BY <2>1 DEF CallGoes, Attached
    <2> QED BY <1>6, <2>2, OnceStill DEF Checkout, Record, Overlap, memory, Idle, Working
  <1>7. ASSUME NEW f \in history, CheckoutInMemory(c, f) PROVE OnceInv'
    <2>1. \A x \in Objects : heap'[x].status = heap[x].status
      BY <1>7, SetFilesLemma DEF CheckoutInMemory, TypeInv, TypeOK, FileSets
    <2> QED BY <1>7, <2>1, OnceStill
            DEF CheckoutInMemory, Record, CallGoes, Idle, Working, TypeInv, TypeOK
  <1>8. CASE Restore(c)
    <2>1. /\ calls'[c].pc = "loading" /\ known
          /\ \A d \in Clients : d # c => calls'[d] = calls[d]
      BY <1>8 DEF Restore, Ready, TypeInv, TypeOK, NoCall
    <2>2. \A d \in Clients : CallGoes(d)
      BY <2>1 DEF CallGoes, Attached
    <2> QED BY <1>8, <2>2, OnceStill DEF Restore, memory, Idle, Working
  <1>9. CASE Delete(c)
    <2>1. known /\ Suspend(c, "popping", None) /\ "popping" \in CallPc
      BY <1>9 DEF Delete, Ready, CallPc
    <2>2. \A d \in Clients : CallGoes(d)
      BY <2>1, SuspendLemma DEF CallGoes, Attached, TypeInv, TypeOK
    <2> QED BY <1>9, <2>2, OnceStill DEF Delete, memory, Idle, Working
  <1> QED BY <1>1, <1>2, <1>3, <1>4, <1>5, <1>6, <1>7, <1>8, <1>9 DEF Request

\* So does every handler that resumes.
LEMMA ResumeOnce ==
  ASSUME TypeInv, OnceInv, NEW c \in Clients, Resume(c)
  PROVE  OnceInv'
  <1> USE DEF Remembers
  <1>0. calls[c].pc \notin {"idle", "inserting"} => known
    BY DEF OnceInv, Unanswered
  <1>1. CASE GenerateInserted(c)
    <2>1. PICK e \in {{}, {"fault"}} : Spawn("plan", calls[c].obj, e)
      BY <1>1 DEF GenerateInserted
    <2>2. calls[c].obj \in Objects /\ "plan" \in RunKind
      BY <1>1 DEF GenerateInserted, TypeInv, RefInv, CallRef, RunKind
    <2>3. PICK r \in Runs :
            /\ runs'[r].pc = "working" /\ runs'[r].kind = "plan"
            /\ \A q \in Runs : q # r => runs'[q] = runs[q]
      BY <2>1, <2>2, SpawnLemma DEF TypeInv
    <2>4. past \subseteq past' /\ past' \subseteq past \cup e \cup {"overlap"}
      BY <2>1, <2>2, SpawnKind DEF TypeInv
    <2>5. ~known /\ mem # None /\ known' /\ mem' = mem /\ heap' = heap
      BY <1>1 DEF GenerateInserted, OnceInv, Inserting, memory
    <2>6. calls'[c].pc = "idle" /\ \A d \in Clients : d # c => calls'[d] = calls[d]
      BY <1>1, AnswerLemma DEF GenerateInserted, TypeInv, TypeOK
    <2>7. Unanswered' /\ Inserting'
      BY <1>1, <2>5, <2>6 DEF GenerateInserted, OnceInv, Unanswered, Inserting
    <2>8. Planning' /\ Awaiting'
      BY <2>3, <2>4, <2>5 DEF OnceInv, Unanswered, Planning, Awaiting, AllIdle, Idle, Working
    <2>9. Lost' /\ Silent'
      BY <2>4, <2>5 DEF OnceInv, Lost, Silent, NoSilentDeath
    <2> QED BY <2>7, <2>8, <2>9 DEF OnceInv
  <1>2. ASSUME NEW k \in BOOLEAN, IterateStopped(c, k) PROVE OnceInv'
    <2>1. calls[c].obj \in Objects /\ Attached(c)
      BY <1>2 DEF IterateStopped, TypeInv, RefInv, CallRef, Attached
    <2> QED BY <1>0, <1>2, <2>1, OnceLaunch DEF IterateStopped
  <1>3. CASE IterateKeyRead(c)
    <2>1. calls[c].obj \in Objects /\ Attached(c) /\ Spawn("iterate", calls[c].obj, {})
      BY <1>3 DEF IterateKeyRead, TypeInv, RefInv, CallRef, Attached
    <2>2. calls'[c].pc = "idle" /\ \A d \in Clients : d # c => calls'[d] = calls[d]
      BY <1>3, AnswerLemma DEF IterateKeyRead, TypeInv, TypeOK
    <2> QED BY <1>0, <1>3, <2>1, <2>2, OnceSpawn DEF IterateKeyRead, memory
  <1>4. CASE ChatReplied(c)
    <2>1. \A d \in Clients : CallGoes(d)
      BY <1>4, AnswerLemma DEF ChatReplied, CallGoes, TypeInv, TypeOK
    <2> QED BY <1>4, <2>1, OnceStill DEF ChatReplied, memory, Idle, Working
  <1>5. CASE ChatIterates(c)
    <2>1. calls[c].obj \in Objects /\ Attached(c) /\ known
      BY <1>0, <1>5 DEF ChatIterates, TypeInv, RefInv, CallRef, Attached
    <2>2. CASE Remote
      <3>1. /\ Suspend(c, "chatStopping", calls[c].obj) /\ UNCHANGED <<heap, runs, past>>
            /\ "chatStopping" \in CallPc
        BY <1>5, <2>2 DEF ChatIterates, CallPc
      <3>2. \A d \in Clients : CallGoes(d)
        BY <2>1, <3>1, SuspendLemma DEF CallGoes, TypeInv, TypeOK
      <3> QED BY <1>5, <3>1, <3>2, OnceStill DEF ChatIterates, Idle, Working
    <2>3. CASE ~Remote
      <3>1. PICK k \in BOOLEAN : Launch(c, calls[c].obj, k)
        BY <1>5, <2>3, Zenon DEF ChatIterates
      <3> QED BY <1>5, <2>1, <3>1, OnceLaunch DEF ChatIterates
    <2> QED BY <2>2, <2>3
  <1>6. CASE ChatStopped(c)
    <2>1. calls[c].obj \in Objects /\ Attached(c) /\ known
      BY <1>0, <1>6 DEF ChatStopped, TypeInv, RefInv, CallRef, Attached
    <2>2. PICK k \in BOOLEAN : Launch(c, calls[c].obj, k)
      BY <1>6, Zenon DEF ChatStopped
    <2> QED BY <1>6, <2>1, <2>2, OnceLaunch DEF ChatStopped
  <1>7. CASE CheckoutApplied(c)
    <2>1. calls[c].files \in FileSets
      BY DEF TypeInv, TypeOK, CallRecord
    <2>2. \A x \in Objects : heap'[x].status = heap[x].status
      BY <1>7, <2>1, SetFilesLemma DEF CheckoutApplied, TypeInv, TypeOK
    <2>3. \A d \in Clients : CallGoes(d)
      BY <1>7, AnswerLemma DEF CheckoutApplied, CallGoes, TypeInv, TypeOK
    <2> QED BY <1>7, <2>2, <2>3, OnceStill DEF CheckoutApplied, Idle, Working, TypeInv, TypeOK
  <1>8. CASE RestoreLoaded(c)
    <2>1. \A d \in Clients : CallGoes(d)
      BY <1>0, <1>8 DEF RestoreLoaded, CallGoes, Attached, TypeInv, TypeOK, CallRecord
    <2> QED BY <1>8, <2>1, OnceStill DEF RestoreLoaded, memory, Idle, Working
  <1>9. CASE RestoreInstalled(c)
    <2>1. calls[c].row \in Row /\ calls[c].files \in FileSets /\ known
      BY <1>0, <1>9 DEF RestoreInstalled, TypeInv, TypeOK, RefInv, CallRef, CallRecord
    <2> DEFINE s == [status |-> "done", plan |-> calls[c].row.plan, files |-> calls[c].files]
    <2>2. s \in State /\ s.status = "done"
      BY <2>1 DEF State, Status, Row
    <2>3. PICK o \in Objects : mem' = o /\ Store(o, s)
      BY <1>9 DEF RestoreInstalled, Fresh
    <2> HIDE DEF s
    <2>4. mem' # None /\ heap'[mem'].status = "done"
      BY <2>2, <2>3, StoreLemma, ConstantsAssumption DEF TypeInv, TypeOK
    <2>5. calls'[c].pc = "idle" /\ \A d \in Clients : d # c => calls'[d] = calls[d]
      BY <1>9, AnswerLemma DEF RestoreInstalled, TypeInv, TypeOK
    <2> QED BY <1>9, <2>1, <2>4, <2>5
            DEF RestoreInstalled, OnceInv, Unanswered, Inserting, Planning, Awaiting, Lost,
                Silent, NoSilentDeath, Idle, Working
  <1>10. CASE DeletePopped(c)
    <2>1. calls'[c].pc = "idle" /\ \A d \in Clients : d # c => calls'[d] = calls[d]
      BY <1>10, AnswerLemma DEF DeletePopped, TypeInv, TypeOK
    <2>2. known
      BY <1>0, <1>10 DEF DeletePopped
    <2> QED BY <1>10, <2>1, <2>2
            DEF DeletePopped, Record, OnceInv, Unanswered, Inserting, Planning, Awaiting, Lost,
                Silent, NoSilentDeath, Idle, Working
  <1> QED BY <1>1, <1>2, <1>3, <1>4, <1>5, <1>6, <1>7, <1>8, <1>9, <1>10 DEF Resume

\* So does every step of a task.
LEMMA AdvanceOnce ==
  ASSUME TypeInv, OnceInv, NEW r \in Runs, Advance(r)
  PROVE  OnceInv'
  <1> USE DEF Remembers
  <1>0. ~Idle(r) => known
    BY DEF OnceInv, Unanswered, AllIdle
  <1>1. CASE PlanReady(r)
    BY <1>1, OnceFinish DEF PlanReady
  <1>2. CASE RunFailed(r)
    <2>1. heap'[mem].status = "error"
      BY <1>2, SetStatusLemma DEF RunFailed, Status, TypeInv, TypeOK
    <2>2. Finish(r, {}) \/ Finish(r, {"buildFailed"})
      BY <1>2 DEF RunFailed
    <2> QED BY <1>2, <2>1, <2>2, OnceFinish DEF RunFailed
  <1>3. CASE RunLost(r)
    BY <1>3, OnceFinish DEF RunLost, memory
  <1>4. ASSUME NEW f \in Files, RunReturned(r, f) PROVE OnceInv'
    <2>1. /\ mem' # None /\ heap'[mem'].status = "done"
          /\ runs'[r].pc = "persisting"
          /\ \A q \in Runs : q # r => runs'[q] = runs[q]
          /\ UNCHANGED <<calls, known>>
      BY <1>4, RunReturnedLemma, ConstantsAssumption
    <2>2. runs'[r].kind = runs[r].kind /\ runs[r].kind # "plan" /\ Working(r)
      BY <1>4 DEF RunReturned, TypeInv, TypeOK, RunRecord
    <2>3. known
      BY <1>0, <2>2 DEF Idle, Working
    <2>4. past' = past \ {"unsaved"}
      BY <1>4 DEF RunReturned
    <2> QED BY <2>1, <2>2, <2>3, <2>4
            DEF OnceInv, Unanswered, Inserting, Planning, Awaiting, Lost, Silent,
                NoSilentDeath, Idle, Working
  <1>5. CASE Prepare(r)
    <2>1. /\ runs'[r].pc = "committing" /\ runs'[r].kind = runs[r].kind
          /\ \A q \in Runs : q # r => runs'[q] = runs[q]
      BY <1>5 DEF Prepare, TypeInv, TypeOK, RunRecord
    <2>2. \A q \in Runs : /\ runs'[q].kind = runs[q].kind /\ (Idle(q)' <=> Idle(q))
                          /\ runs[q].kind = "plan" => (Working(q)' <=> Working(q))
      BY <1>5, <2>1 DEF Prepare, OnceInv, Planning, Idle, Working
    <2> QED BY <1>5, <2>2, OnceStill DEF Prepare, memory, CallGoes
  <1>6. CASE Commit(r)
    <2>1. /\ runs'[r].pc = "telling" /\ runs'[r].kind = runs[r].kind
          /\ \A q \in Runs : q # r => runs'[q] = runs[q]
      BY <1>6 DEF Commit, TypeInv, TypeOK, RunRecord
    <2>2. \A q \in Runs : /\ runs'[q].kind = runs[q].kind /\ (Idle(q)' <=> Idle(q))
                          /\ runs[q].kind = "plan" => (Working(q)' <=> Working(q))
      BY <1>6, <2>1 DEF Commit, OnceInv, Planning, Idle, Working
    <2> QED BY <1>6, <2>2, OnceStill DEF Commit, memory, CallGoes
  <1>7. CASE PersistFailed(r)
    <2>1. /\ runs'[r].pc = "telling" /\ runs'[r].kind = runs[r].kind
          /\ \A q \in Runs : q # r => runs'[q] = runs[q]
      BY <1>7 DEF PersistFailed, TypeInv, TypeOK, RunRecord
    <2>2. \A q \in Runs : /\ runs'[q].kind = runs[q].kind /\ (Idle(q)' <=> Idle(q))
                          /\ runs[q].kind = "plan" => (Working(q)' <=> Working(q))
      BY <1>7, <2>1 DEF PersistFailed, OnceInv, Planning, Idle, Working
    <2> QED BY <1>7, <2>2, OnceStill DEF PersistFailed, Record, memory, CallGoes
  <1>8. CASE Tell(r)
    BY <1>8, OnceFinish DEF Tell, memory
  <1> QED BY <1>1, <1>2, <1>3, <1>4, <1>5, <1>6, <1>7, <1>8 DEF Advance

\* Every step keeps them.
LEMMA NextOnce ==
  ASSUME TypeInv, OnceInv, [Next]_vars
  PROVE  OnceInv'
  <1>1. ASSUME NEW r \in Runs, NEW f \in Files, CrewWritesFiles(r, f)
        PROVE  OnceInv'
    <2>1. \A x \in Objects : heap'[x].status = heap[x].status
      BY <1>1, SetFilesLemma DEF CrewWritesFiles, TypeInv, TypeOK, FileSets
    <2> QED BY <1>1, <2>1, OnceStill
            DEF CrewWritesFiles, Remembers, CallGoes, Idle, Working, TypeInv, TypeOK
  <1>2. CASE Restart
    <2>1. NoRun.pc = "idle" /\ NoRun.kind = "none" /\ NoCall.pc = "idle"
      BY DEF NoRun, NoCall
    <2> QED BY <1>2, <2>1
            DEF Restart, OnceInv, Unanswered, Inserting, Planning, Awaiting, Lost, Silent,
                NoSilentDeath, AllIdle, Attached, Idle
  <1>3. CASE UNCHANGED vars
    BY <1>3, OnceStill DEF vars, Remembers, CallGoes, Idle, Working
  <1> QED BY <1>1, <1>2, <1>3, RequestOnce, ResumeOnce, AdvanceOnce DEF Next

\* A task never ends without its terminal event unless the session was
\* deleted under it: until then whoever works, works on a session in memory.
THEOREM SilenceMeansDeleted == "deleted" \in Recorded => (Spec => []NoSilentDeath)
  <1> SUFFICES ASSUME "deleted" \in Recorded PROVE Spec => []NoSilentDeath
    OBVIOUS
  <1>1. Spec => [](TypeInv /\ OnceInv)
    BY InitTypeInv, NextTypeInv, InitOnceInv, NextOnce, PTL DEF Spec
  <1>2. OnceInv => NoSilentDeath
    BY DEF OnceInv, Silent
  <1> QED BY <1>1, <1>2, PTL

\* A task that was idle becomes a build only by the approval of the plan.
LEMMA OnlyApprovalBuilds ==
  ASSUME TypeInv, OnceInv, Next, NEW r \in Runs, Idle(r), runs'[r].kind = "build"
  PROVE  "built" \notin past
  <1>1. runs'[r] # runs[r]
    BY DEF OnceInv, Planning
  <1>2. ASSUME NEW kind \in {"plan", "iterate"}, NEW o \in Objects, NEW e, Spawn(kind, o, e)
        PROVE  FALSE
    BY <1>1, <1>2, SpawnLemma DEF TypeInv, RunKind
  <1>3. ASSUME NEW c \in Clients, NEW o \in Objects, NEW k \in BOOLEAN, Launch(c, o, k)
        PROVE  FALSE
    BY <1>1, <1>2, <1>3 DEF Launch
  <1>4. ASSUME NEW c \in Clients, Request(c) PROVE "built" \notin past
    <2>1. CASE ApprovePlan(c)
      BY <2>1 DEF ApprovePlan, OnceInv, Awaiting
    <2>2. ASSUME NEW k \in BOOLEAN, Iterate(c, k) PROVE FALSE
      <3>1. mem \in Objects
        BY <2>2 DEF Iterate, TypeInv, TypeOK
      <3> QED BY <1>1, <1>3, <2>2, <3>1 DEF Iterate
    <2> QED BY <1>1, <1>4, <2>1, <2>2
            DEF Request, Generate, Chat, UpdateFiles, Checkout, CheckoutInMemory, Restore, Delete
  <1>5. ASSUME NEW c \in Clients, Resume(c) PROVE FALSE
    <2>1. calls[c].pc \in {"inserting", "stopping", "keys", "asking", "chatStopping"} =>
            calls[c].obj \in Objects
      BY DEF TypeInv, RefInv, CallRef
    <2>2. CASE GenerateInserted(c)
      BY <1>2, <2>1, <2>2 DEF GenerateInserted
    <2>3. ASSUME NEW k \in BOOLEAN, IterateStopped(c, k) PROVE FALSE
      BY <1>3, <2>1, <2>3 DEF IterateStopped
    <2>4. CASE IterateKeyRead(c)
      BY <1>2, <2>1, <2>4 DEF IterateKeyRead
    <2>5. CASE ChatIterates(c)
      <3>1. Launch(c, calls[c].obj, FALSE) \/ UNCHANGED runs
        BY <2>5, Zenon DEF ChatIterates
      <3>2. CASE Launch(c, calls[c].obj, FALSE)
        BY <1>3, <2>1, <2>5, <3>2 DEF ChatIterates
      <3> QED BY <1>1, <3>1, <3>2
    <2>6. CASE ChatStopped(c)
      BY <1>3, <2>1, <2>6 DEF ChatStopped
    <2> QED BY <1>1, <1>5, <2>2, <2>3, <2>4, <2>5, <2>6
            DEF Resume, ChatReplied, CheckoutApplied, RestoreLoaded, RestoreInstalled, DeletePopped
  <1>6. ASSUME NEW q \in Runs, Advance(q) PROVE FALSE
    <2>1. ~Idle(q) /\ \A p \in Runs : p # q => runs'[p] = runs[p]
      BY <1>6 DEF Advance, PlanReady, RunFailed, RunLost, RunReturned, Prepare, Commit,
                  PersistFailed, Tell, Finish, Working, Idle, TypeInv, TypeOK
    <2> QED BY <1>1, <2>1
  <1>7. ASSUME NEW q \in Runs, NEW f \in Files, CrewWritesFiles(q, f) PROVE FALSE
    BY <1>1, <1>7 DEF CrewWritesFiles
  <1>8. CASE Restart
    BY <1>8 DEF Restart, NoRun
  <1> QED BY <1>4, <1>5, <1>6, <1>7, <1>8 DEF Next

\* However many clients approve the plan at once, one build task is created.
THEOREM OneBuild == Spec => BuildOnce
  <1>1. Spec => [](TypeInv /\ OnceInv)
    BY InitTypeInv, NextTypeInv, InitOnceInv, NextOnce, PTL DEF Spec
  <1>2. TypeInv /\ OnceInv /\ [Next]_vars
          => [(\E r \in Runs : Idle(r) /\ runs'[r].kind = "build") => "built" \notin past]_vars
    BY OnlyApprovalBuilds
  <1> QED BY <1>1, <1>2, PTL DEF Spec, BuildOnce

---------------------------------------------------------------------------
(* Deletion is final once nobody works, for one client at a time: what was *)
(* deleted has no row to be restored from.                                 *)

Deleted ==
  "deleted" \in past =>
    known /\ row = None /\ \A c \in Clients : calls[c].pc \notin {"loading", "installing"}

\* A step that deletes and restores nothing.
LEMMA DeletedStill ==
  ASSUME Deleted, known => known', row = None => row' = None,
         "deleted" \in past' => "deleted" \in past,
         \A c \in Clients : \/ calls'[c].pc = calls[c].pc
                            \/ calls'[c].pc \notin {"loading", "installing"}
  PROVE  Deleted'
  BY DEF Deleted

\* Every step keeps it.
LEMMA NextDeleted ==
  ASSUME Serial, TypeInv, SerialInv, OnceInv, Deleted, [Next]_vars
  PROVE  Deleted'
  <1>1. ASSUME NEW kind \in RunKind, NEW o \in Objects,
               NEW e \in {{}, {"built"}, {"fault"}}, Spawn(kind, o, e)
        PROVE  "deleted" \in past' => "deleted" \in past
    BY <1>1, SpawnKind DEF TypeInv
  <1>2. ASSUME NEW c \in Clients, NEW o \in Objects, NEW k \in BOOLEAN, Launch(c, o, k)
        PROVE  /\ "deleted" \in past' => "deleted" \in past
               /\ \A d \in Clients : \/ calls'[d].pc = calls[d].pc
                                     \/ calls'[d].pc \notin {"loading", "installing"}
    <2>1. "deleted" \in past' => "deleted" \in past
      BY <1>1, <1>2 DEF Launch, RunKind
    <2> QED BY <1>2, <2>1, LaunchLemma
  <1>3. ASSUME NEW c \in Clients, Answer(c)
        PROVE  calls'[c].pc = "idle" /\ \A d \in Clients : d # c => calls'[d] = calls[d]
    BY <1>3, AnswerLemma DEF TypeInv, TypeOK
  <1>4. ASSUME NEW c \in Clients, Request(c) PROVE Deleted'
    <2>1. CASE Generate(c)
      BY <2>1, DeletedStill DEF Generate, TypeInv, TypeOK, NoCall, database
    <2>2. CASE ApprovePlan(c)
      <3>1. mem \in Objects
        BY <2>2 DEF ApprovePlan, TypeInv, TypeOK
      <3> QED BY <1>1, <2>2, <3>1, DeletedStill DEF ApprovePlan, database, RunKind
    <2>3. ASSUME NEW k \in BOOLEAN, Iterate(c, k) PROVE Deleted'
      <3>1. mem \in Objects
        BY <2>3 DEF Iterate, TypeInv, TypeOK
      <3>2. CASE Remote
        BY <2>3, <3>1, <3>2, SuspendLemma, DeletedStill DEF Iterate, database, CallPc, TypeInv, TypeOK
      <3>3. CASE ~Remote
        BY <1>2, <2>3, <3>1, <3>3, DeletedStill DEF Iterate, database
      <3> QED BY <3>2, <3>3
    <2>4. CASE Chat(c)
      <3>1. mem \in Objects
        BY <2>4 DEF Chat, TypeInv, TypeOK
      <3> QED BY <2>4, <3>1, SuspendLemma, DeletedStill DEF Chat, database, CallPc, TypeInv, TypeOK
    <2>5. ASSUME NEW f \in Files, UpdateFiles(c, f) PROVE Deleted'
      BY <2>5, DeletedStill DEF UpdateFiles, Record, database
    <2>6. ASSUME NEW f \in versions, Checkout(c, f) PROVE Deleted'
      BY <2>6, DeletedStill DEF Checkout, Record, Overlap, TypeInv, TypeOK, NoCall
    <2>7. ASSUME NEW f \in history, CheckoutInMemory(c, f) PROVE Deleted'
      BY <2>7, DeletedStill DEF CheckoutInMemory, Record, database
    <2>8. CASE Restore(c)
      BY <2>8 DEF Restore, Deleted, database
    <2>9. CASE Delete(c)
      BY <2>9, SuspendLemma, DeletedStill DEF Delete, CallPc, TypeInv, TypeOK
    <2> QED BY <1>4, <2>1, <2>2, <2>3, <2>4, <2>5, <2>6, <2>7, <2>8, <2>9 DEF Request
  <1>5. ASSUME NEW c \in Clients, Resume(c) PROVE Deleted'
    <2>0. calls[c].pc \in {"inserting", "stopping", "keys", "asking", "chatStopping"} =>
            calls[c].obj \in Objects
      BY DEF TypeInv, RefInv, CallRef
    <2>1. CASE GenerateInserted(c)
      <3>1. "deleted" \notin past
        BY <2>1 DEF GenerateInserted, OnceInv, Inserting, Deleted
      <3>2. "deleted" \notin past'
        BY <1>1, <2>0, <2>1, <3>1 DEF GenerateInserted, RunKind
      <3> QED BY <3>2 DEF Deleted
    <2>2. ASSUME NEW k \in BOOLEAN, IterateStopped(c, k) PROVE Deleted'
      BY <1>2, <2>0, <2>2, DeletedStill DEF IterateStopped, database
    <2>3. CASE IterateKeyRead(c)
      BY <1>1, <1>3, <2>0, <2>3, DeletedStill DEF IterateKeyRead, database, RunKind
    <2>4. CASE ChatReplied(c)
      BY <1>3, <2>4, DeletedStill DEF ChatReplied, database
    <2>5. CASE ChatIterates(c)
      <3>1. CASE Remote
        BY <2>0, <2>5, <3>1, SuspendLemma, DeletedStill
           DEF ChatIterates, database, CallPc, TypeInv, TypeOK
      <3>2. CASE ~Remote
        BY <1>2, <2>0, <2>5, <3>2, DeletedStill DEF ChatIterates, database
      <3> QED BY <3>1, <3>2
    <2>6. CASE ChatStopped(c)
      BY <1>2, <2>0, <2>6, DeletedStill DEF ChatStopped, database
    <2>7. CASE CheckoutApplied(c)
      BY <1>3, <2>7, DeletedStill DEF CheckoutApplied, database
    <2>8. CASE RestoreLoaded(c)
      BY <2>8 DEF RestoreLoaded, database, Deleted
    <2>9. CASE RestoreInstalled(c)
      BY <1>3, <2>9, DeletedStill DEF RestoreInstalled, database
    <2>10. CASE DeletePopped(c)
      BY <1>3, <2>10 DEF DeletePopped, database, Deleted, Serial, SerialInv, HandlerInv
    <2> QED BY <1>5, <2>1, <2>2, <2>3, <2>4, <2>5, <2>6, <2>7, <2>8, <2>9, <2>10 DEF Resume
  <1>6. ASSUME NEW r \in Runs, Advance(r) PROVE Deleted'
    <2>1. CASE PlanReady(r) \/ RunFailed(r) \/ RunLost(r) \/ Tell(r)
      BY <2>1, DeletedStill DEF PlanReady, RunFailed, RunLost, Tell, Finish, Record, database
    <2>2. ASSUME NEW f \in Files, RunReturned(r, f) PROVE Deleted'
      BY <2>2, DeletedStill DEF RunReturned, database
    <2>3. CASE Prepare(r) \/ Commit(r) \/ PersistFailed(r)
      BY <2>3, DeletedStill DEF Prepare, Commit, PersistFailed, Record, database
    <2> QED BY <1>6, <2>1, <2>2, <2>3 DEF Advance
  <1>7. ASSUME NEW r \in Runs, NEW f \in Files, CrewWritesFiles(r, f) PROVE Deleted'
    BY <1>7, DeletedStill DEF CrewWritesFiles, database
  <1>8. CASE Restart
    BY <1>8, DeletedStill DEF Restart, database, NoCall
  <1>9. CASE UNCHANGED vars
    BY <1>9, DeletedStill DEF vars
  <1> QED BY <1>4, <1>5, <1>6, <1>7, <1>8, <1>9 DEF Next

---------------------------------------------------------------------------
(* As long as the process lives, done means that a pipeline has returned,  *)
(* for any number of clients: only a task's return and a restore mark a    *)
(* dict done, the one adds to the history, which nothing shortens, and     *)
(* without a restart a session missing from memory has no row to restore.  *)

CallBuilt(c) ==
  /\ calls[c].pc \notin {"loading", "installing"}
  /\ calls[c].pc = "popping" => row = None

HeapBuilt == \A o \in Objects : heap[o].status = "done" => history # {}

BuiltInv ==
  /\ mem = None => row = None
  /\ HeapBuilt
  /\ \A c \in Clients : CallBuilt(c)

\* It holds when the server starts.
LEMMA InitBuiltInv == Init => BuiltInv
  <1>1. NoCall.pc = "idle" /\ Blank.status = "running"
    BY DEF NoCall, Blank
  <1> QED BY <1>1 DEF Init, BuiltInv, HeapBuilt, CallBuilt

\* A handler stays where it is, or goes where it needs nothing of the row.
CallSame(c) ==
  \/ calls'[c].pc = calls[c].pc
  \/ calls'[c].pc \notin {"loading", "installing", "popping"}

\* No dict becomes done, and no result is forgotten.
Undone ==
  /\ history' = history
  /\ \A o \in Objects : heap'[o].status = "done" => heap[o].status = "done"

LEMMA UndoneBuilt == BuiltInv /\ Undone => HeapBuilt'
  BY DEF BuiltInv, HeapBuilt, Undone

\* A step that neither empties the memory nor asks for a row.
LEMMA BuiltStill ==
  ASSUME BuiltInv, mem' = mem \/ mem' # None, row = None => row' = None, HeapBuilt',
         \A c \in Clients : CallSame(c)
  PROVE  BuiltInv'
  BY DEF BuiltInv, CallBuilt, CallSame

\* Marking a dict as anything but done, and replacing its files.
LEMMA UndoneSet ==
  ASSUME TypeInv, NEW o, history' = history,
         \/ \E s \in Status \ {"done"} : SetStatus(o, s)
         \/ \E f : SetFiles(o, f)
  PROVE  Undone
  BY DEF SetStatus, SetFiles, Undone, TypeInv, TypeOK, State, Status

\* An iteration is started.
LEMMA BuiltLaunch ==
  ASSUME TypeInv, BuiltInv, NEW c \in Clients, NEW o \in Objects, NEW k \in BOOLEAN,
         Launch(c, o, k), mem' = mem, history' = history, row' = row
  PROVE  BuiltInv'
  <1>1. SetStatus(o, "running") /\ "running" \in Status \ {"done"}
    BY DEF Launch, Status
  <1>2. HeapBuilt'
    BY <1>1, UndoneSet, UndoneBuilt
  <1>3. \A d \in Clients : CallSame(d)
    BY LaunchLemma DEF CallSame
  <1> QED BY <1>2, <1>3, BuiltStill

\* Every request keeps it: a session that is not in memory has no row.
LEMMA RequestBuilt ==
  ASSUME TypeInv, BuiltInv, NEW c \in Clients, Request(c)
  PROVE  BuiltInv'
  <1>1. CASE Generate(c)
    <2>1. PICK o \in Fresh, b \in Backends :
            /\ mem' = o /\ Store(o, Blank)
            /\ calls' = [calls EXCEPT ![c] =
                 [NoCall EXCEPT !.pc = "inserting", !.obj = o, !.row = NewRow(b)]]
      BY <1>1 DEF Generate
    <2>2. Blank.status = "running" /\ mem' # None
      BY <2>1, ConstantsAssumption DEF Fresh, Blank
    <2>3. HeapBuilt'
      BY <1>1, <2>1, <2>2, UndoneBuilt DEF Generate, Store, Undone, TypeInv, TypeOK
    <2>4. \A d \in Clients : CallSame(d)
      BY <2>1 DEF CallSame, TypeInv, TypeOK, NoCall
    <2> QED BY <1>1, <2>2, <2>3, <2>4, BuiltStill DEF Generate, database
  <1>2. CASE ApprovePlan(c)
    <2>1. "running" \in Status \ {"done"}
      BY DEF Status
    <2>2. HeapBuilt'
      BY <1>2, <2>1, UndoneSet, UndoneBuilt DEF ApprovePlan
    <2> QED BY <1>2, <2>2, BuiltStill DEF ApprovePlan, CallSame, database
  <1>3. ASSUME NEW k \in BOOLEAN, Iterate(c, k) PROVE BuiltInv'
    <2>1. mem \in Objects
      BY <1>3 DEF Iterate, TypeInv, TypeOK
    <2>2. CASE Remote
      <3>1. Suspend(c, "stopping", mem) /\ UNCHANGED <<heap, runs, past>> /\ "stopping" \in CallPc
        BY <1>3, <2>2 DEF Iterate, CallPc
      <3>2. \A d \in Clients : CallSame(d)
        BY <2>1, <3>1, SuspendLemma DEF CallSame, TypeInv, TypeOK
      <3> QED BY <1>3, <3>1, <3>2, BuiltStill DEF Iterate, database, BuiltInv, HeapBuilt
    <2>3. CASE ~Remote
      BY <1>3, <2>1, <2>3, BuiltLaunch DEF Iterate, database
    <2> QED BY <2>2, <2>3
  <1>4. CASE Chat(c)
    <2>1. mem \in Objects /\ Suspend(c, "asking", mem) /\ "asking" \in CallPc
      BY <1>4 DEF Chat, TypeInv, TypeOK, CallPc
    <2>2. \A d \in Clients : CallSame(d)
      BY <2>1, SuspendLemma DEF CallSame, TypeInv, TypeOK
    <2> QED BY <1>4, <2>2, BuiltStill DEF Chat, memory, database, BuiltInv, HeapBuilt
  <1>5. ASSUME NEW f, UpdateFiles(c, f) \/ CheckoutInMemory(c, f) PROVE BuiltInv'
    <2>1. HeapBuilt'
      BY <1>5, UndoneSet, UndoneBuilt DEF UpdateFiles, CheckoutInMemory
    <2> QED BY <1>5, <2>1, BuiltStill DEF UpdateFiles, CheckoutInMemory, CallSame, database
  <1>6. ASSUME NEW f \in versions, Checkout(c, f) PROVE BuiltInv'
    <2>1. \A d \in Clients : CallSame(d)
      BY <1>6 DEF Checkout, CallSame, TypeInv, TypeOK, NoCall
    <2> QED BY <1>6, <2>1, BuiltStill DEF Checkout, memory, BuiltInv, HeapBuilt
  <1>7. CASE Restore(c)
    BY <1>7 DEF Restore, BuiltInv
  <1>8. CASE Delete(c)
    <2>1. /\ calls'[c].pc = "popping"
          /\ \A d \in Clients : d # c => calls'[d] = calls[d]
      BY <1>8, SuspendLemma DEF Delete, CallPc, TypeInv, TypeOK
    <2> QED BY <1>8, <2>1 DEF Delete, memory, BuiltInv, HeapBuilt, CallBuilt
  <1> QED BY <1>1, <1>2, <1>3, <1>4, <1>5, <1>6, <1>7, <1>8 DEF Request

\* So does every handler that resumes.
LEMMA ResumeBuilt ==
  ASSUME TypeInv, OnceInv, BuiltInv, NEW c \in Clients, Resume(c)
  PROVE  BuiltInv'
  <1>1. CASE GenerateInserted(c)
    <2>1. mem # None /\ \A d \in Clients : calls[d].pc \in {"idle", "inserting"}
      BY <1>1 DEF GenerateInserted, OnceInv, Inserting, Unanswered
    <2>2. calls'[c].pc = "idle" /\ \A d \in Clients : d # c => calls'[d] = calls[d]
      BY <1>1, AnswerLemma DEF GenerateInserted, TypeInv, TypeOK
    <2> QED BY <1>1, <2>1, <2>2 DEF GenerateInserted, memory, BuiltInv, HeapBuilt, CallBuilt
  <1>2. ASSUME NEW k \in BOOLEAN, IterateStopped(c, k) PROVE BuiltInv'
    <2>1. calls[c].obj \in Objects
      BY <1>2 DEF IterateStopped, TypeInv, RefInv, CallRef
    <2> QED BY <1>2, <2>1, BuiltLaunch DEF IterateStopped, database
  <1>3. CASE IterateKeyRead(c)
    <2>1. \A d \in Clients : CallSame(d)
      BY <1>3, AnswerLemma DEF IterateKeyRead, CallSame, TypeInv, TypeOK
    <2> QED BY <1>3, <2>1, BuiltStill DEF IterateKeyRead, memory, database, BuiltInv, HeapBuilt
  <1>4. CASE ChatReplied(c)
    <2>1. \A d \in Clients : CallSame(d)
      BY <1>4, AnswerLemma DEF ChatReplied, CallSame, TypeInv, TypeOK
    <2> QED BY <1>4, <2>1, BuiltStill DEF ChatReplied, memory, database, BuiltInv, HeapBuilt
  <1>5. CASE ChatIterates(c)
    <2>1. calls[c].obj \in Objects
      BY <1>5 DEF ChatIterates, TypeInv, RefInv, CallRef
    <2>2. CASE Remote
      <3>1. /\ Suspend(c, "chatStopping", calls[c].obj) /\ UNCHANGED <<heap, runs, past>>
            /\ "chatStopping" \in CallPc
        BY <1>5, <2>2 DEF ChatIterates, CallPc
      <3>2. \A d \in Clients : CallSame(d)
        BY <2>1, <3>1, SuspendLemma DEF CallSame, TypeInv, TypeOK
      <3> QED BY <1>5, <3>1, <3>2, BuiltStill DEF ChatIterates, database, BuiltInv, HeapBuilt
    <2>3. CASE ~Remote
      <3>1. PICK k \in BOOLEAN : Launch(c, calls[c].obj, k)
        BY <1>5, <2>3, Zenon DEF ChatIterates
      <3> QED BY <1>5, <2>1, <3>1, BuiltLaunch DEF ChatIterates, database
    <2> QED BY <2>2, <2>3
  <1>6. CASE ChatStopped(c)
    <2>1. calls[c].obj \in Objects
      BY <1>6 DEF ChatStopped, TypeInv, RefInv, CallRef
    <2>2. PICK k \in BOOLEAN : Launch(c, calls[c].obj, k)
      BY <1>6, Zenon DEF ChatStopped
    <2> QED BY <1>6, <2>1, <2>2, BuiltLaunch DEF ChatStopped, database
  <1>7. CASE CheckoutApplied(c)
    <2>1. HeapBuilt'
      <3>1. CASE mem = None
        BY <1>7, <3>1 DEF CheckoutApplied, BuiltInv, HeapBuilt
      <3>2. CASE mem # None
        BY <1>7, <3>2, UndoneSet, UndoneBuilt DEF CheckoutApplied
      <3> QED BY <3>1, <3>2
    <2>2. \A d \in Clients : CallSame(d)
      BY <1>7, AnswerLemma DEF CheckoutApplied, CallSame, TypeInv, TypeOK
    <2> QED BY <1>7, <2>1, <2>2, BuiltStill DEF CheckoutApplied, database
  <1>8. CASE RestoreLoaded(c) \/ RestoreInstalled(c)
    BY <1>8 DEF RestoreLoaded, RestoreInstalled, BuiltInv, CallBuilt
  <1>9. CASE DeletePopped(c)
    <2>1. calls'[c].pc = "idle" /\ \A d \in Clients : d # c => calls'[d] = calls[d]
      BY <1>9, AnswerLemma DEF DeletePopped, TypeInv, TypeOK
    <2> QED BY <1>9, <2>1 DEF DeletePopped, database, BuiltInv, HeapBuilt, CallBuilt
  <1> QED BY <1>1, <1>2, <1>3, <1>4, <1>5, <1>6, <1>7, <1>8, <1>9 DEF Resume

\* So does every step of a task: its return is what the history records.
LEMMA AdvanceBuilt ==
  ASSUME TypeInv, BuiltInv, NEW r \in Runs, Advance(r)
  PROVE  BuiltInv'
  <1>1. CASE PlanReady(r)
    <2>1. HeapBuilt'
      BY <1>1, UndoneBuilt DEF PlanReady, Undone, TypeInv, TypeOK, State
    <2> QED BY <1>1, <2>1, BuiltStill DEF PlanReady, CallSame, database
  <1>2. CASE RunFailed(r)
    <2>1. "error" \in Status \ {"done"}
      BY DEF Status
    <2>2. HeapBuilt'
      BY <1>2, <2>1, UndoneSet, UndoneBuilt DEF RunFailed
    <2> QED BY <1>2, <2>2, BuiltStill DEF RunFailed, CallSame, database
  <1>3. CASE RunLost(r) \/ Tell(r) \/ PersistFailed(r)
    BY <1>3, BuiltStill
       DEF RunLost, Tell, PersistFailed, CallSame, memory, database, BuiltInv, HeapBuilt
  <1>4. ASSUME NEW f \in Files, RunReturned(r, f) PROVE BuiltInv'
    <2>1. mem' # None
      BY <1>4, ConstantsAssumption
         DEF RunReturned, Fresh, Working, TypeInv, RefInv, RunRef
    <2>2. HeapBuilt'
      BY <1>4 DEF RunReturned, HeapBuilt
    <2> QED BY <1>4, <2>1, <2>2, BuiltStill DEF RunReturned, CallSame, database
  <1>5. CASE Prepare(r) \/ Commit(r)
    BY <1>5, BuiltStill DEF Prepare, Commit, CallSame, memory, BuiltInv, HeapBuilt
  <1> QED BY <1>1, <1>2, <1>3, <1>4, <1>5 DEF Advance

\* Without a restart every step keeps it.
LEMMA NextBuilt ==
  ASSUME ~MayCrash, TypeInv, OnceInv, BuiltInv, [Next]_vars
  PROVE  BuiltInv'
  <1>1. ASSUME NEW r \in Runs, NEW f \in Files, CrewWritesFiles(r, f) PROVE BuiltInv'
    <2>1. HeapBuilt'
      BY <1>1, UndoneSet, UndoneBuilt DEF CrewWritesFiles
    <2> QED BY <1>1, <2>1, BuiltStill DEF CrewWritesFiles, CallSame, database
  <1>2. CASE UNCHANGED vars
    BY <1>2, BuiltStill DEF vars, CallSame, BuiltInv, HeapBuilt
  <1> QED BY <1>1, <1>2, RequestBuilt, ResumeBuilt, AdvanceBuilt DEF Next, Restart

\* As long as the process is not restarted, a session shown as done has had a
\* pipeline return for it, however many clients edit, roll back, chat, iterate
\* and delete, and whether there are files or not (main.py:482, 1173-1184).
THEOREM DoneIsBuilt == ~MayCrash => (Spec => []DoneMeansBuilt)
  <1> SUFFICES ASSUME ~MayCrash PROVE Spec => []DoneMeansBuilt
    OBVIOUS
  <1>1. Spec => [](TypeInv /\ OnceInv /\ BuiltInv)
    BY InitTypeInv, NextTypeInv, InitOnceInv, NextOnce, InitBuiltInv, NextBuilt, PTL DEF Spec
  <1>2. TypeInv /\ BuiltInv => DoneMeansBuilt
    BY DEF TypeInv, TypeOK, BuiltInv, HeapBuilt, DoneMeansBuilt
  <1> QED BY <1>1, <1>2, PTL

---------------------------------------------------------------------------
(* What is done survives a restart, for one client at a time.  Undisturbed *)
(* is a past without database errors, deletions and overlaps: then a task  *)
(* is alone, what it persists is the session's dict, and every difference  *)
(* between memory and the database is one that somebody is about to remove *)
(* or that an unsaved edit explains.                                       *)

Tracked == {"fault", "overlap", "deleted", "unsaved", "buildFailed"} \subseteq Recorded

Undisturbed == past \cap {"fault", "overlap", "deleted"} = {}
Sure == Undisturbed /\ "unsaved" \notin past

Alone == \A q, r \in Runs : ~Idle(q) /\ ~Idle(r) => q = r

\* A task that persists does so for the session's dict.
Held == \A r \in Runs :
          runs[r].pc \in {"persisting", "committing", "telling"} => mem = runs[r].obj

\* A session in memory has its row.
Rowed ==
  /\ mem # None /\ known /\ (\A c \in Clients : calls[c].pc # "popping") => row # None
  /\ ~known => row = None /\ (mem # None => \E c \in Clients : calls[c].pc = "inserting")

\* What a handler read is what is there.
Reads(c) ==
  /\ calls[c].pc = "inserting" => ~calls[c].row.plan /\ ~heap[mem].plan
  /\ calls[c].pc \in {"stopping", "chatStopping"} => heap[mem].status # "awaiting_approval"
  /\ calls[c].pc \in {"loading", "installing"} => AllIdle /\ row # None /\ calls[c].row = row
  /\ calls[c].pc \in {"installing", "applying"} => AllIdle /\ calls[c].files = current

\* The current version is what is in memory, or will be.
Saved ==
  /\ Sure /\ mem # None /\ heap[mem].status = "done"
  /\ \A c \in Clients : calls[c].pc \notin {"applying", "popping"}
  /\ \A r \in Runs : runs[r].pc \notin {"persisting", "committing"}
  => current = heap[mem].files

Snapped ==
  Sure => \A r \in Runs : runs[r].pc = "committing" => runs[r].snap = heap[mem].files

\* The row has the plan, or the build that will store it is under way.
Planned ==
  /\ "buildFailed" \notin past /\ mem # None /\ row # None
  /\ heap[mem].status # "awaiting_approval"
  /\ \A r \in Runs : runs[r].kind = "build" => runs[r].pc \notin {"working", "persisting"}
  => (heap[mem].plan <=> row.plan)

Parts == /\ Alone /\ Held /\ Rowed /\ Saved /\ Snapped /\ Planned
         /\ \A c \in Clients : Reads(c)

DurableInv == Undisturbed => Parts

\* Everything known of a state from which a step is taken.
Base == Serial /\ Tracked /\ TypeInv /\ SerialInv /\ OnceInv /\ Undisturbed /\ Parts

\* They hold when the server starts.
LEMMA InitDurable == Init => DurableInv
  <1>1. NoRun.pc = "idle" /\ NoCall.pc = "idle"
    BY DEF NoRun, NoCall
  <1> QED BY <1>1 DEF Init, DurableInv, Parts, Alone, Held, Rowed, Saved, Snapped, Planned,
                      Reads, Idle

\* Without a deletion a task works for the session's dict, shown as running.
LEMMA WorksForSession ==
  ASSUME Base
  PROVE  /\ mem = None => AllIdle /\ \A c \in Clients : ~Attached(c)
         /\ \A r \in Runs : Working(r) =>
              known /\ mem \in Objects /\ mem = runs[r].obj /\ heap[mem].status = "running"
  <1>1. mem = None => AllIdle /\ \A c \in Clients : ~Attached(c)
    BY DEF Base, Tracked, Undisturbed, OnceInv, Lost
  <1> QED BY <1>1 DEF Base, AllIdle, Idle, Working, SerialInv, RunOwnsSession, WorkingInv,
                      TypeInv, TypeOK

\* A task is created where there is none.
LEMMA SpawnAlone ==
  ASSUME Base, Undisturbed', NEW kind \in RunKind, NEW o \in Objects, NEW e, Spawn(kind, o, e)
  PROVE  /\ AllIdle
         /\ \A r \in Runs : runs[r].kind = "none"
         /\ \E r \in Runs :
              /\ runs'[r].pc = "working" /\ runs'[r].kind = kind /\ runs'[r].obj = o
              /\ \A q \in Runs : q # r => runs'[q] = runs[q]
         /\ past \subseteq past'
         /\ e \cap Recorded \subseteq past'
  <1>1. Record(e \cup Overlap) /\ past \subseteq past'
    BY SpawnKind DEF Base, TypeInv
  <1>2. AllIdle
    BY <1>1 DEF Base, Tracked, Undisturbed, Record, Overlap, AllIdle
  <1>3. \A r \in Runs : runs[r].kind = "none"
    BY <1>2 DEF AllIdle, Base, OnceInv, Planning
  <1>4. e \cap Recorded \subseteq past'
    BY <1>1 DEF Record
  <1> QED BY <1>1, <1>2, <1>3, <1>4, SpawnLemma DEF Base, TypeInv

\* A handler that starts a task for the session's dict, marked running.
LEMMA DurableSpawn ==
  ASSUME Base, Undisturbed', NEW c \in Clients, NEW kind \in RunKind, NEW e,
         mem \in Objects, Spawn(kind, mem, e),
         mem' = mem, current' = current, known', row' # None,
         heap'[mem].status = "running", heap'[mem].plan = heap[mem].plan,
         \/ kind = "build"
         \/ "buildFailed" \notin past => (heap[mem].plan <=> row'.plan),
         calls'[c].pc = "idle"
  PROVE  Parts'
  <1>1. PICK r \in Runs :
           /\ runs'[r].pc = "working" /\ runs'[r].kind = kind
           /\ \A q \in Runs : q # r => Idle(q)' /\ runs'[q].kind = "none"
    BY SpawnAlone DEF AllIdle, Idle
  <1>2. \A d \in Clients : calls'[d].pc = "idle"
    BY DEF Base, Serial
  <1>3. Alone' /\ Held' /\ Rowed' /\ Saved' /\ Snapped'
    BY <1>1, <1>2 DEF Alone, Held, Rowed, Saved, Snapped, Idle
  <1>4. Planned'
    BY <1>1, SpawnAlone DEF Planned
  <1>5. \A d \in Clients : Reads(d)'
    BY <1>2 DEF Reads
  <1> QED BY <1>3, <1>4, <1>5 DEF Parts

\* A handler that goes on, or ends, without having changed anything.
LEMMA DurableStill ==
  ASSUME Base, NEW c \in Clients, UNCHANGED <<mem, heap, row, current, runs, known, past>>, known,
         calls[c].pc \notin {"applying", "popping"},
         calls'[c].pc \in {"idle", "asking", "stopping", "chatStopping"},
         calls'[c].pc \in {"stopping", "chatStopping"} => heap[mem].status # "awaiting_approval"
  PROVE  Parts'
  <1>1. \A d \in Clients : d = c
    BY DEF Base, Serial
  <1>2. Alone' /\ Held' /\ Rowed' /\ Saved' /\ Snapped' /\ Planned'
    BY <1>1 DEF Base, Parts, Alone, Held, Rowed, Saved, Snapped, Planned, Sure, Undisturbed, Idle
  <1>3. \A d \in Clients : Reads(d)'
    BY <1>1 DEF Reads
  <1> QED BY <1>2, <1>3 DEF Parts

\* An iteration is started.
LEMMA DurableLaunch ==
  ASSUME Base, Undisturbed', NEW c \in Clients, NEW k \in BOOLEAN, mem \in Objects, mem # None,
         Launch(c, mem, k), heap[mem].status # "awaiting_approval", known,
         calls[c].pc \notin {"applying", "popping"},
         UNCHANGED <<mem, row, current, known>>
  PROVE  Parts'
  <1>1. SetStatus(mem, "running") /\ "running" \in Status
    BY DEF Launch, Status
  <1>2. /\ heap'[mem].status = "running" /\ heap'[mem].plan = heap[mem].plan
        /\ heap'[mem].files = heap[mem].files
    BY <1>1 DEF SetStatus, Base, TypeInv, TypeOK, State
  <1>3. \A d \in Clients : d = c
    BY DEF Base, Serial
  <1>4. row # None
    BY <1>3 DEF Base, Parts, Rowed
  <1>5. CASE k
    <2>1. Suspend(c, "keys", mem) /\ UNCHANGED <<runs, past>> /\ "keys" \in CallPc
      BY <1>5 DEF Launch, CallPc
    <2>2. calls'[c].pc = "keys"
      BY <2>1, SuspendLemma DEF Base, TypeInv, TypeOK
    <2>3. Alone' /\ Held' /\ Rowed' /\ Saved' /\ Snapped' /\ Planned'
      BY <1>2, <1>4, <2>1
         DEF Base, Parts, Alone, Held, Rowed, Saved, Snapped, Planned, Sure, Undisturbed, Idle
    <2>4. \A d \in Clients : Reads(d)'
      BY <1>3, <2>2 DEF Reads
    <2> QED BY <2>3, <2>4 DEF Parts
  <1>6. CASE ~k
    <2>1. Answer(c) /\ Spawn("iterate", mem, {}) /\ "iterate" \in RunKind
      BY <1>6 DEF Launch, RunKind
    <2>2. calls'[c].pc = "idle"
      BY <2>1, AnswerLemma DEF Base, TypeInv, TypeOK
    <2>3. "buildFailed" \notin past => (heap[mem].plan <=> row.plan)
      BY <1>4, <2>1, SpawnAlone DEF Base, Parts, Planned
    <2> QED BY <1>2, <1>4, <2>1, <2>2, <2>3, DurableSpawn
  <1> QED BY <1>5, <1>6

\* Every request keeps them.
LEMMA RequestDurable ==
  ASSUME Base, Undisturbed', NEW c \in Clients, Request(c)
  PROVE  Parts'
  <1>0. \A d \in Clients : d = c
    BY DEF Base, Serial
  <1>1. CASE Generate(c)
    <2>1. PICK o \in Fresh, b \in Backends :
            /\ mem' = o /\ Store(o, Blank)
            /\ calls' = [calls EXCEPT ![c] =
                 [NoCall EXCEPT !.pc = "inserting", !.obj = o, !.row = NewRow(b)]]
      BY <1>1 DEF Generate
    <2>2. o \in Objects /\ heap'[o] = Blank /\ Blank.status = "running" /\ ~Blank.plan
      BY <2>1, StoreLemma, RecordTypes DEF Fresh, Base, TypeInv, TypeOK, Blank
    <2>3. calls'[c].pc = "inserting" /\ ~calls'[c].row.plan
      BY <2>1 DEF Base, TypeInv, TypeOK, NoCall, NewRow
    <2>4. AllIdle /\ ~known /\ row = None /\ UNCHANGED <<row, current, runs, known>>
      BY <1>1 DEF Generate, Base, OnceInv, Unanswered, Parts, Rowed, database
    <2>5. Alone' /\ Held' /\ Rowed' /\ Saved' /\ Snapped' /\ Planned'
      BY <2>1, <2>2, <2>3, <2>4
         DEF AllIdle, Alone, Held, Rowed, Saved, Snapped, Planned, Idle
    <2>6. \A d \in Clients : Reads(d)'
      BY <1>0, <2>1, <2>2, <2>3 DEF Reads
    <2> QED BY <2>5, <2>6 DEF Parts
  <1>2. CASE ApprovePlan(c)
    <2>1. /\ mem \in Objects /\ mem # None /\ "running" \in Status /\ "build" \in RunKind
          /\ calls[c].pc = "idle" /\ known /\ Spawn("build", mem, {"built"})
      BY <1>2 DEF ApprovePlan, Ready, NoCall, Base, TypeInv, TypeOK, Status, RunKind
    <2>2. heap'[mem].status = "running" /\ heap'[mem].plan = heap[mem].plan
      BY <1>2, <2>1, SetStatusLemma DEF ApprovePlan, Base, TypeInv, TypeOK
    <2>3. row # None
      BY <1>0, <2>1 DEF Base, Parts, Rowed
    <2> QED BY <1>2, <2>1, <2>2, <2>3, DurableSpawn DEF ApprovePlan, database
  <1>3. ASSUME NEW k \in BOOLEAN, Iterate(c, k) PROVE Parts'
    <2>1. /\ mem \in Objects /\ mem # None /\ known /\ calls[c].pc = "idle"
          /\ heap[mem].status # "awaiting_approval"
      BY <1>3 DEF Iterate, MayIterate, Ready, NoCall, Base, TypeInv, TypeOK
    <2>2. CASE Remote
      <3>1. Suspend(c, "stopping", mem) /\ UNCHANGED <<heap, runs, past>> /\ "stopping" \in CallPc
        BY <1>3, <2>2 DEF Iterate, CallPc
      <3>2. calls'[c].pc = "stopping"
        BY <2>1, <3>1, SuspendLemma DEF Base, TypeInv, TypeOK
      <3> QED BY <1>3, <2>1, <3>1, <3>2, DurableStill DEF Iterate, database
    <2>3. CASE ~Remote
      BY <1>3, <2>1, <2>3, DurableLaunch DEF Iterate, database
    <2> QED BY <2>2, <2>3
  <1>4. CASE Chat(c)
    <2>1. /\ mem \in Objects /\ known /\ calls[c].pc = "idle"
          /\ Suspend(c, "asking", mem) /\ "asking" \in CallPc
      BY <1>4 DEF Chat, Ready, NoCall, Base, TypeInv, TypeOK, CallPc
    <2>2. calls'[c].pc = "asking"
      BY <2>1, SuspendLemma DEF Base, TypeInv, TypeOK
    <2> QED BY <1>4, <2>1, <2>2, DurableStill DEF Chat, memory, database
  <1>5. ASSUME NEW f \in Files, SetFiles(mem, f), mem # None, Record({"unsaved"}), calls[c].pc = "idle",
               UNCHANGED <<mem, row, current, runs, calls, known>>
        PROVE  Parts'
    <2>1. "unsaved" \in past' /\ past \subseteq past'
      BY <1>5 DEF Record, Base, Tracked
    <2>2. mem \in Objects /\ heap'[mem].plan = heap[mem].plan /\ heap'[mem].status = heap[mem].status
      BY <1>5 DEF SetFiles, Base, TypeInv, TypeOK, State
    <2>3. Alone' /\ Held' /\ Rowed' /\ Saved' /\ Snapped' /\ Planned'
      BY <1>5, <2>1, <2>2 DEF Base, Parts, Alone, Held, Rowed, Saved, Snapped, Planned, Sure, Idle
    <2>4. \A d \in Clients : Reads(d)'
      BY <1>0, <1>5 DEF Reads
    <2> QED BY <2>3, <2>4 DEF Parts
  <1>6. ASSUME NEW f \in Files, UpdateFiles(c, f) PROVE Parts'
    BY <1>5, <1>6 DEF UpdateFiles, Ready, NoCall, database
  <1>7. ASSUME NEW f \in history, CheckoutInMemory(c, f) PROVE Parts'
    <2>1. f \in Files
      BY DEF Base, TypeInv, TypeOK
    <2> QED BY <1>5, <1>7, <2>1 DEF CheckoutInMemory, Ready, NoCall, database
  <1>8. ASSUME NEW f \in versions, Checkout(c, f) PROVE Parts'
    <2>1. AllIdle /\ past \subseteq past'
      BY <1>8 DEF Checkout, Record, Overlap, AllIdle, Base, Tracked, Undisturbed
    <2>2. /\ calls'[c].pc = "applying" /\ calls'[c].files = f /\ calls[c].pc = "idle"
          /\ current' = f /\ known /\ UNCHANGED <<mem, heap, row, runs, known>>
      BY <1>8 DEF Checkout, Ready, Base, TypeInv, TypeOK, NoCall, memory
    <2>3. Alone' /\ Held' /\ Rowed' /\ Saved' /\ Snapped' /\ Planned'
      BY <1>0, <2>1, <2>2
         DEF AllIdle, Base, Parts, Alone, Held, Rowed, Saved, Snapped, Planned, Sure, Idle
    <2>4. \A d \in Clients : Reads(d)'
      BY <1>0, <2>1, <2>2 DEF Reads, AllIdle, Idle
    <2> QED BY <2>3, <2>4 DEF Parts
  <1>9. CASE Restore(c)
    <2>1. mem = None /\ row # None /\ AllIdle /\ known
      BY <1>9, WorksForSession DEF Restore, Ready
    <2>2. /\ calls'[c].pc = "loading" /\ calls'[c].row = row
          /\ UNCHANGED <<mem, heap, row, current, runs, known, past>>
      BY <1>9 DEF Restore, Base, TypeInv, TypeOK, NoCall, memory, database
    <2>3. Alone' /\ Held' /\ Rowed' /\ Saved' /\ Snapped' /\ Planned'
      BY <2>1, <2>2 DEF AllIdle, Alone, Held, Rowed, Saved, Snapped, Planned, Idle
    <2>4. \A d \in Clients : Reads(d)'
      BY <1>0, <2>1, <2>2 DEF Reads, AllIdle, Idle
    <2> QED BY <2>3, <2>4 DEF Parts
  <1>10. CASE Delete(c)
    <2>1. /\ calls'[c].pc = "popping" /\ known /\ row' = None
          /\ UNCHANGED <<mem, heap, runs, known, past>>
      BY <1>10, SuspendLemma DEF Delete, Ready, CallPc, Base, TypeInv, TypeOK, memory
    <2>2. Alone' /\ Held' /\ Rowed' /\ Saved' /\ Snapped' /\ Planned'
      BY <1>0, <2>1
         DEF Base, Parts, Alone, Held, Rowed, Saved, Snapped, Planned, Sure, Undisturbed, Idle
    <2>3. \A d \in Clients : Reads(d)'
      BY <1>0, <2>1 DEF Reads
    <2> QED BY <2>2, <2>3 DEF Parts
  <1> QED BY <1>1, <1>2, <1>3, <1>4, <1>6, <1>7, <1>8, <1>9, <1>10 DEF Request

\* So does every handler that resumes.
LEMMA ResumeDurable ==
  ASSUME Base, Undisturbed', NEW c \in Clients, Resume(c)
  PROVE  Parts'
  <1>0. (\A d \in Clients : d = c) /\ HandlerInv(c) /\ Reads(c)
    BY DEF Base, Serial, SerialInv, Parts
  <1>1. CASE GenerateInserted(c)
    <2>1. /\ mem \in Objects /\ calls[c].obj = mem /\ heap[mem].status = "running"
          /\ ~heap[mem].plan /\ ~calls[c].row.plan /\ calls[c].row \in Row /\ "plan" \in RunKind
      BY <1>0, <1>1
         DEF GenerateInserted, HandlerInv, Reads, Base, TypeInv, RefInv, CallRef, RunKind
    <2>2. PICK e \in {{}, {"fault"}} :
            Spawn("plan", mem, e) /\ (e = {} => row' = calls[c].row)
      BY <1>1, <2>1 DEF GenerateInserted
    <2>3. e = {}
      BY <2>1, <2>2, SpawnAlone DEF Base, Tracked, Undisturbed
    <2>4. row' # None /\ (heap[mem].plan <=> row'.plan)
      BY <2>1, <2>2, <2>3, RowAssumption
    <2>5. calls'[c].pc = "idle"
      BY <1>1, AnswerLemma DEF GenerateInserted, Base, TypeInv, TypeOK
    <2> QED BY <1>1, <2>1, <2>2, <2>4, <2>5, DurableSpawn DEF GenerateInserted, memory
  <1>2. ASSUME NEW k \in BOOLEAN, IterateStopped(c, k) PROVE Parts'
    <2>1. /\ mem \in Objects /\ mem # None /\ calls[c].obj = mem /\ known
          /\ heap[mem].status # "awaiting_approval"
      BY <1>0, <1>2, ConstantsAssumption
         DEF IterateStopped, HandlerInv, Reads, Base, TypeInv, RefInv, CallRef
    <2> QED BY <1>2, <2>1, DurableLaunch DEF IterateStopped, database
  <1>3. CASE IterateKeyRead(c)
    <2>1. /\ mem \in Objects /\ mem # None /\ calls[c].obj = mem /\ known
          /\ heap[mem].status = "running" /\ "iterate" \in RunKind /\ Spawn("iterate", mem, {})
      BY <1>0, <1>3, ConstantsAssumption
         DEF IterateKeyRead, HandlerInv, Base, TypeInv, RefInv, CallRef, RunKind
    <2>2. row # None
      BY <1>0, <1>3, <2>1 DEF IterateKeyRead, Base, Parts, Rowed
    <2>3. "buildFailed" \notin past => (heap[mem].plan <=> row.plan)
      BY <2>1, <2>2, SpawnAlone DEF Base, Parts, Planned
    <2>4. calls'[c].pc = "idle"
      BY <1>3, AnswerLemma DEF IterateKeyRead, Base, TypeInv, TypeOK
    <2> QED BY <1>3, <2>1, <2>2, <2>3, <2>4, DurableSpawn DEF IterateKeyRead, memory, database
  <1>4. CASE ChatReplied(c)
    <2>1. calls'[c].pc = "idle" /\ known
      BY <1>0, <1>4, AnswerLemma DEF ChatReplied, HandlerInv, Base, TypeInv, TypeOK
    <2> QED BY <1>4, <2>1, DurableStill DEF ChatReplied, memory, database
  <1>5. CASE ChatIterates(c)
    <2>1. /\ mem \in Objects /\ mem # None /\ calls[c].obj = mem /\ known
          /\ heap[mem].status # "awaiting_approval"
      BY <1>0, <1>5, ConstantsAssumption
         DEF ChatIterates, HandlerInv, Base, TypeInv, RefInv, CallRef
    <2>2. CASE Remote
      <3>1. /\ Suspend(c, "chatStopping", mem) /\ UNCHANGED <<heap, runs, past>>
            /\ "chatStopping" \in CallPc
        BY <1>5, <2>1, <2>2 DEF ChatIterates, CallPc
      <3>2. calls'[c].pc = "chatStopping"
        BY <2>1, <3>1, SuspendLemma DEF Base, TypeInv, TypeOK
      <3> QED BY <1>5, <2>1, <3>1, <3>2, DurableStill DEF ChatIterates, database
    <2>3. CASE ~Remote
      <3>1. PICK k \in BOOLEAN : Launch(c, calls[c].obj, k)
        BY <1>5, <2>3, Zenon DEF ChatIterates
      <3> QED BY <1>5, <2>1, <3>1, DurableLaunch DEF ChatIterates, database
    <2> QED BY <2>2, <2>3
  <1>6. CASE ChatStopped(c)
    <2>1. /\ mem \in Objects /\ mem # None /\ calls[c].obj = mem /\ known
          /\ heap[mem].status # "awaiting_approval"
      BY <1>0, <1>6, ConstantsAssumption
         DEF ChatStopped, HandlerInv, Reads, Base, TypeInv, RefInv, CallRef
    <2>2. PICK k \in BOOLEAN : Launch(c, calls[c].obj, k)
      BY <1>6, Zenon DEF ChatStopped
    <2> QED BY <1>6, <2>1, <2>2, DurableLaunch DEF ChatStopped, database
  <1>7. CASE CheckoutApplied(c)
    <2>1. AllIdle /\ calls[c].files = current /\ calls[c].pc = "applying" /\ known
      BY <1>0, <1>7 DEF CheckoutApplied, Reads, HandlerInv
    <2>2. calls'[c].pc = "idle" /\ UNCHANGED <<mem, row, current, runs, known>>
      BY <1>7, AnswerLemma DEF CheckoutApplied, Base, TypeInv, TypeOK, database
    <2>3. /\ past \ {"unsaved"} \subseteq past'
          /\ mem # None => /\ heap'[mem].files = current /\ heap'[mem].plan = heap[mem].plan
                           /\ heap'[mem].status = heap[mem].status
      BY <1>7, <2>1 DEF CheckoutApplied, SetFiles, Base, TypeInv, TypeOK, State
    <2>4. Alone' /\ Held' /\ Rowed' /\ Saved' /\ Snapped' /\ Planned'
      BY <1>0, <2>1, <2>2, <2>3
         DEF AllIdle, Base, Parts, Alone, Held, Rowed, Saved, Snapped, Planned, Idle
    <2>5. \A d \in Clients : Reads(d)'
      BY <1>0, <2>2 DEF Reads
    <2> QED BY <2>4, <2>5 DEF Parts
  <1>8. CASE RestoreLoaded(c)
    <2>1. /\ calls'[c].pc = "installing" /\ calls'[c].files = current
          /\ calls'[c].row = calls[c].row
          /\ UNCHANGED <<mem, heap, row, current, runs, known, past>>
      BY <1>8 DEF RestoreLoaded, Base, TypeInv, TypeOK, CallRecord, memory, database
    <2>2. AllIdle /\ row # None /\ calls[c].row = row /\ known /\ calls[c].pc = "loading"
      BY <1>0, <1>8 DEF RestoreLoaded, Reads, HandlerInv
    <2>3. Alone' /\ Held' /\ Rowed' /\ Saved' /\ Snapped' /\ Planned'
      BY <1>0, <2>1, <2>2
         DEF AllIdle, Base, Parts, Alone, Held, Rowed, Saved, Snapped, Planned, Sure,
             Undisturbed, Idle
    <2>4. \A d \in Clients : Reads(d)'
      BY <1>0, <2>1, <2>2 DEF Reads, AllIdle, Idle
    <2> QED BY <2>3, <2>4 DEF Parts
  <1>9. CASE RestoreInstalled(c)
    <2>1. /\ AllIdle /\ row # None /\ calls[c].row = row /\ calls[c].files = current /\ known
          /\ calls[c].row \in Row /\ calls[c].files \in FileSets
      BY <1>0, <1>9
         DEF RestoreInstalled, Reads, HandlerInv, Base, TypeInv, TypeOK, RefInv, CallRef, CallRecord
    <2> DEFINE s == [status |-> "done", plan |-> row.plan, files |-> current]
    <2>2. s \in State /\ s.files = current /\ s.plan = row.plan
      BY <2>1 DEF State, Status, Row
    <2>3. PICK o \in Objects : mem' = o /\ Store(o, s)
      BY <1>9, <2>1 DEF RestoreInstalled, Fresh
    <2> HIDE DEF s
    <2>4. heap'[mem'].files = current /\ heap'[mem'].plan = row.plan
      BY <2>2, <2>3, StoreLemma DEF Base, TypeInv, TypeOK
    <2>5. calls'[c].pc = "idle" /\ UNCHANGED <<row, current, runs, known>>
      BY <1>9, AnswerLemma DEF RestoreInstalled, Base, TypeInv, TypeOK, database
    <2>6. Alone' /\ Held' /\ Rowed' /\ Saved' /\ Snapped' /\ Planned'
      BY <2>1, <2>4, <2>5 DEF AllIdle, Alone, Held, Rowed, Saved, Snapped, Planned, Idle
    <2>7. \A d \in Clients : Reads(d)'
      BY <1>0, <2>5 DEF Reads
    <2> QED BY <2>6, <2>7 DEF Parts
  <1>10. CASE DeletePopped(c)
    BY <1>10 DEF DeletePopped, Record, Base, Tracked, Undisturbed
  <1> QED BY <1>1, <1>2, <1>3, <1>4, <1>5, <1>6, <1>7, <1>8, <1>9, <1>10 DEF Resume

\* So does every step of a task.
LEMMA AdvanceDurable ==
  ASSUME Base, Undisturbed', NEW r \in Runs, Advance(r)
  PROVE  Parts'
  <1>0. /\ ~Idle(r) /\ ~AllIdle /\ known
        /\ \A q \in Runs : q # r => Idle(q) /\ runs[q].kind = "none"
    <2>1. ~Idle(r)
      BY DEF Advance, PlanReady, RunFailed, RunLost, RunReturned, Prepare, Commit,
             PersistFailed, Tell, Working, Idle
    <2> QED BY <2>1 DEF Base, Parts, Alone, AllIdle, OnceInv, Unanswered, Planning
  <1>1. ASSUME NEW c \in Clients
        PROVE  calls[c].pc \notin {"inserting", "loading", "installing", "applying"}
    BY <1>0 DEF Base, Parts, Reads, OnceInv, Unanswered, Inserting
  <1>2. ASSUME Working(r), NEW c \in Clients
        PROVE  calls[c].pc \notin {"stopping", "chatStopping"}
    BY <1>2 DEF Base, SerialInv, HandlerInv, NobodyWorks
  <1>3. CASE PlanReady(r)
    <2>1. /\ mem # None /\ heap'[mem].status = "awaiting_approval" /\ Working(r)
          /\ UNCHANGED <<mem, row, calls, known>>
      BY <1>3 DEF PlanReady, Base, TypeInv, TypeOK, State, database
    <2>2. \A q \in Runs : Idle(q)'
      BY <1>0, <1>3, FinishLemma DEF PlanReady, Base, TypeInv, Idle
    <2>3. Alone' /\ Held' /\ Rowed' /\ Saved' /\ Snapped' /\ Planned'
      BY <2>1, <2>2 DEF Base, Parts, Alone, Held, Rowed, Saved, Snapped, Planned, Idle
    <2>4. \A c \in Clients : Reads(c)'
      BY <1>1, <1>2, <2>1 DEF Reads
    <2> QED BY <2>3, <2>4 DEF Parts
  <1>4. CASE RunFailed(r)
    <2>1. /\ mem \in Objects /\ mem # None /\ "error" \in Status /\ Working(r)
          /\ heap[mem].status = "running" /\ UNCHANGED <<mem, row, calls, known>>
      BY <1>4, WorksForSession DEF RunFailed, Status, database
    <2>2. heap'[mem].status = "error" /\ heap'[mem].plan = heap[mem].plan
      BY <1>4, <2>1, SetStatusLemma DEF RunFailed, Base, TypeInv, TypeOK
    <2>3. \A q \in Runs : Idle(q)'
      BY <1>0, <1>4, FinishLemma DEF RunFailed, Base, TypeInv, Idle
    <2>4. past \subseteq past' /\ (runs[r].kind = "build" => "buildFailed" \in past')
      BY <1>4 DEF RunFailed, Finish, Record, Base, Tracked
    <2>5. Alone' /\ Held' /\ Rowed' /\ Saved' /\ Snapped'
      BY <2>1, <2>2, <2>3 DEF Base, Parts, Alone, Held, Rowed, Saved, Snapped, Idle
    <2>6. Planned'
      BY <1>0, <2>1, <2>2, <2>4 DEF Base, Parts, Planned
    <2>7. \A c \in Clients : Reads(c)'
      BY <1>1, <1>2, <2>1 DEF Reads
    <2> QED BY <2>5, <2>6, <2>7 DEF Parts
  <1>5. CASE RunLost(r)
    BY <1>0, <1>5, WorksForSession DEF RunLost
  <1>6. ASSUME NEW f \in Files, RunReturned(r, f) PROVE Parts'
    <2>1. Working(r) /\ mem \in Objects /\ mem = runs[r].obj /\ heap[mem].status = "running"
      BY <1>6, WorksForSession DEF RunReturned
    <2> DEFINE s == [status |-> "done", plan |-> heap[mem].plan, files |-> f]
    <2>2. s \in State /\ s.plan = heap[mem].plan
      BY <2>1 DEF State, Status, FileSets, Base, TypeInv, TypeOK
    <2>3. PICK o \in Objects : mem' = o /\ Store(o, s)
      BY <1>6, <2>1 DEF RunReturned, Fresh
    <2> HIDE DEF s
    <2>4. heap'[mem'].plan = heap[mem].plan
      BY <2>2, <2>3, StoreLemma DEF Base, TypeInv, TypeOK
    <2>5. /\ runs'[r].pc = "persisting" /\ runs'[r].obj = mem'
          /\ \A q \in Runs : q # r => runs'[q] = runs[q]
          /\ UNCHANGED <<row, calls, known>>
      BY <1>6, RunReturnedLemma DEF Base
    <2>6. runs'[r].kind = runs[r].kind /\ past \ {"unsaved"} \subseteq past'
      BY <1>6 DEF RunReturned, Base, TypeInv, TypeOK, RunRecord
    <2>7. Alone' /\ Held' /\ Rowed' /\ Saved' /\ Snapped'
      BY <1>0, <2>1, <2>5, ConstantsAssumption
         DEF Base, Parts, Alone, Held, Rowed, Saved, Snapped, Idle
    <2>8. Planned'
      BY <1>0, <2>1, <2>4, <2>5, <2>6, ConstantsAssumption DEF Base, Parts, Planned
    <2>9. \A c \in Clients : Reads(c)'
      BY <1>1, <1>2, <2>1, <2>5 DEF Reads
    <2> QED BY <2>7, <2>8, <2>9 DEF Parts
  <1>7. CASE Prepare(r)
    <2>1. mem = runs[r].obj /\ mem \in Objects /\ mem # None
      BY <1>7, ConstantsAssumption
         DEF Prepare, Base, Parts, Held, TypeInv, RefInv, RunRef
    <2>2. /\ runs'[r].pc = "committing" /\ runs'[r].snap = heap[mem].files
          /\ runs'[r].obj = runs[r].obj /\ runs'[r].kind = runs[r].kind
          /\ \A q \in Runs : q # r => runs'[q] = runs[q]
      BY <1>7, <2>1 DEF Prepare, Base, TypeInv, TypeOK, RunRecord
    <2>3. UNCHANGED <<mem, heap, calls, known>> /\ past \ {"unsaved"} \subseteq past'
      BY <1>7 DEF Prepare, memory
    <2>4. /\ row = None => row' = None
          /\ row # None => row' # None
          /\ row # None /\ runs[r].kind = "build" => row'.plan = heap[mem].plan
          /\ runs[r].kind # "build" => row' = row
      <3>1. heap[mem].plan \in BOOLEAN /\ (row # None => row \in Row)
        BY <2>1 DEF Base, TypeInv, TypeOK, State
      <3> QED BY <1>7, <2>1, <3>1, RowAssumption DEF Prepare, Row
    <2>5. Alone' /\ Held' /\ Rowed' /\ Saved' /\ Snapped'
      BY <1>0, <2>1, <2>2, <2>3, <2>4
         DEF Base, Parts, Alone, Held, Rowed, Saved, Snapped, Idle
    <2>6. Planned'
      BY <1>0, <1>7, <2>1, <2>2, <2>3, <2>4 DEF Prepare, Base, Parts, Planned
    <2>7. \A c \in Clients : Reads(c)'
      BY <1>1, <2>3 DEF Base, Parts, Reads
    <2> QED BY <2>5, <2>6, <2>7 DEF Parts
  <1>8. CASE Commit(r)
    <2>1. /\ runs[r].pc = "committing" /\ current' = runs[r].snap
          /\ UNCHANGED <<mem, heap, row, calls, known, past>>
      BY <1>8 DEF Commit, memory
    <2>2. /\ runs'[r].pc = "telling" /\ runs'[r].obj = runs[r].obj
          /\ \A q \in Runs : q # r => runs'[q] = runs[q]
      BY <1>8, TellingLemma DEF Commit, Base, TypeInv
    <2>3. runs'[r].kind = runs[r].kind
      BY <1>8 DEF Commit, Base, TypeInv, TypeOK, RunRecord
    <2>4. Alone' /\ Held' /\ Rowed' /\ Saved' /\ Snapped'
      BY <1>0, <2>1, <2>2
         DEF Base, Parts, Alone, Held, Rowed, Saved, Snapped, Sure, Undisturbed, Idle
    <2>5. Planned'
      BY <2>1, <2>2, <2>3 DEF Base, Parts, Planned
    <2>6. \A c \in Clients : Reads(c)'
      BY <1>1, <2>1 DEF Base, Parts, Reads
    <2> QED BY <2>4, <2>5, <2>6 DEF Parts
  <1>9. CASE PersistFailed(r)
    BY <1>9 DEF PersistFailed, Record, Base, Tracked, Undisturbed
  <1>10. CASE Tell(r)
    <2>1. /\ runs[r].pc = "telling" /\ UNCHANGED <<mem, heap, row, current, calls, known>>
          /\ past \subseteq past'
      BY <1>10 DEF Tell, Finish, Record, memory, database
    <2>2. \A q \in Runs : Idle(q)'
      BY <1>0, <1>10, FinishLemma DEF Tell, Base, TypeInv, Idle
    <2>3. Alone' /\ Held' /\ Rowed' /\ Saved' /\ Snapped'
      BY <1>0, <2>1, <2>2
         DEF Base, Parts, Alone, Held, Rowed, Saved, Snapped, Sure, Undisturbed, Idle
    <2>4. Planned'
      BY <1>0, <2>1 DEF Base, Parts, Planned
    <2>5. \A c \in Clients : Reads(c)'
      BY <1>1, <2>1 DEF Base, Parts, Reads
    <2> QED BY <2>3, <2>4, <2>5 DEF Parts
  <1> QED BY <1>3, <1>4, <1>5, <1>6, <1>7, <1>8, <1>9, <1>10 DEF Advance

\* With one request in flight at a time every step keeps them.
LEMMA NextDurable ==
  ASSUME Serial, Tracked, TypeInv, SerialInv, OnceInv, DurableInv, [Next]_vars
  PROVE  DurableInv'
  <1> SUFFICES ASSUME Undisturbed' PROVE Parts'
    BY DEF DurableInv
  <1>1. Undisturbed
    <2>1. ASSUME NEW e, Record(e) PROVE past \subseteq past'
      BY <2>1 DEF Record
    <2>2. ASSUME NEW kind, NEW o, NEW e, Spawn(kind, o, e) PROVE past \subseteq past'
      BY <2>1, <2>2 DEF Spawn
    <2>3. ASSUME NEW c, NEW o, NEW k, Launch(c, o, k) PROVE past \subseteq past'
      BY <2>2, <2>3 DEF Launch
    <2>4. ASSUME NEW c \in Clients, Request(c) PROVE past \subseteq past'
      BY <2>1, <2>2, <2>3, <2>4
         DEF Request, Generate, ApprovePlan, Iterate, Chat, UpdateFiles, Checkout,
             CheckoutInMemory, Restore, Delete
    <2>5. ASSUME NEW c \in Clients, Resume(c) PROVE past \ {"unsaved"} \subseteq past'
      BY <2>1, <2>2, <2>3, <2>5
         DEF Resume, GenerateInserted, IterateStopped, IterateKeyRead, ChatReplied, ChatIterates,
             ChatStopped, CheckoutApplied, RestoreLoaded, RestoreInstalled, DeletePopped
    <2>6. ASSUME NEW r \in Runs, Advance(r) PROVE past \ {"unsaved"} \subseteq past'
      BY <2>1, <2>6
         DEF Advance, PlanReady, RunFailed, RunLost, RunReturned, Prepare, Commit,
             PersistFailed, Tell, Finish
    <2>7. past \ {"unsaved"} \subseteq past'
      BY <2>4, <2>5, <2>6 DEF Next, CrewWritesFiles, Restart, vars
    <2> QED BY <2>7 DEF Undisturbed
  <1>2. Base
    BY <1>1 DEF Base, DurableInv
  <1>3. ASSUME NEW r \in Runs, NEW f \in Files, CrewWritesFiles(r, f) PROVE Parts'
    <2>1. /\ Working(r) /\ mem \in Objects /\ mem = runs[r].obj /\ heap[mem].status = "running"
          /\ UNCHANGED <<mem, row, current, runs, calls, known, past>>
      BY <1>2, <1>3, WorksForSession DEF CrewWritesFiles, database
    <2>2. heap'[mem].status = heap[mem].status /\ heap'[mem].plan = heap[mem].plan
      BY <1>3, <2>1 DEF CrewWritesFiles, SetFiles, TypeInv, TypeOK, State
    <2>3. \A q \in Runs : runs[q].pc # "committing"
      BY <1>2, <2>1 DEF Base, Parts, Alone, Idle, Working
    <2>4. Alone' /\ Held' /\ Rowed' /\ Saved' /\ Snapped' /\ Planned'
      BY <1>2, <2>1, <2>2, <2>3
         DEF Base, Parts, Alone, Held, Rowed, Saved, Snapped, Planned, Idle
    <2>5. \A c \in Clients : Reads(c)'
      BY <1>2, <2>1, <2>2 DEF Base, Parts, Reads, AllIdle, Idle
    <2> QED BY <2>4, <2>5 DEF Parts
  <1>4. CASE Restart
    <2>1. NoRun.pc = "idle" /\ NoCall.pc = "idle"
      BY DEF NoRun, NoCall
    <2> QED BY <1>2, <1>4, <2>1
            DEF Restart, database, Base, Parts, Alone, Held, Rowed, Saved, Snapped, Planned,
                Reads, Idle
  <1>5. CASE UNCHANGED vars
    BY <1>2, <1>5
       DEF vars, Base, Parts, Alone, Held, Rowed, Saved, Snapped, Planned, Reads, AllIdle,
           Sure, Undisturbed, Idle
  <1> QED BY <1>2, <1>3, <1>4, <1>5, RequestDurable, ResumeDurable, AdvanceDurable DEF Next

\* With one request in flight at a time, whatever is generated, edited, rolled
\* back, iterated, failed or restarted: when nothing is in flight and nothing
\* excuses a difference, a restart would give the session back as it is.
THEOREM DoneSurvives == Serial /\ Tracked => (Spec => []DoneIsDurable)
  <1> SUFFICES ASSUME Serial, Tracked PROVE Spec => []DoneIsDurable
    OBVIOUS
  <1>1. Spec => [](TypeInv /\ SerialInv /\ OnceInv /\ DurableInv)
    BY InitTypeInv, NextTypeInv, InitSerialInv, NextSerialInv, InitOnceInv, NextOnce,
       InitDurable, NextDurable, PTL DEF Spec
  <1>2. TypeInv /\ DurableInv => DoneIsDurable
    <2> SUFFICES ASSUME DurableInv, Quiescent, mem # None,
                        past \cap {"fault", "overlap", "deleted", "unsaved"} = {}
                 PROVE  /\ row # None
                        /\ heap[mem].status = "done" => current = heap[mem].files
                        /\ "buildFailed" \notin past /\ heap[mem].status = "done" =>
                             (heap[mem].plan <=> row.plan)
      BY DEF DoneIsDurable
    <2>1. Sure /\ Parts
      BY DEF Sure, Undisturbed, DurableInv
    <2>2. row # None
      BY <2>1 DEF Parts, Rowed, Quiescent
    <2> QED BY <2>1, <2>2 DEF Parts, Saved, Planned, Quiescent, Idle
  <1> QED BY <1>1, <1>2, PTL

---------------------------------------------------------------------------
(* What a step looks like from outside: which dict is the session's, the   *)
(* statuses, the tasks at work and the handlers about to create one.  The  *)
(* actions come in a dozen shapes; what follows is proved shape by shape.  *)

Pending(c) == calls[c].pc \in {"inserting", "keys"}
Gone == "deleted" \in past

StatusKept(x) == heap'[x].status = heap[x].status
StatusReset(x) == heap'[x].status \in {heap[x].status, "running"}
TaskKept(r) == /\ Working(r)' <=> Working(r)
               /\ Working(r) => runs'[r].obj = runs[r].obj /\ runs'[r].kind = runs[r].kind
CallKept(c) == /\ Pending(c)' <=> Pending(c)
               /\ Pending(c) => calls'[c].pc = calls[c].pc /\ calls'[c].obj = calls[c].obj
TasksKept == \A r \in Runs : TaskKept(r)
CallsKept == \A c \in Clients : CallKept(c)
TaskBegins(r, o) == /\ ~Working(r) /\ Working(r)' /\ runs'[r].obj = o
                    /\ \A q \in Runs : q # r => TaskKept(q)
TaskEnds(r) == /\ Working(r) /\ ~Working(r)'
               /\ \A q \in Runs : q # r => TaskKept(q)
Elsewhere == mem' = mem /\ known' = known /\ (Gone' <=> Gone)

\* Nothing to be seen.
Unmoved == Elsewhere /\ TasksKept /\ CallsKept /\ \A x \in Objects : StatusKept(x)

\* POST /generate.
Generated(c) ==
  /\ ~known /\ mem = None /\ known' = known /\ (Gone' <=> Gone)
  /\ mem' \in Objects /\ heap'[mem'].status = "running"
  /\ \A x \in Objects : StatusReset(x)
  /\ TasksKept
  /\ ~Pending(c) /\ calls'[c].pc = "inserting" /\ calls'[c].obj = mem'
  /\ \A d \in Clients : d # c => CallKept(d)

\* A handler has marked the dict o; the task is there, or will be.
Started(c, o) ==
  /\ Elsewhere /\ known
  /\ heap'[o].status = "running"
  /\ \A x \in Objects : x # o => StatusKept(x)
  /\ ~Pending(c)
  /\ \/ calls'[c].pc = "keys" /\ calls'[c].obj = o /\ TasksKept
     \/ ~Pending(c)' /\ \E r \in Runs : TaskBegins(r, o) /\ runs'[r].kind # "plan"
  /\ \A d \in Clients : d # c => CallKept(d)
  /\ \/ mem = o /\ heap[o].status \in {"awaiting_approval", "done", "error"}
     \/ calls[c].pc = "asking" /\ calls[c].obj = o /\ heap[o].status = "done"
     \/ calls[c].pc \in {"stopping", "chatStopping"} /\ calls[c].obj = o

\* A handler about to create a task has created it.
HandedOver(c) ==
  /\ mem' = mem /\ known' /\ (Gone' <=> Gone)
  /\ \A x \in Objects : StatusKept(x)
  /\ Pending(c) /\ ~Pending(c)'
  /\ \E r \in Runs : /\ TaskBegins(r, calls[c].obj)
                     /\ runs'[r].kind = "plan" <=> calls[c].pc = "inserting"
  /\ \A d \in Clients : d # c => CallKept(d)

\* A planner has its plan, or a task fails.
Ended(r) ==
  /\ Elsewhere /\ TaskEnds(r) /\ CallsKept
  /\ mem # None
  /\ \/ heap'[mem].status = "awaiting_approval" /\ runs[r].kind = "plan"
     \/ heap'[mem].status = "error"
  /\ \A x \in Objects : x # mem => StatusKept(x)

EndedUnseen(r) ==
  /\ Elsewhere /\ TaskEnds(r) /\ CallsKept
  /\ mem = None /\ \A x \in Objects : StatusKept(x)

\* A dict that is done takes the place of the session's.
Placed == /\ mem' \in Objects /\ heap'[mem'].status = "done"
          /\ \A x \in Objects : x # mem' => StatusReset(x)
          /\ known' = known /\ (Gone' <=> Gone) /\ CallsKept

Returned(r)  == Placed /\ TaskEnds(r) /\ runs[r].kind # "plan"
Installed(c) == Placed /\ TasksKept /\ calls[c].pc = "installing"

Popped == /\ mem' = None /\ known' = known /\ known
          /\ "deleted" \in Recorded => Gone'
          /\ TasksKept /\ CallsKept /\ \A x \in Objects : StatusKept(x)

Restarted == /\ MayCrash /\ mem' = None /\ known' = known /\ (Gone' <=> Gone)
             /\ \A r \in Runs : ~Working(r)'
             /\ \A c \in Clients : calls'[c].pc = "idle"

Shape ==
  \/ Unmoved \/ Popped \/ Restarted
  \/ \E c \in Clients : Generated(c) \/ HandedOver(c) \/ Installed(c)
  \/ \E c \in Clients, o \in Objects : Started(c, o)
  \/ \E r \in Runs : Ended(r) \/ EndedUnseen(r) \/ Returned(r)

\* Creating a task deletes nothing.
LEMMA SpawnGone ==
  ASSUME NEW kind \in RunKind, NEW o \in Objects, NEW e, "deleted" \notin e,
         TypeOK, Spawn(kind, o, e)
  PROVE  Gone' <=> Gone
  <1>1. past \subseteq past' /\ past' \subseteq past \cup e \cup {"overlap"}
    BY SpawnKind
  <1> QED BY <1>1 DEF Gone

\* A handler marks a dict and creates the task or looks a key up.
LEMMA LaunchShape ==
  ASSUME TypeInv, NEW c \in Clients, NEW o \in Objects, NEW k \in BOOLEAN, Launch(c, o, k),
         mem' = mem, known' = known, known, ~Pending(c),
         \/ mem = o /\ heap[o].status \in {"awaiting_approval", "done", "error"}
         \/ calls[c].pc = "asking" /\ calls[c].obj = o /\ heap[o].status = "done"
         \/ calls[c].pc \in {"stopping", "chatStopping"} /\ calls[c].obj = o
  PROVE  Started(c, o)
  <1>1. Gone' <=> Gone
    <2>1. CASE k
      BY <2>1 DEF Launch, Gone
    <2>2. CASE ~k
      BY <2>2, SpawnGone DEF Launch, TypeInv, RunKind
    <2> QED BY <2>1, <2>2
  <1>2. CASE k
    <2>1. calls'[c].pc = "keys" /\ calls'[c].obj = o /\ UNCHANGED runs
      BY <1>2, SuspendLemma DEF Launch, TypeInv, TypeOK, CallPc
    <2> QED BY <1>1, <2>1, LaunchLemma
            DEF Started, Elsewhere, StatusKept, TasksKept, TaskKept, CallKept, Pending, Working
  <1>3. CASE ~k
    <2>1. Answer(c) /\ Spawn("iterate", o, {})
      BY <1>3 DEF Launch
    <2>2. PICK r \in Runs : /\ Idle(r) /\ runs'[r].pc = "working" /\ runs'[r].obj = o
                            /\ runs'[r].kind = "iterate"
                            /\ \A q \in Runs : q # r => runs'[q] = runs[q]
      BY <2>1, SpawnLemma DEF TypeInv, RunKind
    <2>3. TaskBegins(r, o) /\ runs'[r].kind # "plan"
      BY <2>2 DEF TaskBegins, TaskKept, Idle, Working
    <2>4. calls'[c].pc = "idle" /\ \A d \in Clients : d # c => calls'[d] = calls[d]
      BY <2>1, AnswerLemma DEF TypeInv, TypeOK
    <2> QED BY <1>1, <2>3, <2>4, LaunchLemma
            DEF Started, Elsewhere, StatusKept, CallKept, Pending
  <1> QED BY <1>2, <1>3

\* A step that ends no call beforehand and begins none.
LEMMA UnmovedLemma ==
  ASSUME mem' = mem, known' = known, Gone' <=> Gone,
         \A x \in Objects : StatusKept(x), runs' = runs,
         \A c \in Clients : \/ calls'[c] = calls[c]
                            \/ ~Pending(c) /\ ~Pending(c)'
  PROVE  Unmoved
  BY DEF Unmoved, Elsewhere, TasksKept, CallsKept, TaskKept, CallKept, Pending, Working

\* Every request has one of the shapes.
LEMMA RequestShape ==
  ASSUME TypeInv, NEW c \in Clients, Request(c)
  PROVE  Shape
  <1>1. CASE Generate(c)
    <2>1. PICK o \in Fresh, b \in Backends :
            /\ mem' = o /\ Store(o, Blank)
            /\ calls' = [calls EXCEPT ![c] =
                 [NoCall EXCEPT !.pc = "inserting", !.obj = o, !.row = NewRow(b)]]
      BY <1>1 DEF Generate
    <2>2. /\ heap'[o].status = "running" /\ o \in Objects
          /\ \A x \in Objects : StatusReset(x)
      BY <2>1, RecordTypes DEF Store, Fresh, StatusReset, Blank
    <2>3. /\ calls'[c].pc = "inserting" /\ calls'[c].obj = o
          /\ \A d \in Clients : d # c => calls'[d] = calls[d]
      BY <2>1 DEF TypeInv, TypeOK, NoCall
    <2>4. ~Pending(c)
      BY <1>1 DEF Generate, Pending, NoCall
    <2> QED BY <1>1, <2>1, <2>2, <2>3, <2>4
            DEF Generate, Shape, Generated, TasksKept, TaskKept, CallKept, Pending, Gone, Working
  <1>2. ASSUME Ready(c) PROVE known /\ ~Pending(c)
    BY <1>2 DEF Ready, Pending, NoCall
  <1>3. CASE ApprovePlan(c)
    <2>1. mem \in Objects /\ "build" \in RunKind /\ "running" \in Status
      BY <1>3 DEF ApprovePlan, TypeInv, TypeOK, RunKind, Status
    <2>2. /\ heap'[mem].status = "running"
          /\ \A x \in Objects : x # mem => StatusKept(x)
      BY <1>3, <2>1, SetStatusLemma DEF ApprovePlan, TypeInv, TypeOK, StatusKept
    <2>3. Spawn("build", mem, {"built"})
      BY <1>3 DEF ApprovePlan
    <2>4. PICK r \in Runs : /\ Idle(r) /\ runs'[r].pc = "working" /\ runs'[r].obj = mem
                            /\ runs'[r].kind = "build"
                            /\ \A q \in Runs : q # r => runs'[q] = runs[q]
      BY <2>1, <2>3, SpawnLemma DEF TypeInv
    <2>5. TaskBegins(r, mem) /\ runs'[r].kind # "plan"
      BY <2>4 DEF TaskBegins, TaskKept, Idle, Working
    <2>6. Gone' <=> Gone
      BY <2>1, <2>3, SpawnGone DEF TypeInv
    <2>7. Started(c, mem)
      BY <1>2, <1>3, <2>1, <2>2, <2>5, <2>6
         DEF ApprovePlan, Started, Elsewhere, CallKept, Pending
    <2> QED BY <2>1, <2>7 DEF Shape
  <1>4. ASSUME NEW k \in BOOLEAN, Iterate(c, k) PROVE Shape
    <2>1. mem \in Objects /\ known /\ ~Pending(c) /\ heap[mem].status \in {"done", "error"}
      BY <1>2, <1>4 DEF Iterate, MayIterate, TypeInv, TypeOK
    <2>2. CASE Remote
      <3>1. Suspend(c, "stopping", mem) /\ UNCHANGED <<heap, runs, past>> /\ "stopping" \in CallPc
        BY <1>4, <2>2 DEF Iterate, CallPc
      <3>2. \A d \in Clients : calls'[d] = calls[d] \/ (~Pending(d) /\ ~Pending(d)')
        BY <2>1, <3>1, SuspendLemma DEF Pending, TypeInv, TypeOK
      <3> QED BY <1>4, <3>1, <3>2, UnmovedLemma DEF Iterate, Shape, StatusKept, Gone
    <2>3. CASE ~Remote
      BY <1>4, <2>1, <2>3, LaunchShape DEF Iterate, Shape
    <2> QED BY <2>2, <2>3
  <1>5. CASE Chat(c)
    <2>1. mem \in Objects /\ Suspend(c, "asking", mem) /\ "asking" \in CallPc
      BY <1>5 DEF Chat, TypeInv, TypeOK, CallPc
    <2>2. \A d \in Clients : calls'[d] = calls[d] \/ (~Pending(d) /\ ~Pending(d)')
      BY <1>2, <1>5, <2>1, SuspendLemma DEF Chat, Pending, TypeInv, TypeOK
    <2> QED BY <1>5, <2>2, UnmovedLemma DEF Chat, memory, Shape, StatusKept, Gone
  <1>6. ASSUME NEW f \in Files, UpdateFiles(c, f) \/ CheckoutInMemory(c, f) PROVE Shape
    <2>1. \A x \in Objects : StatusKept(x)
      BY <1>6, SetFilesLemma DEF UpdateFiles, CheckoutInMemory, TypeInv, TypeOK, FileSets, StatusKept
    <2>2. Gone' <=> Gone
      BY <1>6 DEF UpdateFiles, CheckoutInMemory, Record, Gone
    <2> QED BY <1>6, <2>1, <2>2, UnmovedLemma DEF UpdateFiles, CheckoutInMemory, Shape
  <1>7. ASSUME NEW f \in versions, Checkout(c, f) PROVE Shape
    <2>1. /\ calls'[c].pc = "applying"
          /\ \A d \in Clients : d # c => calls'[d] = calls[d]
      BY <1>7 DEF Checkout, TypeInv, TypeOK, NoCall
    <2>2. Gone' <=> Gone
      BY <1>7 DEF Checkout, Record, Overlap, Gone
    <2> QED BY <1>2, <1>7, <2>1, <2>2, UnmovedLemma DEF Checkout, memory, Shape, StatusKept, Pending
  <1>8. CASE Restore(c)
    <2>1. /\ calls'[c].pc = "loading"
          /\ \A d \in Clients : d # c => calls'[d] = calls[d]
      BY <1>8 DEF Restore, TypeInv, TypeOK, NoCall
    <2> QED BY <1>2, <1>8, <2>1, UnmovedLemma DEF Restore, memory, Shape, StatusKept, Pending, Gone
  <1>9. CASE Delete(c)
    <2>1. Suspend(c, "popping", None) /\ "popping" \in CallPc
      BY <1>9 DEF Delete, CallPc
    <2>2. \A d \in Clients : calls'[d] = calls[d] \/ (~Pending(d) /\ ~Pending(d)')
      BY <1>2, <1>9, <2>1, SuspendLemma DEF Delete, Pending, TypeInv, TypeOK
    <2> QED BY <1>9, <2>2, UnmovedLemma DEF Delete, memory, Shape, StatusKept, Gone
  <1> QED BY <1>1, <1>3, <1>4, <1>5, <1>6, <1>7, <1>8, <1>9 DEF Request, TypeInv, TypeOK

\* A handler that was about to create a task creates it.
LEMMA HandOverShape ==
  ASSUME TypeInv, NEW c \in Clients, Pending(c), NEW kind \in RunKind,
         NEW e \in {{}, {"fault"}}, Spawn(kind, calls[c].obj, e), Answer(c),
         kind = "plan" <=> calls[c].pc = "inserting",
         mem' = mem, heap' = heap, known'
  PROVE  HandedOver(c)
  <1>1. calls[c].obj \in Objects
    BY DEF Pending, TypeInv, RefInv, CallRef
  <1>2. PICK r \in Runs : /\ Idle(r) /\ runs'[r].pc = "working" /\ runs'[r].obj = calls[c].obj
                          /\ runs'[r].kind = kind
                          /\ \A q \in Runs : q # r => runs'[q] = runs[q]
    BY <1>1, SpawnLemma DEF TypeInv
  <1>3. TaskBegins(r, calls[c].obj) /\ (runs'[r].kind = "plan" <=> calls[c].pc = "inserting")
    BY <1>2 DEF TaskBegins, TaskKept, Idle, Working
  <1>4. Gone' <=> Gone
    BY <1>1, SpawnGone DEF TypeInv
  <1>5. calls'[c].pc = "idle" /\ \A d \in Clients : d # c => calls'[d] = calls[d]
    BY AnswerLemma DEF TypeInv, TypeOK
  <1> QED BY <1>3, <1>4, <1>5 DEF HandedOver, StatusKept, CallKept, Pending

\* So has every step of a suspended handler.
LEMMA ResumeShape ==
  ASSUME TypeInv, OnceInv, NEW c \in Clients, Resume(c)
  PROVE  Shape
  <1>1. calls[c].pc \notin {"idle", "inserting"} => known
    BY DEF OnceInv, Unanswered
  <1>2. ASSUME Answer(c), ~Pending(c)
        PROVE  \A d \in Clients : calls'[d] = calls[d] \/ (~Pending(d) /\ ~Pending(d)')
    BY <1>2, AnswerLemma DEF Pending, TypeInv, TypeOK
  <1>3. CASE GenerateInserted(c)
    <2>1. PICK e \in {{}, {"fault"}} : Spawn("plan", calls[c].obj, e)
      BY <1>3 DEF GenerateInserted
    <2>2. Pending(c) /\ calls[c].pc = "inserting" /\ "plan" \in RunKind
      BY <1>3 DEF GenerateInserted, Pending, RunKind
    <2>3. HandedOver(c)
      BY <1>3, <2>1, <2>2, HandOverShape DEF GenerateInserted, memory
    <2> QED BY <2>3 DEF Shape
  <1>4. CASE IterateKeyRead(c)
    <2>1. Pending(c) /\ calls[c].pc = "keys" /\ "iterate" \in RunKind
      BY <1>4 DEF IterateKeyRead, Pending, RunKind
    <2>2. HandedOver(c)
      BY <1>1, <1>4, <2>1, HandOverShape DEF IterateKeyRead, memory
    <2> QED BY <2>2 DEF Shape
  <1>5. ASSUME NEW k \in BOOLEAN, Launch(c, calls[c].obj, k), mem' = mem, known' = known,
               \/ calls[c].pc \in {"stopping", "chatStopping"}
               \/ calls[c].pc = "asking" /\ heap[calls[c].obj].status = "done"
        PROVE  Shape
    <2>1. calls[c].obj \in Objects /\ known /\ ~Pending(c)
      BY <1>1, <1>5 DEF Pending, TypeInv, RefInv, CallRef
    <2>2. Started(c, calls[c].obj)
      BY <1>5, <2>1, LaunchShape
    <2> QED BY <2>1, <2>2 DEF Shape
  <1>6. ASSUME NEW k \in BOOLEAN, IterateStopped(c, k) PROVE Shape
    BY <1>5, <1>6 DEF IterateStopped
  <1>7. CASE ChatReplied(c)
    BY <1>2, <1>7, UnmovedLemma DEF ChatReplied, Pending, memory, Shape, StatusKept, Gone
  <1>8. CASE ChatIterates(c)
    <2>1. CASE Remote
      <3>1. /\ Suspend(c, "chatStopping", calls[c].obj) /\ UNCHANGED <<heap, runs, past>>
            /\ "chatStopping" \in CallPc /\ calls[c].obj \in Objects /\ ~Pending(c)
        BY <1>8, <2>1 DEF ChatIterates, CallPc, Pending, TypeInv, RefInv, CallRef
      <3>2. \A d \in Clients : calls'[d] = calls[d] \/ (~Pending(d) /\ ~Pending(d)')
        BY <3>1, SuspendLemma DEF Pending, TypeInv, TypeOK
      <3> QED BY <1>8, <3>1, <3>2, UnmovedLemma DEF ChatIterates, Shape, StatusKept, Gone
    <2>2. CASE ~Remote
      <3>1. PICK k \in BOOLEAN : Launch(c, calls[c].obj, k)
        BY <1>8, <2>2, Zenon DEF ChatIterates
      <3> QED BY <1>5, <1>8, <3>1 DEF ChatIterates
    <2> QED BY <2>1, <2>2
  <1>9. CASE ChatStopped(c)
    <2>1. PICK k \in BOOLEAN : Launch(c, calls[c].obj, k)
      BY <1>9, Zenon DEF ChatStopped
    <2> QED BY <1>5, <1>9, <2>1 DEF ChatStopped
  <1>10. CASE CheckoutApplied(c)
    <2>1. calls[c].files \in FileSets
      BY DEF TypeInv, TypeOK, CallRecord
    <2>2. \A x \in Objects : StatusKept(x)
      BY <1>10, <2>1, SetFilesLemma DEF CheckoutApplied, StatusKept, TypeInv, TypeOK
    <2>3. (Gone' <=> Gone) /\ ~Pending(c)
      BY <1>10 DEF CheckoutApplied, Gone, Pending
    <2> QED BY <1>2, <1>10, <2>2, <2>3, UnmovedLemma DEF CheckoutApplied, Shape
  <1>11. CASE RestoreLoaded(c)
    <2>1. \A d \in Clients : calls'[d] = calls[d] \/ (~Pending(d) /\ ~Pending(d)')
      BY <1>11 DEF RestoreLoaded, Pending, TypeInv, TypeOK, CallRecord
    <2> QED BY <1>11, <2>1, UnmovedLemma DEF RestoreLoaded, memory, Shape, StatusKept, Gone
  <1>12. CASE RestoreInstalled(c)
    <2>1. calls[c].row \in Row /\ calls[c].files \in FileSets
      BY <1>12 DEF RestoreInstalled, TypeInv, TypeOK, RefInv, CallRef, CallRecord
    <2> DEFINE s == [status |-> "done", plan |-> calls[c].row.plan, files |-> calls[c].files]
    <2>2. s \in State /\ s.status = "done"
      BY <2>1 DEF State, Status, Row
    <2>3. PICK o \in Objects : mem' = o /\ Store(o, s)
      BY <1>12 DEF RestoreInstalled, Fresh
    <2> HIDE DEF s
    <2>4. heap'[mem'].status = "done" /\ \A x \in Objects : x # mem' => StatusReset(x)
      BY <2>2, <2>3 DEF Store, StatusReset, Blank, TypeInv, TypeOK
    <2>5. ~Pending(c)
      BY <1>12 DEF RestoreInstalled, Pending
    <2>6. CallsKept /\ TasksKept
      BY <1>2, <1>12, <2>5 DEF RestoreInstalled, CallsKept, CallKept, TasksKept, TaskKept,
                             Pending, Working
    <2>7. Installed(c)
      BY <1>12, <2>3, <2>4, <2>6 DEF RestoreInstalled, Installed, Placed, Gone
    <2> QED BY <2>7 DEF Shape
  <1>13. CASE DeletePopped(c)
    <2>1. ~Pending(c)
      BY <1>13 DEF DeletePopped, Pending
    <2>2. CallsKept /\ TasksKept
      BY <1>2, <1>13, <2>1 DEF DeletePopped, CallsKept, CallKept, TasksKept, TaskKept,
                             Pending, Working
    <2> QED BY <1>1, <1>13, <2>2 DEF DeletePopped, Shape, Popped, Record, Gone, StatusKept
  <1> QED BY <1>3, <1>4, <1>6, <1>7, <1>8, <1>9, <1>10, <1>11, <1>12, <1>13 DEF Resume

\* So has every step of a task.
LEMMA AdvanceShape ==
  ASSUME TypeInv, NEW r \in Runs, Advance(r)
  PROVE  Shape
  <1>1. ASSUME NEW e, Finish(r, e), "deleted" \notin e
        PROVE  /\ Gone' <=> Gone
               /\ \A q \in Runs : q # r => TaskKept(q)
               /\ ~Working(r)'
    BY <1>1, FinishLemma DEF TypeInv, Finish, Record, Gone, TaskKept, Working
  <1>2. calls' = calls => CallsKept
    BY DEF CallsKept, CallKept, Pending
  <1>3. CASE PlanReady(r)
    <2>1. mem \in Objects
      BY <1>3 DEF PlanReady, TypeInv, TypeOK
    <2>2. heap'[mem].status = "awaiting_approval"
      BY <1>3, <2>1 DEF PlanReady, TypeInv, TypeOK, State
    <2>3. \A x \in Objects : x # mem => StatusKept(x)
      BY <1>3, <2>1 DEF PlanReady, TypeInv, TypeOK, StatusKept
    <2>4. Ended(r)
      BY <1>1, <1>2, <1>3, <2>2, <2>3 DEF PlanReady, Ended, Elsewhere, TaskEnds
    <2> QED BY <2>4 DEF Shape
  <1>4. CASE RunFailed(r)
    <2>1. mem \in Objects /\ "error" \in Status
      BY <1>4 DEF RunFailed, TypeInv, TypeOK, Status
    <2>2. heap'[mem].status = "error" /\ \A x \in Objects : x # mem => StatusKept(x)
      BY <1>4, <2>1, SetStatusLemma DEF RunFailed, TypeInv, TypeOK, StatusKept
    <2>3. \E e \in {{}, {"buildFailed"}} : Finish(r, e)
      BY <1>4 DEF RunFailed
    <2>4. Ended(r)
      BY <1>1, <1>2, <1>4, <2>2, <2>3 DEF RunFailed, Ended, Elsewhere, TaskEnds
    <2> QED BY <2>4 DEF Shape
  <1>5. CASE RunLost(r)
    <2>1. EndedUnseen(r)
      BY <1>1, <1>2, <1>5
         DEF RunLost, memory, EndedUnseen, Elsewhere, TaskEnds, StatusKept
    <2> QED BY <2>1 DEF Shape
  <1>6. ASSUME NEW f \in Files, RunReturned(r, f) PROVE Shape
    <2>1. /\ mem' \in Objects /\ heap'[mem'].status = "done"
          /\ runs'[r].pc = "persisting"
          /\ \A q \in Runs : q # r => runs'[q] = runs[q]
          /\ UNCHANGED <<calls, known>>
      BY <1>6, RunReturnedLemma
    <2>2. \A x \in Objects : x # mem' => StatusReset(x)
      BY <1>6 DEF RunReturned, Store, StatusReset, Blank
    <2>3. TaskEnds(r) /\ runs[r].kind # "plan"
      BY <1>6, <2>1 DEF RunReturned, TaskEnds, TaskKept, Working
    <2>4. Gone' <=> Gone
      BY <1>6 DEF RunReturned, Gone
    <2>5. Returned(r)
      BY <1>2, <2>1, <2>2, <2>3, <2>4 DEF Returned, Placed
    <2> QED BY <2>5 DEF Shape
  <1>7. ASSUME runs[r].pc \in {"persisting", "committing", "telling"},
               runs'[r].pc # "working", \A q \in Runs : q # r => runs'[q] = runs[q],
               UNCHANGED <<memory, calls, known>>, Gone' <=> Gone
        PROVE  Shape
    <2>1. TasksKept
      BY <1>7 DEF TasksKept, TaskKept, Working
    <2> QED BY <1>2, <1>7, <2>1 DEF Shape, Unmoved, Elsewhere, memory, StatusKept
  <1>8. CASE Prepare(r)
    <2>1. runs'[r].pc = "committing" /\ \A q \in Runs : q # r => runs'[q] = runs[q]
      BY <1>8 DEF Prepare, TypeInv, TypeOK, RunRecord
    <2>2. Gone' <=> Gone
      BY <1>8 DEF Prepare, Gone
    <2> QED BY <1>7, <1>8, <2>1, <2>2 DEF Prepare
  <1>9. CASE Commit(r)
    <2>1. runs'[r].pc = "telling" /\ \A q \in Runs : q # r => runs'[q] = runs[q]
      BY <1>9, TellingLemma DEF Commit, TypeInv
    <2>2. Gone' <=> Gone
      BY <1>9 DEF Commit, Gone
    <2> QED BY <1>7, <1>9, <2>1, <2>2 DEF Commit
  <1>10. CASE PersistFailed(r)
    <2>1. runs'[r].pc = "telling" /\ \A q \in Runs : q # r => runs'[q] = runs[q]
      BY <1>10, TellingLemma DEF PersistFailed, TypeInv
    <2>2. Gone' <=> Gone
      BY <1>10 DEF PersistFailed, Record, Gone
    <2> QED BY <1>7, <1>10, <2>1, <2>2 DEF PersistFailed
  <1>11. CASE Tell(r)
    <2>1. runs'[r].pc = "idle" /\ \A q \in Runs : q # r => runs'[q] = runs[q]
      BY <1>11, FinishLemma DEF Tell, TypeInv
    <2>2. Gone' <=> Gone
      BY <1>1, <1>11 DEF Tell
    <2> QED BY <1>7, <1>11, <2>1, <2>2 DEF Tell
  <1> QED BY <1>3, <1>4, <1>5, <1>6, <1>8, <1>9, <1>10, <1>11 DEF Advance

\* So has every step.
LEMMA NextShape ==
  ASSUME TypeInv, OnceInv, [Next]_vars
  PROVE  Shape
  <1>1. ASSUME NEW c \in Clients, Request(c) \/ Resume(c) PROVE Shape
    BY <1>1, RequestShape, ResumeShape
  <1>2. ASSUME NEW r \in Runs, Advance(r) PROVE Shape
    BY <1>2, AdvanceShape
  <1>3. ASSUME NEW r \in Runs, NEW f \in Files, CrewWritesFiles(r, f) PROVE Shape
    <2>1. \A x \in Objects : StatusKept(x)
      BY <1>3, SetFilesLemma DEF CrewWritesFiles, TypeInv, TypeOK, FileSets, StatusKept
    <2> QED BY <1>3, <2>1, UnmovedLemma DEF CrewWritesFiles, Shape, Gone
  <1>4. CASE Restart
    <2>1. NoRun.pc = "idle" /\ NoCall.pc = "idle"
      BY DEF NoRun, NoCall
    <2>2. Restarted
      BY <1>4, <2>1 DEF Restart, Restarted, Working, Gone
    <2> QED BY <2>2 DEF Shape
  <1>5. CASE UNCHANGED vars
    BY <1>5, UnmovedLemma DEF vars, Shape, StatusKept, Gone
  <1> QED BY <1>1, <1>2, <1>3, <1>4, <1>5 DEF Next

---------------------------------------------------------------------------
(* Any number of clients, when stopping a preview awaits nothing and the   *)
(* process lives: what was checked is acted on in the same step.           *)

Local == ~Remote /\ ~MayCrash

\* Whoever works holds the session's dict, which is running.
LocalTask(r) ==
  Working(r) => /\ mem = None \/ mem = runs[r].obj
                /\ heap[runs[r].obj].status = "running"
\* So does whoever is about to create a task, and then nobody else is at it.
LocalCall(c) ==
  Pending(c) => /\ mem = None \/ mem = calls[c].obj
                /\ heap[calls[c].obj].status = "running"
                /\ NobodyWorks /\ \A d \in Clients : Pending(d) => d = c
\* A dict that is not running is the session's, or was when it was deleted.
LocalDict(x) ==
  heap[x].status # "running" =>
    /\ known /\ (mem = None \/ mem = x)
    /\ NobodyWorks /\ \A c \in Clients : ~Pending(c)
    /\ \A y \in Objects : heap[y].status # "running" => y = x
Prompt == \A c \in Clients : calls[c].pc \notin {"stopping", "chatStopping"}

LocalInv == /\ OneRun /\ Prompt
            /\ \A r \in Runs : LocalTask(r)
            /\ \A c \in Clients : LocalCall(c)
            /\ \A x \in Objects : LocalDict(x)

\* It holds when the server starts.
LEMMA InitLocal == Init => LocalInv
  <1>1. NoRun.pc = "idle" /\ NoCall.pc = "idle" /\ Blank.status = "running"
    BY DEF NoRun, NoCall, Blank
  <1> QED BY <1>1 DEF Init, LocalInv, OneRun, Prompt, LocalTask, LocalCall, LocalDict,
                      Working, Pending

\* Nobody waits for a preview to stop.
LEMMA NextPrompt ==
  ASSUME ~Remote, TypeInv, Prompt, [Next]_vars
  PROVE  Prompt'
  <1>1. ASSUME NEW c \in Clients, \A d \in Clients : d # c => calls'[d] = calls[d],
               calls'[c].pc \notin {"stopping", "chatStopping"}
        PROVE  Prompt'
    BY <1>1 DEF Prompt
  <1>2. ASSUME NEW c \in Clients, Answer(c) PROVE Prompt'
    BY <1>1, <1>2, AnswerLemma DEF TypeInv, TypeOK
  <1>3. ASSUME NEW c \in Clients, NEW pc \in CallPc, NEW o \in Objects \cup {None},
               Suspend(c, pc, o), pc \notin {"stopping", "chatStopping"}
        PROVE  Prompt'
    BY <1>1, <1>3, SuspendLemma DEF TypeInv, TypeOK
  <1>4. ASSUME NEW c \in Clients, NEW o \in Objects, NEW k \in BOOLEAN, Launch(c, o, k)
        PROVE  Prompt'
    <2>1. "keys" \in CallPc
      BY DEF CallPc
    <2> QED BY <1>2, <1>3, <1>4, <2>1 DEF Launch
  <1>5. calls' = calls => Prompt'
    BY DEF Prompt
  <1>6. mem \in Objects \cup {None} /\ {"asking", "popping"} \subseteq CallPc
    BY DEF TypeInv, TypeOK, CallPc
  <1>7. ASSUME NEW c \in Clients, Request(c) PROVE Prompt'
    <2>1. CASE Generate(c)
      BY <1>1, <2>1 DEF Generate, NoCall, TypeInv, TypeOK
    <2>2. CASE ApprovePlan(c)
      BY <1>5, <2>2 DEF ApprovePlan
    <2>3. ASSUME NEW k \in BOOLEAN, Iterate(c, k) PROVE Prompt'
      BY <1>4, <1>6, <2>3 DEF Iterate
    <2>4. CASE Chat(c)
      BY <1>3, <1>6, <2>4 DEF Chat
    <2>5. ASSUME NEW f \in Files, UpdateFiles(c, f) PROVE Prompt'
      BY <1>5, <2>5 DEF UpdateFiles
    <2>6. ASSUME NEW f \in versions, Checkout(c, f) PROVE Prompt'
      BY <1>1, <2>6 DEF Checkout, NoCall, TypeInv, TypeOK
    <2>7. ASSUME NEW f \in history, CheckoutInMemory(c, f) PROVE Prompt'
      BY <1>5, <2>7 DEF CheckoutInMemory
    <2>8. CASE Restore(c)
      BY <1>1, <2>8 DEF Restore, NoCall, TypeInv, TypeOK
    <2>9. CASE Delete(c)
      BY <1>3, <1>6, <2>9 DEF Delete
    <2> QED BY <1>7, <2>1, <2>2, <2>3, <2>4, <2>5, <2>6, <2>7, <2>8, <2>9 DEF Request
  <1>8. ASSUME NEW c \in Clients, Resume(c) PROVE Prompt'
    <2>1. calls[c].pc \in {"asking", "chatStopping", "stopping"} => calls[c].obj \in Objects
      BY DEF TypeInv, RefInv, CallRef
    <2>2. CASE ChatIterates(c)
      <3>1. PICK k \in BOOLEAN : Launch(c, calls[c].obj, k)
        BY <2>2, Zenon DEF ChatIterates
      <3> QED BY <1>4, <2>1, <2>2, <3>1 DEF ChatIterates
    <2>3. CASE RestoreLoaded(c)
      BY <1>1, <2>3 DEF RestoreLoaded, TypeInv, TypeOK, CallRecord
    <2>4. ~ChatStopped(c) /\ \A k \in BOOLEAN : ~IterateStopped(c, k)
      BY DEF ChatStopped, IterateStopped, Prompt
    <2> QED BY <1>2, <1>8, <2>2, <2>3, <2>4
            DEF Resume, GenerateInserted, IterateKeyRead, ChatReplied, CheckoutApplied,
                RestoreInstalled, DeletePopped
  <1>9. ASSUME NEW r \in Runs, Advance(r) PROVE Prompt'
    BY <1>5, <1>9 DEF Advance, PlanReady, RunFailed, RunLost, RunReturned, Prepare, Commit,
                      PersistFailed, Tell
  <1>10. ASSUME NEW r \in Runs, NEW f \in Files, CrewWritesFiles(r, f) PROVE Prompt'
    BY <1>5, <1>10 DEF CrewWritesFiles
  <1>11. CASE Restart
    BY <1>11 DEF Restart, Prompt, NoCall
  <1>12. CASE UNCHANGED vars
    BY <1>5, <1>12 DEF vars
  <1> QED BY <1>7, <1>8, <1>9, <1>10, <1>11, <1>12 DEF Next

\* Every step keeps it, shape by shape.
LEMMA NextLocal ==
  ASSUME Local, TypeInv, OnceInv, BuiltInv, LocalInv, [Next]_vars
  PROVE  LocalInv'
  <1>1. Prompt'
    BY NextPrompt DEF Local, LocalInv
  <1>2. /\ mem \in Objects \cup {None}
        /\ \A r \in Runs : Working(r) => runs[r].obj \in Objects /\ known
        /\ \A c \in Clients : Pending(c) => calls[c].obj \in Objects
    BY DEF TypeInv, TypeOK, RefInv, RunRef, CallRef, Pending, Working, OnceInv, Unanswered,
           AllIdle, Idle
  <1>3. ASSUME NEW r \in Runs, Working(r)
        PROVE  /\ \A q \in Runs : Working(q) => q = r
               /\ \A c \in Clients : ~Pending(c)
               /\ \A x \in Objects : heap[x].status = "running"
    BY <1>3 DEF LocalInv, OneRun, LocalCall, LocalDict, NobodyWorks
  <1>4. CASE Unmoved
    <2>1. OneRun' /\ (NobodyWorks <=> NobodyWorks')
      BY <1>4 DEF Unmoved, TasksKept, TaskKept, LocalInv, OneRun, NobodyWorks
    <2>2. \A r \in Runs : LocalTask(r)'
      BY <1>2, <1>4 DEF Unmoved, TasksKept, TaskKept, Elsewhere, StatusKept, LocalInv, LocalTask
    <2>3. \A c \in Clients : LocalCall(c)'
      BY <1>2, <1>4, <2>1 DEF Unmoved, CallsKept, CallKept, Elsewhere, StatusKept, LocalInv, LocalCall
    <2>4. \A x \in Objects : LocalDict(x)'
      BY <1>4, <2>1 DEF Unmoved, CallsKept, CallKept, Elsewhere, StatusKept, LocalInv, LocalDict
    <2> QED BY <1>1, <2>1, <2>2, <2>3, <2>4 DEF LocalInv
  <1>5. CASE Popped
    <2>1. OneRun' /\ (NobodyWorks <=> NobodyWorks')
      BY <1>5 DEF Popped, TasksKept, TaskKept, LocalInv, OneRun, NobodyWorks
    <2>2. \A r \in Runs : LocalTask(r)'
      BY <1>2, <1>5 DEF Popped, TasksKept, TaskKept, StatusKept, LocalInv, LocalTask
    <2>3. \A c \in Clients : LocalCall(c)'
      BY <1>2, <1>5, <2>1 DEF Popped, CallsKept, CallKept, StatusKept, LocalInv, LocalCall
    <2>4. \A x \in Objects : LocalDict(x)'
      BY <1>5, <2>1 DEF Popped, CallsKept, CallKept, StatusKept, LocalInv, LocalDict
    <2> QED BY <1>1, <2>1, <2>2, <2>3, <2>4 DEF LocalInv
  <1>6. ~Restarted /\ \A c \in Clients : ~Installed(c)
    BY DEF Restarted, Installed, Local, BuiltInv, CallBuilt
  <1>7. ASSUME NEW c \in Clients, Generated(c) PROVE LocalInv'
    <2>1. /\ NobodyWorks /\ \A d \in Clients : ~Pending(d)
          /\ \A x \in Objects : heap[x].status = "running"
      BY <1>7 DEF Generated, OnceInv, Unanswered, Inserting, AllIdle, Idle, NobodyWorks, Working,
                  Pending, LocalInv, LocalDict
    <2>2. /\ NobodyWorks'
          /\ \A d \in Clients : Pending(d)' => d = c
          /\ \A x \in Objects : heap'[x].status = "running"
          /\ Pending(c)' => calls'[c].obj = mem' /\ mem' \in Objects
      BY <1>7, <2>1 DEF Generated, NobodyWorks, TasksKept, TaskKept, CallKept, StatusReset
    <2> QED BY <1>1, <2>2 DEF LocalInv, OneRun, LocalTask, LocalCall, LocalDict, NobodyWorks
  <1>8. ASSUME NEW c \in Clients, HandedOver(c) PROVE LocalInv'
    <2>1. /\ NobodyWorks /\ \A d \in Clients : Pending(d) => d = c
          /\ \A x \in Objects : heap[x].status = "running"
          /\ calls[c].obj \in Objects /\ (mem = None \/ mem = calls[c].obj)
      BY <1>2, <1>8 DEF HandedOver, LocalInv, LocalCall, LocalDict
    <2>2. PICK r \in Runs : TaskBegins(r, calls[c].obj)
      BY <1>8 DEF HandedOver
    <2>3. /\ \A q \in Runs : Working(q)' => q = r
          /\ runs'[r].obj = calls[c].obj
          /\ \A d \in Clients : ~Pending(d)'
          /\ \A x \in Objects : heap'[x].status = "running"
          /\ mem' = mem
      BY <1>8, <2>1, <2>2 DEF HandedOver, TaskBegins, TaskKept, CallKept, StatusKept, NobodyWorks
    <2> QED BY <1>1, <2>1, <2>3 DEF LocalInv, OneRun, LocalTask, LocalCall, LocalDict
  <1>9. ASSUME NEW c \in Clients, NEW o \in Objects, Started(c, o) PROVE LocalInv'
    <2>1. heap[o].status # "running" /\ ~Pending(c)
      BY <1>9 DEF Started, LocalInv, Prompt
    <2>2. /\ NobodyWorks /\ \A d \in Clients : ~Pending(d)
          /\ mem = None \/ mem = o
          /\ \A x \in Objects : x # o => heap[x].status = "running"
      BY <2>1 DEF LocalInv, LocalDict
    <2>3. /\ mem' = mem /\ \A x \in Objects : heap'[x].status = "running"
          /\ \A d \in Clients : d # c => ~Pending(d)'
      BY <1>9, <2>2 DEF Started, Elsewhere, StatusKept, CallKept
    <2>4. CASE calls'[c].pc = "keys" /\ calls'[c].obj = o /\ TasksKept
      <3>1. NobodyWorks'
        BY <2>2, <2>4 DEF NobodyWorks, TasksKept, TaskKept
      <3> QED BY <1>1, <2>2, <2>3, <2>4, <3>1
              DEF LocalInv, OneRun, LocalTask, LocalCall, LocalDict, NobodyWorks
    <2>5. ASSUME ~Pending(c)', NEW r \in Runs, TaskBegins(r, o) PROVE LocalInv'
      <3>1. /\ \A q \in Runs : Working(q)' => q = r
            /\ runs'[r].obj = o /\ \A d \in Clients : ~Pending(d)'
        BY <2>2, <2>3, <2>5 DEF TaskBegins, TaskKept, NobodyWorks
      <3> QED BY <1>1, <2>2, <2>3, <3>1 DEF LocalInv, OneRun, LocalTask, LocalCall, LocalDict
    <2> QED BY <1>9, <2>4, <2>5 DEF Started
  <1>10. ASSUME NEW r \in Runs, Working(r), TaskEnds(r), CallsKept
         PROVE  NobodyWorks' /\ \A c \in Clients : ~Pending(c)'
    BY <1>3, <1>10 DEF TaskEnds, TaskKept, CallsKept, CallKept, NobodyWorks
  <1>11. ASSUME NEW r \in Runs, Ended(r) PROVE LocalInv'
    <2>1. /\ NobodyWorks' /\ \A c \in Clients : ~Pending(c)'
          /\ known' /\ \A x \in Objects : x # mem' => heap'[x].status = "running"
      BY <1>2, <1>3, <1>10, <1>11 DEF Ended, Elsewhere, TaskEnds, StatusKept
    <2> QED BY <1>1, <2>1 DEF LocalInv, OneRun, LocalTask, LocalCall, LocalDict, NobodyWorks
  <1>12. ASSUME NEW r \in Runs, EndedUnseen(r) PROVE LocalInv'
    <2>1. /\ NobodyWorks' /\ \A c \in Clients : ~Pending(c)'
          /\ \A x \in Objects : heap'[x].status = "running"
      BY <1>3, <1>10, <1>12 DEF EndedUnseen, Elsewhere, TaskEnds, StatusKept
    <2> QED BY <1>1, <2>1 DEF LocalInv, OneRun, LocalTask, LocalCall, LocalDict, NobodyWorks
  <1>13. ASSUME NEW r \in Runs, Returned(r) PROVE LocalInv'
    <2>1. /\ NobodyWorks' /\ \A c \in Clients : ~Pending(c)'
          /\ known' /\ \A x \in Objects : x # mem' => heap'[x].status = "running"
      BY <1>2, <1>3, <1>10, <1>13 DEF Returned, Placed, TaskEnds, StatusReset
    <2> QED BY <1>1, <2>1 DEF LocalInv, OneRun, LocalTask, LocalCall, LocalDict, NobodyWorks
  <1> QED BY NextShape, <1>4, <1>5, <1>6, <1>7, <1>8, <1>9, <1>11, <1>12, <1>13 DEF Shape

\* With any number of clients one pipeline works at a time, for the dict that
\* everyone sees running, as long as no preview has to be stopped by an HTTP
\* call (the gap between check and mark in iterate and chat) and no restart
\* leaves a handler's session to be restored under it.
THEOREM OneRunLocally == Local => (Spec => [](OneRun /\ RunOwnsSession))
  <1> SUFFICES ASSUME Local PROVE Spec => [](OneRun /\ RunOwnsSession)
    OBVIOUS
  <1>1. LocalInv => OneRun /\ RunOwnsSession
    BY DEF LocalInv, LocalTask, RunOwnsSession
  <1>2. ~MayCrash
    BY DEF Local
  <1>3. Spec => [](TypeInv /\ OnceInv /\ BuiltInv /\ LocalInv)
    BY <1>2, InitTypeInv, NextTypeInv, InitOnceInv, NextOnce, InitBuiltInv, NextBuilt, InitLocal,
       NextLocal, PTL DEF Spec
  <1> QED BY <1>1, <1>3, PTL

---------------------------------------------------------------------------
(* The session implements its contract.  Fit is what both cases, one       *)
(* client and prompt ones, have in common.                                 *)

Nobody == NobodyWorks /\ \A c \in Clients : ~Pending(c)

FitTask(r) ==
  Working(r) => /\ known /\ \A c \in Clients : ~Pending(c)
                /\ IF mem = None THEN Gone
                   ELSE mem = runs[r].obj /\ heap[mem].status = "running"
FitCall(c) ==
  /\ Pending(c) => /\ NobodyWorks /\ \A d \in Clients : Pending(d) => d = c
                   /\ IF mem = None THEN Gone
                      ELSE mem = calls[c].obj /\ heap[mem].status = "running"
  /\ calls[c].pc = "inserting" => ~known /\ mem # None
  /\ calls[c].pc = "asking" /\ heap[calls[c].obj].status = "done" =>
       Nobody /\ (IF mem = None THEN Gone ELSE mem = calls[c].obj)
  /\ calls[c].pc \in {"stopping", "chatStopping"} =>
       Nobody /\ mem = calls[c].obj /\ heap[mem].status # "running"
  /\ calls[c].pc = "installing" => Nobody /\ mem = None /\ ~Gone
Fit == /\ OneRun /\ (Gone => known)
       /\ \A r \in Runs : FitTask(r)
       /\ \A c \in Clients : FitCall(c)

GoneKnown == Gone => known
\* A deleted session was known.
LEMMA NextGoneKnown ==
  ASSUME TypeInv, OnceInv, GoneKnown, [Next]_vars
  PROVE  GoneKnown'
  BY NextShape DEF Shape, GoneKnown, Unmoved, Popped, Restarted, Generated, HandedOver,
     Installed, Started, Ended, EndedUnseen, Returned, Placed, Elsewhere

\* A session is read back only while it is not in memory.
Reading == \A c \in Clients : calls[c].pc \in {"loading", "installing"} => mem = None


\* Nobody puts a dict in place under the one client that reads the row.
LEMMA NextReading ==
  ASSUME Serial, TypeInv, SerialInv, Reading, [Next]_vars
  PROVE  Reading'
  <1> SUFFICES ASSUME NEW c \in Clients, calls'[c].pc \in {"loading", "installing"}
               PROVE  mem' = None
    BY DEF Reading
  <1>1. NoCall.pc = "idle" /\ ~Answer(c)
    BY AnswerLemma DEF NoCall, TypeInv, TypeOK
  <1>2. ASSUME NEW pc \in {"stopping", "keys", "asking", "chatStopping", "popping"},
               NEW o \in Objects \cup {None}
        PROVE  ~Suspend(c, pc, o)
    BY <1>2, SuspendLemma DEF CallPc, TypeInv, TypeOK
  <1>3. ASSUME NEW o \in Objects, NEW k \in BOOLEAN PROVE ~Launch(c, o, k)
    BY <1>1, <1>2 DEF Launch
  <1>4. calls[c].pc \in {"loading", "installing"} => mem = None /\ NobodyWorks
    BY DEF Reading, SerialInv, HandlerInv
  <1>5. ASSUME NEW d \in Clients, Request(d) PROVE mem' = None
    <2>1. d = c /\ mem \in Objects \cup {None}
      BY DEF Serial, TypeInv, TypeOK
    <2>2. ~Generate(c)
      BY DEF Generate, NoCall, TypeInv, TypeOK
    <2>3. ~ApprovePlan(c) /\ \A k \in BOOLEAN : ~Iterate(c, k)
      BY <1>1, <1>2, <1>3, <2>1 DEF ApprovePlan, Iterate, Ready
    <2>4. ~Chat(c) /\ ~Delete(c)
      BY <1>2, <2>1 DEF Chat, Delete
    <2>5. \A f \in versions : ~Checkout(c, f)
      BY DEF Checkout, NoCall, TypeInv, TypeOK
    <2>6. \A f : ~UpdateFiles(c, f) /\ ~CheckoutInMemory(c, f)
      BY <1>1 DEF UpdateFiles, CheckoutInMemory, Ready
    <2>7. Restore(c)
      BY <1>5, <2>1, <2>2, <2>3, <2>4, <2>5, <2>6 DEF Request
    <2> QED BY <2>7 DEF Restore, memory
  <1>6. ASSUME NEW d \in Clients, Resume(d) PROVE mem' = None
    <2>1. d = c
      BY DEF Serial
    <2>2. calls[c].pc \in {"asking", "chatStopping", "stopping"} => calls[c].obj \in Objects
      BY DEF TypeInv, RefInv, CallRef
    <2>3. ~ChatIterates(c) /\ ~ChatStopped(c) /\ \A k \in BOOLEAN : ~IterateStopped(c, k)
      BY <1>2, <1>3, <2>2 DEF ChatIterates, ChatStopped, IterateStopped
    <2>4. RestoreLoaded(c)
      BY <1>1, <1>6, <2>1, <2>3
         DEF Resume, GenerateInserted, IterateKeyRead, ChatReplied, CheckoutApplied,
             RestoreInstalled, DeletePopped
    <2> QED BY <1>4, <2>4 DEF RestoreLoaded, memory
  <1>7. ASSUME NEW r \in Runs, Advance(r) PROVE mem' = None
    <2>1. calls' = calls
      BY <1>7 DEF Advance, PlanReady, RunFailed, RunLost, RunReturned, Prepare, Commit,
                  PersistFailed, Tell
    <2>2. \A f \in Files : ~RunReturned(r, f)
      BY <1>4, <2>1 DEF RunReturned, NobodyWorks
    <2> QED BY <1>4, <1>7, <2>1, <2>2
            DEF Advance, PlanReady, RunFailed, RunLost, Prepare, Commit, PersistFailed, Tell, memory
  <1>8. ASSUME NEW r \in Runs, NEW f \in Files, CrewWritesFiles(r, f) PROVE mem' = None
    BY <1>4, <1>8 DEF CrewWritesFiles
  <1>9. CASE Restart
    BY <1>9 DEF Restart
  <1>10. CASE UNCHANGED vars
    BY <1>4, <1>10 DEF vars
  <1> QED BY <1>5, <1>6, <1>7, <1>8, <1>9, <1>10 DEF Next

\* With prompt handlers a session fits its contract.
LEMMA LocalFit ==
  ASSUME "deleted" \in Recorded, Local, TypeInv, OnceInv, BuiltInv, GoneKnown, LocalInv
  PROVE  Fit
  <1>1. \A r \in Runs : FitTask(r)
    BY DEF FitTask, LocalInv, LocalTask, LocalCall, OnceInv, Lost, Unanswered, AllIdle, Idle,
           Working, Gone, NobodyWorks
  <1>2. ASSUME NEW c \in Clients PROVE FitCall(c)
    <2>1. /\ calls[c].pc \in {"asking", "stopping", "chatStopping"} => calls[c].obj \in Objects
          /\ calls[c].pc \notin {"stopping", "chatStopping", "installing"}
          /\ mem = None /\ Attached(c) => Gone
      BY DEF TypeInv, RefInv, CallRef, LocalInv, Prompt, BuiltInv, CallBuilt, OnceInv, Lost, Gone
    <2>2. calls[c].pc = "inserting" => ~known /\ mem # None
      BY DEF OnceInv, Inserting
    <2> QED BY <2>1, <2>2 DEF FitCall, LocalInv, LocalCall, LocalDict, Nobody, Attached, Pending
  <1> QED BY <1>1, <1>2 DEF Fit, LocalInv, GoneKnown

\* So it does with one client.
LEMMA SerialFit ==
  ASSUME "deleted" \in Recorded, Serial, TypeInv, OnceInv, SerialInv, Deleted, NoWedge, Reading
  PROVE  Fit
  <1>1. \A r \in Runs : FitTask(r)
    <2> SUFFICES ASSUME NEW r \in Runs, Working(r) PROVE FitTask(r)
      BY DEF FitTask
    <2>1. known /\ (mem = None => Gone)
      BY DEF SerialInv, WorkingInv, OnceInv, Lost, AllIdle, Idle, Working, Gone
    <2>2. \A c \in Clients : ~Pending(c)
      BY DEF SerialInv, HandlerInv, NobodyWorks, Pending
    <2>3. mem # None => mem = runs[r].obj /\ heap[mem].status = "running"
      BY DEF SerialInv, RunOwnsSession
    <2> QED BY <2>1, <2>2, <2>3 DEF FitTask
  <1>2. ASSUME NEW c \in Clients PROVE FitCall(c)
    <2>1. \A d \in Clients : d = c
      BY DEF Serial
    <2>2. mem = None /\ Attached(c) => Gone
      BY DEF OnceInv, Lost, Gone
    <2>3. /\ calls[c].pc = "inserting" => ~known /\ mem # None
          /\ Pending(c) => NobodyWorks /\ calls[c].obj = mem /\ heap[mem].status = "running"
      BY DEF OnceInv, Inserting, SerialInv, HandlerInv, Pending
    <2>4. ASSUME calls[c].pc = "asking", heap[calls[c].obj].status = "done"
          PROVE  Nobody /\ mem = calls[c].obj
      BY <2>1, <2>4 DEF SerialInv, HandlerInv, Nobody, NobodyWorks, Pending
    <2>5. ASSUME calls[c].pc \in {"stopping", "chatStopping"}
          PROVE  Nobody /\ mem = calls[c].obj /\ heap[mem].status # "running"
      <3>1. Nobody /\ mem = calls[c].obj
        BY <2>1, <2>5 DEF SerialInv, HandlerInv, Nobody, Pending
      <3>2. mem # None
        BY <2>5, <3>1, ConstantsAssumption DEF TypeInv, RefInv, CallRef
      <3> QED BY <3>1, <3>2 DEF Nobody, NobodyWorks, NoWedge, Pending
    <2>6. calls[c].pc = "installing" => Nobody /\ mem = None /\ ~Gone
      BY <2>1 DEF SerialInv, HandlerInv, Nobody, Pending, Reading, Deleted, Gone
    <2> QED BY <2>1, <2>2, <2>3, <2>4, <2>5, <2>6 DEF FitCall, Attached, Pending
  <1> QED BY <1>1, <1>2 DEF Fit, SerialInv, Deleted, Gone

\* When nobody is at it, nothing is at work.
LEMMA PipelineNone == Nobody => Pipeline = "none"
  BY DEF Nobody, NobodyWorks, Pending, Pipeline

\* The one task is what is at work.
LEMMA PipelineTask ==
  ASSUME NEW r \in Runs, Working(r), \A q \in Runs : Working(q) => q = r,
         \A c \in Clients : ~Pending(c)
  PROVE  Pipeline = IF runs[r].kind = "plan" THEN "planning" ELSE "working"
  BY DEF Pending, Pipeline

\* So is the one handler.
LEMMA PipelineCall ==
  ASSUME NEW c \in Clients, Pending(c), NobodyWorks, \A d \in Clients : Pending(d) => d = c
  PROVE  Pipeline = IF calls[c].pc = "inserting" THEN "planning" ELSE "working"
  BY DEF Pending, Pipeline, NobodyWorks

\* Who keeps tasks and handlers keeps what is at work.
LEMMA PipelineKept == TasksKept /\ CallsKept => Pipeline' = Pipeline
  BY DEF TasksKept, TaskKept, CallsKept, CallKept, Pending, Pipeline

\* A server that has just started has no session to show.
LEMMA InitContract == Init => Contract!Init
  <1>1. NoRun.pc = "idle" /\ NoCall.pc = "idle"
    BY DEF NoRun, NoCall
  <1> QED BY <1>1 DEF Init, Contract!Init, Shown, Pipeline, Working

Seen == <<Shown, Pipeline, "deleted" \in past>>

\* Three things are seen.
LEMMA SeenKept ==
  ASSUME Shown' = Shown, Pipeline' = Pipeline, Gone' <=> Gone
  PROVE  UNCHANGED Seen
  BY DEF Seen, Gone

\* Every shape is a step of the contract, or shows nothing.
LEMMA StepContract ==
  ASSUME "deleted" \in Recorded, TypeInv, Fit, Shape
  PROVE  [Contract!Next]_Seen
  <1>1. mem \in Objects \cup {None} /\ None \notin Objects
    BY ConstantsAssumption DEF TypeInv, TypeOK
  <1>2. ASSUME NEW r \in Runs, Working(r)
        PROVE  /\ \A q \in Runs : Working(q) => q = r
               /\ \A c \in Clients : ~Pending(c)
               /\ Pipeline = IF runs[r].kind = "plan" THEN "planning" ELSE "working"
               /\ Shown = "running" \/ (Shown = "absent" /\ Gone)
    BY <1>2, PipelineTask DEF Fit, FitTask, OneRun, Shown
  <1>3. ASSUME NEW r \in Runs, TaskEnds(r), CallsKept
        PROVE  Pipeline' = "none"
    <2>1. Nobody'
      BY <1>2, <1>3 DEF TaskEnds, TaskKept, CallsKept, CallKept, Nobody, NobodyWorks
    <2> QED BY <2>1 DEF Nobody, NobodyWorks, Pending, Pipeline
  <1>4. ASSUME NEW c \in Clients, NEW o \in Objects, Nobody, ~Pending(c),
               \/ calls'[c].pc = "keys" /\ TasksKept
               \/ ~Pending(c)' /\ \E r \in Runs : TaskBegins(r, o) /\ runs'[r].kind # "plan",
               \A d \in Clients : d # c => CallKept(d)
        PROVE  Pipeline' = "working"
    <2>1. \A d \in Clients : d # c => ~Pending(d)'
      BY <1>4 DEF Nobody, CallKept
    <2>2. CASE calls'[c].pc = "keys" /\ TasksKept
      <3>1. NobodyWorks' /\ Pending(c)' /\ \A d \in Clients : Pending(d)' => d = c
        BY <1>4, <2>1, <2>2 DEF Nobody, NobodyWorks, TasksKept, TaskKept, Pending
      <3> QED BY <2>2, <3>1 DEF NobodyWorks, Pending, Pipeline
    <2>3. ASSUME ~Pending(c)', NEW r \in Runs, TaskBegins(r, o), runs'[r].kind # "plan"
          PROVE  Pipeline' = "working"
      <3>1. /\ Working(r)' /\ \A q \in Runs : Working(q)' => q = r
            /\ \A d \in Clients : ~Pending(d)'
        BY <1>4, <2>1, <2>3 DEF Nobody, NobodyWorks, TaskBegins, TaskKept
      <3> QED BY <2>3, <3>1 DEF Pending, Pipeline
    <2> QED BY <1>4, <2>2, <2>3
  <1>5. CASE Unmoved
    <2>1. Shown' = Shown
      BY <1>1, <1>5 DEF Unmoved, Elsewhere, StatusKept, Shown
    <2> QED BY <1>5, <2>1, PipelineKept, SeenKept DEF Unmoved, Elsewhere
  <1>6. CASE Popped
    <2>1. Shown' = "absent" /\ Pipeline' = Pipeline /\ Gone'
      BY <1>6, PipelineKept DEF Popped, Shown
    <2> QED BY <2>1 DEF Contract!Next, Contract!Delete, Gone
  <1>7. CASE Restarted
    <2>1. Nobody'
      BY <1>7 DEF Restarted, Nobody, NobodyWorks, Pending
    <2>2. Shown' = "absent" /\ Pipeline' = "none" /\ (Gone' <=> Gone)
      BY <1>7, <2>1 DEF Restarted, Shown, Nobody, NobodyWorks, Pending, Pipeline
    <2> QED BY <2>2 DEF Contract!Next, Contract!Lose, Contract!End, Gone
  <1>8. ASSUME NEW c \in Clients, Generated(c) PROVE [Contract!Next]_Seen
    <2>1. Nobody /\ ~Gone
      BY <1>8 DEF Generated, Fit, FitTask, FitCall, Nobody, NobodyWorks
    <2>2. Shown = "absent" /\ Pipeline = "none" /\ Shown' = "running"
      BY <1>1, <1>8, <2>1, PipelineNone DEF Generated, Shown
    <2>3. Pipeline' = "planning"
      BY <1>8 DEF Generated, Pipeline
    <2> QED BY <1>8, <2>1, <2>2, <2>3
            DEF Contract!Next, Contract!Generate, Contract!Begin, Generated, Gone
  <1>9. ASSUME NEW c \in Clients, HandedOver(c) PROVE [Contract!Next]_Seen
    <2>1. NobodyWorks /\ \A d \in Clients : Pending(d) => d = c
      BY <1>9 DEF HandedOver, Fit, FitCall
    <2>2. Pipeline = IF calls[c].pc = "inserting" THEN "planning" ELSE "working"
      BY <1>9, <2>1, PipelineCall DEF HandedOver
    <2>3. PICK r \in Runs : /\ TaskBegins(r, calls[c].obj)
                            /\ runs'[r].kind = "plan" <=> calls[c].pc = "inserting"
      BY <1>9 DEF HandedOver
    <2>4. /\ Working(r)' /\ \A q \in Runs : Working(q)' => q = r
          /\ \A d \in Clients : ~Pending(d)'
      BY <1>9, <2>1, <2>3 DEF HandedOver, NobodyWorks, TaskBegins, TaskKept, CallKept
    <2>5. Pipeline' = Pipeline
      BY <2>2, <2>3, <2>4 DEF Pending, Pipeline
    <2>6. Shown' = Shown
      BY <1>1, <1>9 DEF HandedOver, StatusKept, Shown
    <2> QED BY <1>9, <2>5, <2>6, SeenKept DEF HandedOver
  <1>10. ASSUME NEW c \in Clients, Installed(c) PROVE [Contract!Next]_Seen
    <2>1. Nobody /\ mem = None /\ ~Gone
      BY <1>10 DEF Installed, Fit, FitCall
    <2>2. Shown = "absent" /\ Pipeline = "none" /\ Shown' = "done" /\ Pipeline' = Pipeline
      BY <1>1, <1>10, <2>1, PipelineNone, PipelineKept DEF Installed, Placed, Shown
    <2> QED BY <1>10, <2>1, <2>2
            DEF Contract!Next, Contract!Restore, Installed, Placed, Gone
  <1>11. ASSUME NEW c \in Clients, NEW o \in Objects, Started(c, o) PROVE [Contract!Next]_Seen
    <2>1. Nobody /\ (IF mem = None THEN Gone ELSE mem = o /\ heap[mem].status # "running")
      BY <1>1, <1>11 DEF Started, Fit, FitTask, FitCall, Nobody, NobodyWorks
    <2>2. Pipeline = "none" /\ Pipeline' = "working" /\ (Gone' <=> Gone) /\ mem' = mem
      BY <1>4, <1>11, <2>1, PipelineNone DEF Started, Elsewhere
    <2>3. CASE mem = None
      <3>1. Gone /\ Shown = "absent" /\ Shown' = Shown
        BY <2>1, <2>2, <2>3 DEF Shown
      <3> QED BY <2>2, <3>1 DEF Contract!Next, Contract!StartUnseen, Gone
    <2>4. CASE mem # None
      <3>1. Shown' = "running" /\ Shown \in {"awaiting_approval", "done", "error"}
        BY <1>11, <2>1, <2>2, <2>4
           DEF Started, Shown, TypeInv, TypeOK, State, Status
      <3> QED BY <2>2, <3>1
              DEF Contract!Next, Contract!Approve, Contract!Iterate, Contract!Begin, Gone
    <2> QED BY <2>3, <2>4
  <1>12. ASSUME NEW r \in Runs, Ended(r) PROVE [Contract!Next]_Seen
    <2>1. /\ Shown = "running" /\ Pipeline \in {"planning", "working"} /\ Pipeline' = "none"
          /\ runs[r].kind = "plan" => Pipeline = "planning"
      BY <1>2, <1>3, <1>12 DEF Ended, TaskEnds, Fit, FitTask, Shown
    <2>2. \/ Shown' = "awaiting_approval" /\ Pipeline = "planning"
          \/ Shown' = "error"
      BY <1>12, <2>1 DEF Ended, Elsewhere, Shown
    <2> QED BY <1>12, <2>1, <2>2
            DEF Contract!Next, Contract!PlanReady, Contract!Fail, Contract!End,
                Ended, Elsewhere, Gone
  <1>13. ASSUME NEW r \in Runs, EndedUnseen(r) PROVE [Contract!Next]_Seen
    <2>1. /\ Shown = "absent" /\ Gone /\ Pipeline # "none"
          /\ Shown' = "absent" /\ Pipeline' = "none"
      BY <1>2, <1>3, <1>13 DEF EndedUnseen, Elsewhere, TaskEnds, Fit, FitTask, Shown
    <2> QED BY <1>13, <2>1
            DEF Contract!Next, Contract!EndUnseen, Contract!End, EndedUnseen, Elsewhere, Gone
  <1>14. ASSUME NEW r \in Runs, Returned(r) PROVE [Contract!Next]_Seen
    <2>1. /\ Shown = "running" \/ Gone
          /\ Pipeline = "working" /\ Shown' = "done" /\ Pipeline' = "none"
      BY <1>1, <1>2, <1>3, <1>14 DEF Returned, Placed, TaskEnds, Shown
    <2> QED BY <1>14, <2>1
            DEF Contract!Next, Contract!Return, Contract!End, Returned, Placed, Gone
  <1> QED BY <1>5, <1>6, <1>7, <1>8, <1>9, <1>10, <1>11, <1>12, <1>13, <1>14 DEF Shape

\* What clients see of a session, status by status, is what one pipeline at a
\* time would show: for one client whatever happens, for any number of them
\* when handlers are prompt and the process lives.
THEOREM ContractKept ==
  (Serial \/ Local) /\ "deleted" \in Recorded => (Spec => ImplementsContract)
  <1> SUFFICES ASSUME "deleted" \in Recorded, Serial \/ Local
               PROVE  Spec => ImplementsContract
    OBVIOUS
  <1>1. Init => GoneKnown /\ Deleted /\ Reading /\ NoWedge
    BY DEF Init, GoneKnown, Gone, Deleted, Reading, NoCall, NoWedge
  <1>2. Spec => [](TypeInv /\ OnceInv /\ GoneKnown)
    BY <1>1, InitTypeInv, NextTypeInv, InitOnceInv, NextOnce, NextGoneKnown, PTL DEF Spec
  <1>3. CASE Serial
    <2>1. Spec => [](TypeInv /\ OnceInv /\ SerialInv /\ Deleted /\ NoWedge /\ Reading)
      BY <1>1, <1>3, InitTypeInv, NextTypeInv, InitOnceInv, NextOnce, InitSerialInv,
         NextSerialInv, NextDeleted, NextNoWedge, NextReading, PTL DEF Spec
    <2>2. TypeInv /\ OnceInv /\ SerialInv /\ Deleted /\ NoWedge /\ Reading /\ [Next]_vars
            => [Contract!Next]_Seen
      BY <1>3, SerialFit, NextShape, StepContract
    <2> QED BY <2>1, <2>2, InitContract, PTL DEF Spec, ImplementsContract, Contract!Spec, Seen
  <1>4. CASE Local
    <2>1. ~MayCrash
      BY <1>4 DEF Local
    <2>2. Spec => [](TypeInv /\ OnceInv /\ BuiltInv /\ LocalInv)
      BY <1>4, <2>1, InitTypeInv, NextTypeInv, InitOnceInv, NextOnce, InitBuiltInv, NextBuilt,
         InitLocal, NextLocal, PTL DEF Spec
    <2>3. TypeInv /\ OnceInv /\ BuiltInv /\ GoneKnown /\ LocalInv /\ [Next]_vars
            => [Contract!Next]_Seen
      BY <1>4, LocalFit, NextShape, StepContract
    <2> QED BY <1>2, <2>2, <2>3, InitContract, PTL DEF Spec, ImplementsContract, Contract!Spec, Seen
  <1> QED BY <1>3, <1>4

\* A session that was deleted, and that no pipeline is working on any more,
\* never comes back into memory: for one client, or as long as the process lives.
THEOREM DeletionIsFinal == Serial \/ ~MayCrash => (Spec => StaysDeleted)
  <1>1. CASE Serial
    <2>1. Init => Deleted
      BY DEF Init, Deleted
    <2>2. Spec => [](TypeInv /\ SerialInv /\ OnceInv /\ Deleted)
      BY <1>1, <2>1, InitTypeInv, NextTypeInv, InitSerialInv, NextSerialInv, InitOnceInv, NextOnce,
         NextDeleted, PTL DEF Spec
    <2>3. TypeInv /\ SerialInv /\ OnceInv /\ Deleted /\ [Next]_vars
            => [("deleted" \in past /\ mem = None /\ \A r \in Runs : ~Working(r)) => mem' = None]_vars
      BY NextShape DEF Shape, Unmoved, Popped, Restarted, Generated, HandedOver, Installed, Started,
         Ended, EndedUnseen, Returned, TaskEnds, Elsewhere, Deleted
    <2> QED BY <2>2, <2>3, PTL DEF Spec, StaysDeleted
  <1>2. CASE ~MayCrash
    <2>1. Init => GoneKnown
      BY DEF Init, GoneKnown, Gone
    <2>2. Spec => [](TypeInv /\ OnceInv /\ BuiltInv /\ GoneKnown)
      BY <1>2, <2>1, InitTypeInv, NextTypeInv, InitOnceInv, NextOnce, InitBuiltInv, NextBuilt,
         NextGoneKnown, PTL DEF Spec
    <2>3. TypeInv /\ OnceInv /\ BuiltInv /\ GoneKnown /\ [Next]_vars
            => [("deleted" \in past /\ mem = None /\ \A r \in Runs : ~Working(r)) => mem' = None]_vars
      BY NextShape DEF Shape, Unmoved, Popped, Restarted, Generated, HandedOver, Installed, Started,
         Ended, EndedUnseen, Returned, TaskEnds, Elsewhere, GoneKnown, Gone, BuiltInv, CallBuilt
    <2> QED BY <2>2, <2>3, PTL DEF Spec, StaysDeleted
  <1> QED BY <1>1, <1>2
===========================================================================
