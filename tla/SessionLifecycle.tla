------------------------- MODULE SessionLifecycle -------------------------
(***************************************************************************)
(* The life of one session of the app builder: the request handlers of     *)
(* main.py, the background tasks they create, the in-memory dictionaries   *)
(* they share and the session's rows in the database.                      *)
(*                                                                         *)
(* asyncio runs one piece of Python at a time, so a handler or a task is   *)
(* atomic from one suspension point to the next.  An action is such a      *)
(* piece.  A suspended handler is a record in "calls", a background task   *)
(* a record in "runs".                                                     *)
(*                                                                         *)
(* _session_states maps the session to a Python dict.  Handlers and tasks  *)
(* keep a reference to the dict they read, and the LangGraph back end      *)
(* returns a new one, so a dict is an element of Objects, "heap" gives its *)
(* fields and "mem" is the one _session_states holds.                      *)
(*                                                                         *)
(* Version numbers, event queues and previews have modules of their own.   *)
(***************************************************************************)
EXTENDS Naturals, FiniteSets

CONSTANTS
    Clients,    \* request handlers that may be in flight at the same time
    Runs,       \* background tasks that may be alive at the same time
    Objects,    \* identities of the state dicts
    Files,      \* file sets a pipeline or an editor can produce, even Empty
    Backends,   \* back ends a session may ask for
    Remote,     \* SANDBOX_URL is set: stopping a preview awaits an HTTP call
    MayCrash,   \* the server process may be killed and restarted
    Recorded,   \* the events "past" keeps track of
    Empty,      \* the empty file dict
    None        \* a missing entry

(* fault: a database write failed; overlap: an operation began while a     *)
(* task was alive; built: the plan was approved; buildFailed: its build    *)
(* ended in an error; deleted: DELETE was answered; silent: a task died    *)
(* without a terminal event; unsaved: the files in memory are an edit no   *)
(* version has captured yet (the only one that is taken back).             *)
Events == {"fault", "overlap", "built", "buildFailed", "deleted", "silent",
           "unsaved"}

ASSUME ConstantsAssumption ==
    /\ Backends \subseteq {"langgraph", "crewai"}
    /\ {Remote, MayCrash} \subseteq BOOLEAN
    /\ None \notin Objects
    /\ None \notin {"langgraph", "crewai"}
    /\ Recorded \subseteq Events

VARIABLES
    mem,        \* _session_states[session_id]
    heap,       \* the fields of every state dict
    backend,    \* _session_backends[session_id]
    history,    \* file sets in _session_histories[session_id]
    row,        \* the row of table sessions
    versions,   \* file snapshots in table versions
    current,    \* the snapshot whose is_current flag is set
    runs,       \* background tasks
    calls,      \* suspended request handlers
    (* History variables: what happened, for the properties to refer to. *)
    known,      \* POST /generate has answered with the session id
    past        \* remarkable events so far

memory   == <<mem, heap, backend, history>>
database == <<row, versions, current>>
vars     == <<mem, heap, backend, history, row, versions, current,
              runs, calls, known, past>>

FileSets == Files \cup {Empty}
Status   == {"running", "awaiting_approval", "done", "error"}
State    == [status : Status, plan : BOOLEAN, files : FileSets]
Row      == [status : {"running", "done"}, plan : BOOLEAN, backend : Backends]

RunPc   == {"idle", "working", "persisting", "committing", "telling"}
RunKind == {"plan", "build", "iterate"}
CallPc  == {"idle", "inserting", "stopping", "keys", "asking", "chatStopping",
            "loading", "installing", "applying", "popping"}

RunRecord ==
    [pc      : RunPc,
     kind    : RunKind \cup {"none"},
     obj     : Objects \cup {None},
     snap    : FileSets,
     backend : {"langgraph", "crewai"}]

CallRecord ==
    [pc    : CallPc,
     obj   : Objects \cup {None},
     row   : Row \cup {None},
     files : FileSets]

\* A missing row is no row.
ASSUME RowAssumption == None \notin Row

NewRow(b) == [status |-> "running", plan |-> FALSE, backend |-> b]
Blank  == [status |-> "running", plan |-> FALSE, files |-> Empty]
NoRun  == [pc |-> "idle", kind |-> "none", obj |-> None, snap |-> Empty,
           backend |-> "langgraph"]
NoCall == [pc |-> "idle", obj |-> None, row |-> None, files |-> Empty]

TypeOK ==
    /\ mem \in Objects \cup {None}
    /\ heap \in [Objects -> State]
    /\ backend \in Backends \cup {None}
    /\ history \subseteq Files
    /\ row \in Row \cup {None}
    /\ versions \subseteq FileSets
    /\ current \in FileSets
    /\ runs \in [Runs -> RunRecord]
    /\ calls \in [Clients -> CallRecord]
    /\ known \in BOOLEAN
    /\ past \subseteq Events

Init ==
    /\ mem = None
    /\ heap = [o \in Objects |-> Blank]
    /\ backend = None
    /\ history = {}
    /\ row = None
    /\ versions = {}
    /\ current = Empty
    /\ runs = [r \in Runs |-> NoRun]
    /\ calls = [c \in Clients |-> NoCall]
    /\ known = FALSE
    /\ past = {}

---------------------------------------------------------------------------
(* Helpers *)

\* Dicts something still refers to; any other identity may be allocated.
Live == {mem} \cup {runs[r].obj : r \in Runs} \cup {calls[c].obj : c \in Clients}
Fresh == Objects \ Live

Working(r) == runs[r].pc = "working"
Idle(r)    == runs[r].pc = "idle"
Quiescent  == /\ \A r \in Runs : Idle(r)
              /\ \A c \in Clients : calls[c].pc = "idle"

\* The caller c is free to send a request about a session it knows.
Ready(c) == known /\ calls[c] = NoCall

Suspend(c, pc, o) ==
    calls' = [calls EXCEPT ![c] = [NoCall EXCEPT !.pc = pc, !.obj = o]]
Answer(c) == calls' = [calls EXCEPT ![c] = NoCall]

Record(e) == past' = past \cup (e \cap Recorded)

\* A dict is created or filled in; dicts nobody refers to are collected.
Store(o, s) ==
    heap' = [x \in Objects |-> IF x = o THEN s
                              ELSE IF x \in Live THEN heap[x] ELSE Blank]
SetStatus(o, s) == heap' = [heap EXCEPT ![o].status = s]
SetFiles(o, f)  == heap' = [heap EXCEPT ![o].files = f]

\* What to remember of an operation that begins while a task is alive.
Overlap == IF \A r \in Runs : Idle(r) THEN {} ELSE {"overlap"}

\* asyncio.create_task: a new background task for the dict o.
Spawn(kind, o, events) ==
    \E r \in Runs :
        /\ Idle(r)
        /\ runs' = [runs EXCEPT ![r] =
              [NoRun EXCEPT !.pc = "working", !.kind = kind, !.obj = o,
                            !.backend = IF backend = None THEN "langgraph"
                                                          ELSE backend]]
        /\ Record(events \cup Overlap)

---------------------------------------------------------------------------
(* POST /generate: the dict is registered, then the row is inserted; the   *)
(* client learns the id when the planner task has been created.            *)

Generate(c) ==
    /\ ~known /\ mem = None
    /\ calls[c] = NoCall
    /\ \E o \in Fresh, b \in Backends :
        /\ mem' = o
        /\ Store(o, Blank)
        /\ backend' = b
        /\ calls' = [calls EXCEPT ![c] =
              [NoCall EXCEPT !.pc = "inserting", !.obj = o, !.row = NewRow(b)]]
    /\ UNCHANGED <<history, database, runs, known, past>>

\* A failed insert is logged and the session lives on in memory.
GenerateInserted(c) ==
    /\ calls[c].pc = "inserting"
    /\ \/ /\ row' = calls[c].row
          /\ Spawn("plan", calls[c].obj, {})
       \/ /\ row' = row
          /\ Spawn("plan", calls[c].obj, {"fault"})
    /\ known' = TRUE
    /\ Answer(c)
    /\ UNCHANGED <<memory, versions, current>>

\* Mutant: the status is left to the task.
ApprovePlanUnmarked(c) ==
    /\ Ready(c)
    /\ mem # None
    /\ heap[mem].status = "awaiting_approval"
    /\ Spawn("build", mem, {"built"})
    /\ UNCHANGED <<memory, database, calls, known>>

(* POST /approve-plan: no suspension point between the check and the task. *)
ApprovePlan(c) ==
    /\ Ready(c)
    /\ mem # None
    /\ heap[mem].status = "awaiting_approval"
    /\ SetStatus(mem, "running")
    /\ Spawn("build", mem, {"built"})
    /\ UNCHANGED <<mem, backend, history, database, calls, known>>

(* POST /iterate: check, stop the preview, mark running, perhaps read a    *)
(* stored provider key, create the task.                                   *)

\* Mutant: only the plan is looked at.
MayIteratePlanned(s) == s.plan
MayIterate(s) == s.status \in {"done", "error"} /\ s.plan

Launch(c, o, looksUpKey) ==
    /\ SetStatus(o, "running")
    /\ IF looksUpKey
       THEN Suspend(c, "keys", o) /\ UNCHANGED <<runs, past>>
       ELSE Answer(c) /\ Spawn("iterate", o, {})

Iterate(c, looksUpKey) ==
    /\ Ready(c)
    /\ mem # None
    /\ MayIterate(heap[mem])
    /\ IF Remote
       THEN Suspend(c, "stopping", mem) /\ UNCHANGED <<heap, runs, past>>
       ELSE Launch(c, mem, looksUpKey)
    /\ UNCHANGED <<mem, backend, history, database, known>>

IterateStopped(c, looksUpKey) ==
    /\ calls[c].pc = "stopping"
    /\ Launch(c, calls[c].obj, looksUpKey)
    /\ UNCHANGED <<mem, backend, history, database, known>>

IterateKeyRead(c) ==
    /\ calls[c].pc = "keys"
    /\ Spawn("iterate", calls[c].obj, {})
    /\ Answer(c)
    /\ UNCHANGED <<memory, database, known>>

(* POST /chat: the dict is read before the model is asked and used after.  *)

Chat(c) ==
    /\ Ready(c)
    /\ mem # None
    /\ Suspend(c, "asking", mem)
    /\ UNCHANGED <<memory, database, runs, known, past>>

\* Mutant: after a reply that asks for an iteration nothing is returned.
ChatRepliedElse(c) ==
    /\ calls[c].pc = "asking"
    /\ ~MayIterate(heap[calls[c].obj])
    /\ Answer(c)
    /\ UNCHANGED <<memory, database, runs, known, past>>

\* The reply does not ask for an iteration, or the call failed.
ChatReplied(c) ==
    /\ calls[c].pc = "asking"
    /\ Answer(c)
    /\ UNCHANGED <<memory, database, runs, known, past>>

ChatIterates(c) ==
    /\ calls[c].pc = "asking"
    /\ LET o == calls[c].obj IN
        /\ heap[o].status = "done" /\ heap[o].plan
        /\ IF Remote
           THEN Suspend(c, "chatStopping", o) /\ UNCHANGED <<heap, runs, past>>
           ELSE Launch(c, o, FALSE)
    /\ UNCHANGED <<mem, backend, history, database, known>>

ChatStopped(c) ==
    /\ calls[c].pc = "chatStopping"
    /\ Launch(c, calls[c].obj, FALSE)
    /\ UNCHANGED <<mem, backend, history, database, known>>

(* PUT /files: whatever the status, in memory only. *)
UpdateFiles(c, f) ==
    /\ Ready(c)
    /\ mem # None
    /\ SetFiles(mem, f)
    /\ Record({"unsaved"})
    /\ UNCHANGED <<mem, backend, history, database, runs, calls, known>>

(* POST /checkout: with versions in the database the rollback commits      *)
(* first and the dict follows; without, only memory changes.               *)

Checkout(c, f) ==
    /\ Ready(c)
    /\ f \in versions
    /\ current' = f
    /\ calls' = [calls EXCEPT ![c] = [NoCall EXCEPT !.pc = "applying", !.files = f]]
    /\ Record(Overlap)
    /\ UNCHANGED <<memory, row, versions, runs, known>>

CheckoutApplied(c) ==
    /\ calls[c].pc = "applying"
    /\ IF mem = None
       THEN UNCHANGED <<heap, past>>
       ELSE SetFiles(mem, calls[c].files) /\ past' = past \ {"unsaved"}
    /\ Answer(c)
    /\ UNCHANGED <<mem, backend, history, database, runs, known>>

CheckoutInMemory(c, f) ==
    /\ Ready(c)
    /\ versions = {}
    /\ mem # None
    /\ f \in history
    /\ SetFiles(mem, f)
    /\ Record({"unsaved"})
    /\ UNCHANGED <<mem, backend, history, database, runs, calls, known>>

(* GET /restore: a session not in memory is read from the database (the    *)
(* row, then the current version) and installed without looking again.     *)

Restore(c) ==
    /\ Ready(c)
    /\ mem = None
    /\ row # None
    /\ calls' = [calls EXCEPT ![c] = [NoCall EXCEPT !.pc = "loading", !.row = row]]
    /\ UNCHANGED <<memory, database, runs, known, past>>

RestoreLoaded(c) ==
    /\ calls[c].pc = "loading"
    /\ calls' = [calls EXCEPT ![c].pc = "installing", ![c].files = current]
    /\ UNCHANGED <<memory, database, runs, known, past>>

\* Any stored status but done and error is read back as done.
RestoreInstalled(c) ==
    /\ calls[c].pc = "installing"
    /\ \E o \in Fresh :
        /\ mem' = o
        /\ Store(o, [status |-> "done",
                     plan   |-> calls[c].row.plan,
                     files  |-> calls[c].files])
    /\ backend' = calls[c].row.backend
    /\ past' = past \ {"unsaved"}
    /\ Answer(c)
    /\ UNCHANGED <<history, database, runs, known>>

\* Mutant: the versions go, the session row stays.
DeleteKeepsRow(c) ==
    /\ Ready(c)
    /\ row # None
    /\ versions' = {} /\ current' = Empty
    /\ Suspend(c, "popping", None)
    /\ UNCHANGED <<memory, row, runs, known, past>>

(* DELETE /sessions: the rows go in one transaction, then the dict. *)

Delete(c) ==
    /\ Ready(c)
    /\ row # None
    /\ row' = None /\ versions' = {} /\ current' = Empty
    /\ Suspend(c, "popping", None)
    /\ UNCHANGED <<memory, runs, known, past>>

DeletePopped(c) ==
    /\ calls[c].pc = "popping"
    /\ mem' = None /\ backend' = None
    /\ Record({"deleted"})
    /\ Answer(c)
    /\ UNCHANGED <<heap, history, database, runs, known>>

---------------------------------------------------------------------------
(* Background tasks *)

\* The task's last step, leaving the past events e.
Finish(r, e) == /\ runs' = [runs EXCEPT ![r] = NoRun]
                /\ Record(e)

\* Mutant: the session is done once it is planned.
PlanReadyDone(r) ==
    /\ Working(r) /\ runs[r].kind = "plan"
    /\ mem # None
    /\ heap' = [heap EXCEPT ![mem].plan = TRUE, ![mem].status = "done"]
    /\ Finish(r, {})
    /\ UNCHANGED <<mem, backend, history, database, calls, known>>

(* _run_pipeline_task: the planner's result goes to the dict that is in    *)
(* _session_states by then.                                                *)
PlanReady(r) ==
    /\ Working(r) /\ runs[r].kind = "plan"
    /\ mem # None
    /\ heap' = [heap EXCEPT ![mem].plan = TRUE,
                            ![mem].status = "awaiting_approval"]
    /\ Finish(r, {})
    /\ UNCHANGED <<mem, backend, history, database, calls, known>>

\* Mutant: the error is emitted, the status forgotten.
RunFailedUnmarked(r) ==
    /\ Working(r)
    /\ mem # None
    /\ Finish(r, {})
    /\ UNCHANGED <<memory, database, calls, known>>

(* The except branch of the three tasks: mark the session, emit "error".   *)
RunFailed(r) ==
    /\ Working(r)
    /\ mem # None
    /\ SetStatus(mem, "error")
    /\ Finish(r, IF runs[r].kind = "build" THEN {"buildFailed"} ELSE {})
    /\ UNCHANGED <<mem, backend, history, database, calls, known>>

\* Mutant: an exception nobody catches.
RunDies(r) ==
    /\ Working(r)
    /\ Finish(r, {"silent"})
    /\ UNCHANGED <<memory, database, calls, known>>

(* With the session gone from _session_states the except branch raises a   *)
(* KeyError of its own and the task dies without emitting anything.  A     *)
(* planner dies so even when it succeeded.                                 *)
RunLost(r) ==
    /\ Working(r)
    /\ mem = None
    /\ Finish(r, {"silent"})
    /\ UNCHANGED <<memory, database, calls, known>>

\* CrewAI writes files into the dict it was given as its agents finish.
CrewWritesFiles(r, f) ==
    /\ Working(r) /\ runs[r].kind # "plan"
    /\ runs[r].backend = "crewai"
    /\ SetFiles(runs[r].obj, f)
    /\ UNCHANGED <<mem, backend, history, database, runs, calls, known, past>>

(* backend.run_iterate has returned: LangGraph hands over a new dict with  *)
(* the old one's plan, CrewAI the same dict.  It becomes the session's     *)
(* dict, marked done, before anything is persisted.                        *)
RunReturned(r, f) ==
    /\ Working(r) /\ runs[r].kind # "plan"
    /\ \E o \in IF runs[r].backend = "crewai" THEN {runs[r].obj} ELSE Fresh :
        /\ mem' = o
        /\ Store(o, [status |-> "done",
                     plan   |-> heap[runs[r].obj].plan,
                     files  |-> f])
        /\ runs' = [runs EXCEPT ![r].pc = "persisting", ![r].obj = o]
    /\ history' = history \cup {f}
    /\ past' = past \ {"unsaved"}
    /\ UNCHANGED <<backend, database, calls, known>>

(* First database step: a build updates the session row, an iteration asks *)
(* for the next version number.  The snapshot is taken from the dict only  *)
(* after it.                                                               *)
Prepare(r) ==
    /\ runs[r].pc = "persisting"
    /\ row' = IF runs[r].kind = "build" /\ row # None
              THEN [row EXCEPT !.status = "done", !.plan = heap[runs[r].obj].plan]
              ELSE row
    /\ runs' = [runs EXCEPT ![r].pc = "committing",
                            ![r].snap = heap[runs[r].obj].files]
    /\ past' = IF mem = runs[r].obj THEN past \ {"unsaved"} ELSE past
    /\ UNCHANGED <<memory, versions, current, calls, known>>

\* Mutant: the new version is not made the current one.
CommitUnmarked(r) ==
    /\ runs[r].pc = "committing"
    /\ row # None
    /\ versions' = versions \cup {runs[r].snap}
    /\ runs' = [runs EXCEPT ![r].pc = "telling"]
    /\ UNCHANGED <<memory, row, current, calls, known, past>>

\* create_version; without the session row the foreign key rejects it.
Commit(r) ==
    /\ runs[r].pc = "committing"
    /\ row # None
    /\ versions' = versions \cup {runs[r].snap}
    /\ current' = runs[r].snap
    /\ runs' = [runs EXCEPT ![r].pc = "telling"]
    /\ UNCHANGED <<memory, row, calls, known, past>>

\* A database error is logged; the task goes on.
PersistFailed(r) ==
    /\ runs[r].pc \in {"persisting", "committing"}
    /\ runs' = [runs EXCEPT ![r].pc = "telling"]
    /\ Record({"fault"})
    /\ UNCHANGED <<memory, database, calls, known>>

\* The cache and the memory extraction are best effort; then pipeline_done.
Tell(r) ==
    /\ runs[r].pc = "telling"
    /\ Finish(r, {})
    /\ UNCHANGED <<memory, database, calls, known>>

---------------------------------------------------------------------------
(* The process is killed and started again: only the database is left. *)
Restart ==
    /\ MayCrash
    /\ mem # None \/ ~Quiescent
    /\ mem' = None
    /\ heap' = [o \in Objects |-> Blank]
    /\ backend' = None
    /\ history' = {}
    /\ runs' = [r \in Runs |-> NoRun]
    /\ calls' = [c \in Clients |-> NoCall]
    /\ past' = past \ {"unsaved"}
    /\ UNCHANGED <<database, known>>

\* A request arrives.
Request(c) ==
    \/ Generate(c)
    \/ ApprovePlan(c)
    \/ \E looksUpKey \in BOOLEAN : Iterate(c, looksUpKey)
    \/ Chat(c)
    \/ \E f \in Files : UpdateFiles(c, f)
    \/ \E f \in versions : Checkout(c, f)
    \/ \E f \in history : CheckoutInMemory(c, f)
    \/ Restore(c)
    \/ Delete(c)

\* A suspended handler resumes.
Resume(c) ==
    \/ GenerateInserted(c)
    \/ \E looksUpKey \in BOOLEAN : IterateStopped(c, looksUpKey)
    \/ IterateKeyRead(c)
    \/ ChatReplied(c)
    \/ ChatIterates(c)
    \/ ChatStopped(c)
    \/ CheckoutApplied(c)
    \/ RestoreLoaded(c)
    \/ RestoreInstalled(c)
    \/ DeletePopped(c)

\* A background task makes progress.
Advance(r) ==
    \/ PlanReady(r)
    \/ RunFailed(r)
    \/ RunLost(r)
    \/ \E f \in Files : RunReturned(r, f)
    \/ Prepare(r)
    \/ Commit(r)
    \/ PersistFailed(r)
    \/ Tell(r)

Next ==
    \/ \E c \in Clients : Request(c) \/ Resume(c)
    \/ \E r \in Runs : Advance(r) \/ \E f \in Files : CrewWritesFiles(r, f)
    \/ Restart

Spec == Init /\ [][Next]_vars

(* The event loop resumes every handler and task whose awaited operation   *)
(* has ended, and every awaited operation (database, model, HTTP) ends or  *)
(* times out.  Clients owe nothing.                                        *)
Fairness == /\ \A c \in Clients : WF_vars(Resume(c))
            /\ \A r \in Runs : WF_vars(Advance(r))
FairSpec == Spec /\ Fairness

---------------------------------------------------------------------------
(* Properties *)

\* Two pipelines never work on the session at once: iterate (main.py:541)
\* and chat (main.py:844) refuse while one does, approve_plan (main.py:418)
\* wants a planned session.  Holds for one client at a time.
OneRun == \A q, r \in Runs : Working(q) /\ Working(r) => q = r

\* While a pipeline works, everyone who looks the session up sees the very
\* dict it works for, with status running: no reader is told done or error
\* (status, download, preview_start) before the pipeline has returned.
RunOwnsSession ==
    \A r \in Runs : Working(r) /\ mem # None =>
        mem = runs[r].obj /\ heap[mem].status = "running"

\* A session shown as running always has somebody who will end that: the
\* task working on that very dict, or the handler about to create it.  Else
\* iterate would refuse for ever.  Holds however many clients race.
NoWedge ==
    mem # None /\ heap[mem].status = "running" =>
        \/ \E r \in Runs : Working(r) /\ runs[r].obj = mem
        \/ \E c \in Clients : calls[c].pc \in {"inserting", "keys"}
                              /\ calls[c].obj = mem

\* A task ends without its terminal event only if the session was deleted
\* under it (the KeyError in the except branches of main.py:1156-1160).
NoSilentDeath == "silent" \in past => "deleted" \in past

\* However many clients approve the plan, the build task, which numbers its
\* version 1 whatever the table holds, is created once (main.py:418-430).
BuildOnce ==
    [][(\E r \in Runs : Idle(r) /\ runs'[r].kind = "build") => "built" \notin past]_vars

\* When nothing is in flight, a restart would give back the session as it
\* is: the current version holds the files in memory and the row the plan.
\* Excused: an edit nobody saved, a database error, a deletion, a task or a
\* checkout started while a task was still alive, a failed build.
DoneIsDurable ==
    /\ Quiescent /\ mem # None
    /\ past \cap {"fault", "overlap", "deleted", "unsaved"} = {}
    =>  /\ row # None
        /\ heap[mem].status = "done" => current = heap[mem].files
        /\ "buildFailed" \notin past /\ heap[mem].status = "done" =>
               (heap[mem].plan <=> row.plan)

\* Once a deletion was answered and no pipeline is left working, nothing
\* brings the session back into memory.
StaysDeleted ==
    [][("deleted" \in past /\ mem = None /\ \A r \in Runs : ~Working(r))
       => mem' = None]_vars

\* main.py:482 "Pipeline not complete yet": a session shown as done, ready to
\* be downloaded, has had a pipeline return for it, with files or without:
\* its result is in the history or in a version (main.py:1173-1184).  So it
\* is until a restart reads an unfinished session back as done (main.py:328).
DoneMeansBuilt ==
    mem # None /\ heap[mem].status = "done" => history \cup versions # {}

\* A session shown as running is eventually shown as something else, or
\* gone: the planner, the build and every iteration end.
RunningEnds ==
    (mem # None /\ heap[mem].status = "running")
        ~> (mem = None \/ heap[mem].status # "running")

\* Every request is answered.
EveryCallAnswered == \A c \in Clients : calls[c] # NoCall ~> calls[c] = NoCall

(* What whoever looks at the status is promised: for one client at a time,  *)
(* and for any number of them as long as the process lives and stopping a  *)
(* preview needs no HTTP call.                                             *)

Shown == IF mem = None THEN "absent" ELSE heap[mem].status

\* A handler about to create a task counts as the task once the status says so.
Pipeline ==
    IF (\E r \in Runs : Working(r) /\ runs[r].kind = "plan")
         \/ \E c \in Clients : calls[c].pc = "inserting"
    THEN "planning"
    ELSE IF (\E r \in Runs : Working(r)) \/ \E c \in Clients : calls[c].pc = "keys"
    THEN "working"
    ELSE "none"

Contract == INSTANCE SessionContract
                WITH shown <- Shown, work <- Pipeline, gone <- "deleted" \in past

\* Whatever clients, tasks and restarts do, what they see of the session is
\* what one pipeline at a time would do: no task is started beside another
\* (main.py:418, 541, 844), a task's end shows in the session it worked for,
\* and nothing but a pipeline brings back a deleted session.
ImplementsContract == Contract!Spec

---------------------------------------------------------------------------
(* What the repository says and the code does not do. *)

\* main.py:763 "Delete a session and its related data."  A pipeline that was
\* working puts the session back into memory when it returns.
DeletedIsGone == "deleted" \in past => mem = None

\* db/models.py:74 "A file snapshot - created after each pipeline run,
\* iteration, or manual edit."
EditIsVersioned ==
    Quiescent /\ mem # None /\ "fault" \notin past /\ heap[mem].status = "done"
        => heap[mem].files \in versions \cup {Empty}

\* main.py:283 "Restore a session from DB into memory and return its data.":
\* a session that has versions was built from a plan.
RestoredKeepsPlan ==
    mem # None /\ versions # {} /\ "fault" \notin past => heap[mem].plan
===========================================================================
