--------------------------- MODULE RemotePreview ---------------------------
(***************************************************************************)
(* The preview of one session when SANDBOX_URL is set: the handlers of the *)
(* application (main.py), the gateway's record of what is being previewed  *)
(* (_remote_active in sandbox/gateway.py) and the sandbox service that     *)
(* serves the files (sandbox_service/app.py).  What the service does to    *)
(* start and stop a preview is the subject of PreviewServer; here it       *)
(* serves a set of files or none.                                          *)
(*                                                                         *)
(* Handlers of one session run concurrently, each waiting for one request  *)
(* at a time.  The service or the application may restart, and a request   *)
(* may be lost or outlast the gateway's time limit, the service then       *)
(* handling it late.                                                       *)
(***************************************************************************)
EXTENDS FiniteSets, Naturals

CONSTANTS
    Calls,      \* calls of the handlers that may be in progress at a time
    Files,      \* contents the session's files may have
    None,       \* no call, no files
    MaxLate     \* bound: requests the service handles after their time limit

ASSUME PreviewAssumption ==
    None \notin Calls /\ None \notin Files /\ MaxLate \in Nat

VARIABLES
    status,     \* state["status"], "unloaded" when the session is not in memory
    files,      \* state["files"]
    active,     \* the session is in _remote_active
    call,       \* the handlers in progress
    requests,   \* the gateway's requests and the service's answers
    served,     \* the files the service serves
    overlapped, \* history: calls were in progress at the same time
    trusted     \* history: nothing happened that lets the two sides disagree

app == <<status, files, active, call>>
vars == <<app, requests, served, overlapped, trusted>>

Ops == {"start", "stop", "update", "checkout", "iterate"}
Answers == {"ok", "failed", "error", "lost"}

\* A handler: what it does, the files of an update, and whether no other call
\* was in progress so far.
Call == [op : Ops \cup {"none"}, files : Files \cup {None}, alone : BOOLEAN]

\* A request: whose it is, None once nobody waits for it.
Request == [of : Calls \cup {None}, kind : {"start", "stop"},
            files : Files \cup {None}, state : {"sent", "registered"} \cup Answers]

NoCall == [op |-> "none", files |-> None, alone |-> FALSE]

TypeOK ==
    /\ status \in {"unloaded", "running", "done", "error"}
    /\ files \in Files
    /\ active \in BOOLEAN
    /\ call \in [Calls -> Call]
    /\ requests \subseteq Request
    /\ served \in Files \cup {None}
    /\ overlapped \in BOOLEAN /\ trusted \in BOOLEAN

\* The session's first build is under way.
Init ==
    /\ status = "running" /\ files \in Files
    /\ active = FALSE /\ served = None
    /\ call = [c \in Calls |-> NoCall] /\ requests = {}
    /\ overlapped = FALSE /\ trusted = TRUE

Idle(c) == call[c] = NoCall

Quiet == requests = {} /\ \A c \in Calls : Idle(c)

---------------------------------------------------------------------------
(* The gateway's requests *)

Ask(c, kind, fs) == [of |-> c, kind |-> kind, files |-> fs, state |-> "sent"]

\* preview_stop forgets the preview before it asks the service.
\* Mutant: it forgets it only when the service has answered.
KeepsActive == active' = active
Forget == active' = FALSE

Begin(c, op, fs, kind, sent) ==
    /\ Idle(c)
    /\ call' = [d \in Calls |->
                  IF d = c THEN [op |-> op, files |-> fs, alone |-> Quiet]
                           ELSE [call[d] EXCEPT !.alone = FALSE]]
    /\ requests' = requests \cup {Ask(c, kind, sent)}
    /\ overlapped' = (overlapped \/ ~Quiet)

\* The call's requests are over.
End(c) == call' = [call EXCEPT ![c] = NoCall]

---------------------------------------------------------------------------
(* The handlers *)

\* POST /preview/{id}/start.  Starting what runs already gives up the old
\* preview without stopping it.
PreviewStart(c) ==
    /\ status = "done"
    /\ Begin(c, "start", None, "start", files)
    /\ trusted' = (trusted /\ Quiet /\ ~active)
    /\ UNCHANGED <<status, files, active, served>>

\* POST /preview/{id}/stop
PreviewStop(c) ==
    /\ status # "unloaded"
    /\ Forget
    /\ Begin(c, "stop", None, "stop", None)
    /\ trusted' = (trusted /\ Quiet)
    /\ UNCHANGED <<status, files, served>>

\* PUT /files/{id} and POST /checkout/{id}/{version}: new files, and the
\* preview is restarted if there is one.  An update restarts with the files it
\* was sent, a checkout with those the session has by then.
Restart(c, op, fs) ==
    /\ status # "unloaded" /\ Idle(c)
    /\ files' = fs
    /\ IF active
       THEN /\ Forget
            /\ Begin(c, op, IF op = "update" THEN fs ELSE None, "stop", None)
            /\ trusted' = (trusted /\ Quiet)
       ELSE /\ overlapped' = (overlapped \/ ~Quiet)
            /\ UNCHANGED <<active, call, requests, trusted>>
    /\ UNCHANGED <<status, served>>

UpdateFiles(c) == \E fs \in Files : Restart(c, "update", fs)

Checkout(c) == \E fs \in Files : Restart(c, "checkout", fs)

\* POST /iterate/{id}: the preview is stopped before the run starts.
Iterate(c) ==
    /\ status \in {"done", "error"}
    /\ Forget
    /\ Begin(c, "iterate", None, "stop", None)
    /\ trusted' = (trusted /\ Quiet)
    /\ UNCHANGED <<status, files, served>>

\* A run ends: with new files, or in an error.
RunEnds ==
    /\ status = "running"
    /\ \/ status' = "done" /\ files' \in Files
       \/ status' = "error" /\ UNCHANGED files
    /\ UNCHANGED <<active, call, requests, served, overlapped, trusted>>

---------------------------------------------------------------------------
(* Answers *)

Answered(c, kind) == {r \in requests : r.of = c /\ r.kind = kind /\ r.state \in Answers}

\* A lone stop that the service carried out leaves no doubt.
Heals(c, r) == call[c].op = "stop" /\ call[c].alone /\ r.state = "ok"

\* Whatever became of the stop: it is logged at most.  A restart goes on with
\* the start, an iteration with the run.
StopReturns(c) ==
    \E r \in Answered(c, "stop") :
      /\ CASE call[c].op = "stop" ->
                /\ End(c)
                /\ requests' = requests \ {r}
                /\ UNCHANGED status
           [] call[c].op = "iterate" ->
                /\ End(c)
                /\ requests' = requests \ {r}
                /\ status' = "running"
           [] OTHER ->
                /\ requests' = (requests \ {r}) \cup
                     {Ask(c, "start", IF call[c].op = "update" THEN call[c].files ELSE files)}
                /\ UNCHANGED <<status, call>>
      /\ overlapped' = (overlapped /\ ~Heals(c, r))
      /\ trusted' = (trusted \/ Heals(c, r))
      /\ UNCHANGED <<files, active, served>>

\* Mutant: the preview counts as started whatever the service answers.
AlwaysStarted(r) == TRUE

\* 503 raises RuntimeError, any other error or none at all an HTTP error.
Started(r) == r.state = "ok"

\* Mutant: without an answer the handler waits on.
StartWaitsOn(c) ==
    \E r \in Answered(c, "start") :
      /\ r.state # "lost"
      /\ End(c)
      /\ requests' = requests \ {r}
      /\ active' = (active \/ Started(r))
      /\ UNCHANGED <<status, files, served, overlapped, trusted>>

StartReturns(c) ==
    \E r \in Answered(c, "start") :
      /\ End(c)
      /\ requests' = requests \ {r}
      /\ active' = (active \/ Started(r))
      /\ UNCHANGED <<status, files, served, overlapped, trusted>>

Return(c) == StopReturns(c) \/ StartReturns(c)

---------------------------------------------------------------------------
(* The service *)

Serves == UNCHANGED <<app, overlapped, trusted>>

\* Nobody hears the answer to a late request.
Answer(r, state) ==
    requests' = (requests \ {r}) \cup
                (IF r.of = None THEN {} ELSE {[r EXCEPT !.state = state]})

ServiceStop(r) ==
    /\ r.kind = "stop" /\ r.state = "sent"
    /\ served' = None
    /\ Answer(r, "ok")
    /\ Serves

\* From here on the files are served: at once when they are static, after the
\* build, or as soon as the server process runs.
ServiceRegister(r) ==
    /\ r.kind = "start" /\ r.state = "sent"
    /\ served' = r.files
    /\ requests' = (requests \ {r}) \cup {[r EXCEPT !.state = "registered"]}
    /\ Serves

\* The build fails or no port is left (503), the files cannot be written (500).
ServiceRefuse(r) ==
    /\ r.kind = "start" /\ r.state = "sent"
    /\ \E state \in {"failed", "error"} : Answer(r, state)
    /\ UNCHANGED served
    /\ Serves

\* The preview is ready, or the server never answers and is unregistered.
ServiceStarted(r) ==
    /\ r.kind = "start" /\ r.state = "registered"
    /\ \/ Answer(r, "ok") /\ UNCHANGED served
       \/ Answer(r, "failed") /\ served' = None
    /\ Serves

\* The service works on the request of a call, or on a late one.
Serve(c) == \E r \in requests :
    /\ r.of = c
    /\ ServiceStop(r) \/ ServiceRegister(r) \/ ServiceRefuse(r) \/ ServiceStarted(r)

---------------------------------------------------------------------------
(* Faults *)

Waiting(c) == {r \in requests : r.of = c /\ r.state \notin Answers}

Late == {r \in requests : r.of = None}

\* The service cannot be reached.
Lose(c) ==
    \E r \in Waiting(c) :
      /\ r.state = "sent"
      /\ Answer(r, "lost")
      /\ trusted' = FALSE
      /\ UNCHANGED <<app, served, overlapped>>

\* 20 s for a stop, 300 s for a start; the service goes on with the request.
TimeOut(c) ==
    \E r \in Waiting(c) :
      /\ Cardinality(Late) < MaxLate
      /\ requests' = (requests \ {r}) \cup
                     {[r EXCEPT !.of = None], [r EXCEPT !.state = "lost"]}
      /\ trusted' = FALSE
      /\ UNCHANGED <<app, served, overlapped>>

\* The service forgets its previews and the requests under way.
ServiceRestarts ==
    /\ served' = None
    /\ requests' = {IF r.state \in Answers THEN r ELSE [r EXCEPT !.state = "lost"] :
                      r \in requests \ Late}
    /\ trusted' = FALSE
    /\ UNCHANGED <<app, overlapped>>

\* The application forgets sessions, previews and handlers; what it asked the
\* service for is handled still, or given up as its connection is closed.
AppRestarts ==
    /\ status' = "unloaded" /\ active' = FALSE
    /\ call' = [c \in Calls |-> NoCall]
    /\ \E rs \in SUBSET {r \in requests : r.state \notin Answers} :
         /\ Cardinality(rs) <= MaxLate
         /\ requests' = {[r EXCEPT !.of = None] : r \in rs}
    /\ trusted' = FALSE
    /\ UNCHANGED <<files, served, overlapped>>

\* GET /sessions/{id}/restore: the session as the database has it.
Restore ==
    /\ status = "unloaded"
    /\ status' \in {"done", "error"}
    /\ files' \in Files
    /\ UNCHANGED <<active, call, requests, served, overlapped, trusted>>

Handle(c) ==
    \/ PreviewStart(c) \/ PreviewStop(c) \/ UpdateFiles(c) \/ Checkout(c) \/ Iterate(c)
    \/ Return(c) \/ Lose(c) \/ TimeOut(c)

Next ==
    \/ \E c \in Calls : Handle(c)
    \/ \E c \in Calls \cup {None} : Serve(c)
    \/ RunEnds \/ ServiceRestarts \/ AppRestarts \/ Restore

Spec == Init /\ [][Next]_vars

\* The service answers what it is asked, and handlers go on with the answers.
FairSpec == Spec /\ \A c \in Calls : WF_vars(Serve(c)) /\ WF_vars(Return(c))

---------------------------------------------------------------------------
(* Properties *)

\* When nothing is in progress, the gateway counts the session as previewed
\* exactly if the service serves it: as long as calls come one at a time, a
\* preview is stopped before it is started again and nothing fails, and from
\* any lone successful stop on (gateway.py:104 and 114).
GatewayAgrees == Quiet /\ trusted => (active <=> served # None)

\* What GET /preview/{id}/ shows: nothing unless both sides know the preview.
Shows == IF active THEN served ELSE None

\* A page of the preview is always made from the files the session has, and
\* none is shown during a run, not even in the middle of a restart or after
\* lost requests and restarts of either side, unless calls overlapped
\* (main.py:513-520, 545, 617-623).
PageIsCurrent == ~overlapped /\ Shows # None => Shows = files /\ status = "done"

\* Every handler returns, though its requests get lost, time out or the
\* service restarts under them.
CallsEnd == \A c \in Calls : call[c].op # "none" ~> Idle(c)
=============================================================================
