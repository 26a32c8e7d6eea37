---------------------------- MODULE EventStream ----------------------------
(***************************************************************************)
(* The event stream of one session: the queues main.py creates for its     *)
(* runs, the events the tasks put into them, and the connections of        *)
(* GET /stream that take them out again (main.py, static/js/app.js).       *)
(*                                                                         *)
(* A run keeps its queue; a new one is created for every iteration, and a  *)
(* connection keeps the queue that was current when it was opened.  Tasks  *)
(* and connections take turns in the event loop, but the runners put their *)
(* terminal lines into the asyncio queue from worker threads               *)
(* (sandbox/base.py), at any point of asyncio's Queue.get.                 *)
(*                                                                         *)
(* An iteration checks the status, stops the preview and only then takes a *)
(* new queue and starts its run: with SANDBOX_URL the handler awaits an    *)
(* HTTP call in between and several may pass the check; without, the two   *)
(* steps follow one another.  Which dict a handler holds is left open:     *)
(* it may not be the session's any more when the handler resumes.          *)
(***************************************************************************)
EXTENDS Naturals, Sequences

CONSTANTS
    Clients,    \* handlers that may be suspended at the same time
    Conns,      \* connections that may be open at the same time
    MaxQueues,  \* bound on the queues ever created
    MaxBuffer   \* bound: no progress event is put behind so many events

ASSUME StreamAssumption == MaxQueues \in Nat /\ MaxBuffer \in Nat

VARIABLES
    status,     \* state["status"], "absent" when the session is not in memory
    plan,       \* state["plan"] is set
    queue,      \* the session's entry in _event_queues, 0 if there is none
    fresh,      \* number of queues created so far
    buffer,     \* the events of every queue
    run,        \* the task that puts its outcome into the queue
    call,       \* the handlers that await something before they go on
    conn,       \* the connections
    opened,     \* history: connections ever opened on the queue, up to 2
    deleted     \* the session was deleted

session == <<status, plan, queue, fresh, run, call, deleted>>
vars == <<session, buffer, conn, opened>>

Queues == 1..MaxQueues
Events == {"plan", "note", "done", "error"}
Last == {"done", "error"}

\* Of a connection: where its generator is, its queue, and whether a client
\* still listens.
Conn == [at : {"free", "reading", "checked", "waiting"}, q : 0..MaxQueues, heard : BOOLEAN]

TypeOK ==
    /\ status \in {"absent", "running", "awaiting", "done", "error"}
    /\ plan \in BOOLEAN
    /\ fresh \in 0..MaxQueues /\ queue \in 0..fresh
    /\ buffer \in [Queues -> Seq(Events)]
    /\ run \in [Queues -> {"none", "planning", "working", "saving"}]
    /\ call \in [Clients -> {"idle", "asking", "late", "stopping", "loading"}]
    /\ conn \in [Conns -> Conn]
    /\ opened \in [Queues -> 0..2]
    /\ deleted \in BOOLEAN

Free == [at |-> "free", q |-> 0, heard |-> FALSE]

Init ==
    /\ status = "absent" /\ plan = FALSE /\ deleted = FALSE
    /\ fresh = 0 /\ queue = 0
    /\ buffer = [q \in Queues |-> <<>>]
    /\ run = [q \in Queues |-> "none"]
    /\ call = [c \in Clients |-> "idle"]
    /\ conn = [c \in Conns |-> Free]
    /\ opened = [q \in Queues |-> 0]

---------------------------------------------------------------------------
(* asyncio's queue *)

\* Between finding the queue empty and registering as a waiter a connection
\* keeps the event loop.
LoopFree == \A c \in Conns : conn[c].at # "checked"

Waiting(q) == {c \in Conns : conn[c].at = "waiting" /\ conn[c].q = q}

\* Mutant: a put wakes nobody.
WakeNobody(q) == conn' = conn

\* One waiter, if there is any, is told to look again.
WakeNext(q) ==
    \/ \E c \in Waiting(q) : conn' = [conn EXCEPT ![c].at = "reading"]
    \/ Waiting(q) = {} /\ conn' = conn

Put(q, event) ==
    /\ buffer' = [buffer EXCEPT ![q] = Append(@, event)]
    /\ WakeNext(q)

---------------------------------------------------------------------------
(* The runs of the session *)

Create(kind) ==
    /\ fresh < MaxQueues
    /\ fresh' = fresh + 1 /\ queue' = fresh + 1
    /\ run' = [run EXCEPT ![fresh + 1] = kind]
    /\ UNCHANGED <<plan, deleted, buffer, conn, opened>>

Generate ==
    /\ LoopFree /\ fresh = 0
    /\ Create("planning")
    /\ status' = "running" /\ UNCHANGED call

\* The task dies when the session is not in memory any more: the handler of
\* its own exception raises as well.
Fail(q) ==
    /\ run' = [run EXCEPT ![q] = "none"]
    /\ IF status = "absent"
       THEN UNCHANGED <<status, buffer, conn>>
       ELSE status' = "error" /\ Put(q, "error")
    /\ UNCHANGED <<plan, queue, fresh, call, deleted, opened>>

PlanReady(q) ==
    /\ run' = [run EXCEPT ![q] = "none"]
    /\ status # "absent" /\ status' = "awaiting" /\ plan' = TRUE
    /\ Put(q, "plan")
    /\ UNCHANGED <<queue, fresh, call, deleted, opened>>

Planner(q) ==
    /\ LoopFree /\ run[q] = "planning"
    /\ PlanReady(q) \/ Fail(q)

\* The build goes on with the planner's queue, which is always there.
Approve ==
    /\ LoopFree /\ status = "awaiting" /\ queue # 0
    /\ status' = "running"
    /\ run' = [run EXCEPT ![queue] = "working"]
    /\ UNCHANGED <<plan, queue, fresh, call, deleted, buffer, conn, opened>>

Suspend(c, at) ==
    /\ call' = [call EXCEPT ![c] = at]
    /\ UNCHANGED <<status, plan, queue, fresh, run, deleted, buffer, conn, opened>>

\* POST /iterate: the check, then the preview is stopped.
Iterate(c) ==
    /\ LoopFree /\ call[c] = "idle"
    /\ status \in Last /\ plan
    /\ Suspend(c, "stopping")

\* Mutant: the run keeps the session's queue.
IterateInPlace(c) ==
    /\ LoopFree /\ call[c] = "stopping" /\ queue # 0
    /\ run' = [run EXCEPT ![queue] = "working"]
    /\ status' = IF status = "absent" THEN status ELSE "running"
    /\ call' = [call EXCEPT ![c] = "idle"]
    /\ UNCHANGED <<plan, queue, fresh, deleted, buffer, conn, opened>>

\* The dict it holds is marked running, be it the session's or not.
IterateStopped(c) ==
    /\ LoopFree /\ call[c] = "stopping"
    /\ Create("working")
    /\ status' \in IF status = "absent" THEN {status} ELSE {status, "running"}
    /\ call' = [call EXCEPT ![c] = "idle"]

\* POST /chat: the dict is read before the model is asked, and looked at after.
Chat(c) ==
    /\ LoopFree /\ call[c] = "idle" /\ status # "absent"
    /\ Suspend(c, "asking")

ChatIterates(c) ==
    /\ LoopFree
    /\ call[c] = "late" \/ (call[c] = "asking" /\ status = "done" /\ plan)
    /\ Suspend(c, "stopping")

ChatReplied(c) ==
    /\ LoopFree /\ call[c] \in {"asking", "late"}
    /\ Suspend(c, "idle")

\* The session's dict leaves memory: a chat may still find its own one done.
Outdated ==
    [c \in Clients |-> IF call[c] = "asking" /\ status = "done" /\ plan
                       THEN "late" ELSE call[c]]

\* The back end returns: the session is done, or back in memory if it was
\* deleted, with a new dict (LangGraph) or the one the run was given (CrewAI);
\* its version is stored before the event is put.
WorkDone(q) ==
    /\ run' = [run EXCEPT ![q] = "saving"]
    /\ status' = "done" /\ plan' = TRUE
    /\ call' \in {call, Outdated}
    /\ UNCHANGED <<queue, fresh, deleted, buffer, conn, opened>>

Work(q) ==
    /\ LoopFree /\ run[q] = "working"
    /\ WorkDone(q) \/ Fail(q)

\* Mutant: a run that ended tells nobody once another one was started.
TellCurrent(q) ==
    /\ LoopFree /\ run[q] = "saving"
    /\ run' = [run EXCEPT ![q] = "none"]
    /\ IF q = queue THEN Put(q, "done") ELSE UNCHANGED <<buffer, conn>>
    /\ UNCHANGED <<status, plan, queue, fresh, call, deleted, opened>>

Tell(q) ==
    /\ LoopFree /\ run[q] = "saving"
    /\ run' = [run EXCEPT ![q] = "none"]
    /\ Put(q, "done")
    /\ UNCHANGED <<status, plan, queue, fresh, call, deleted, opened>>

\* A run reports to its own queue, or to that of a run that was started beside
\* it on the same dict before its agents looked there (main.py:558).
Reports(q) == \E p \in 1..q : run[p] = "working"

\* Agents and model calls report their progress, edits and chats theirs.
Note(q) ==
    /\ LoopFree /\ q <= fresh /\ Len(buffer[q]) < MaxBuffer
    /\ Reports(q) \/ q = queue
    /\ Put(q, "note")
    /\ UNCHANGED <<session, opened>>

\* A thread runs tests for the run, or the build of a preview.
ThreadNote(q) ==
    /\ q <= fresh /\ Len(buffer[q]) < MaxBuffer
    /\ Reports(q) \/ (q = queue /\ status = "done")
    /\ Put(q, "note")
    /\ UNCHANGED <<session, opened>>

---------------------------------------------------------------------------
(* Losing the session *)

\* DELETE /sessions/{id}: the queue stays, a run goes on.
Delete ==
    /\ LoopFree /\ fresh > 0 /\ ~deleted
    /\ status' = "absent" /\ deleted' = TRUE
    /\ call' = Outdated
    /\ UNCHANGED <<plan, queue, fresh, run, buffer, conn, opened>>

\* The process restarts, without queues, tasks, handlers and connections.
Restart ==
    /\ status' = "absent" /\ plan' = FALSE /\ queue' = 0
    /\ buffer' = [q \in Queues |-> <<>>]
    /\ run' = [q \in Queues |-> "none"]
    /\ call' = [c \in Clients |-> "idle"]
    /\ conn' = [c \in Conns |-> Free]
    /\ UNCHANGED <<fresh, deleted, opened>>

\* GET /sessions/{id}/restore reads the rows and installs the session, whatever
\* happened to it meanwhile; it creates no queue.
Restore(c) ==
    /\ LoopFree /\ call[c] = "idle"
    /\ status = "absent" /\ ~deleted /\ fresh > 0
    /\ Suspend(c, "loading")

RestoreInstalled(c) ==
    /\ LoopFree /\ call[c] = "loading"
    /\ status' = "done" /\ plan' \in BOOLEAN
    /\ call' = [Outdated EXCEPT ![c] = "idle"]
    /\ UNCHANGED <<queue, fresh, run, deleted, buffer, conn, opened>>

---------------------------------------------------------------------------
(* Connections *)

\* GET /stream/{id}: 404 without a queue.
Open(c) ==
    /\ LoopFree /\ conn[c].at = "free" /\ queue # 0
    /\ conn' = [conn EXCEPT ![c] = [at |-> "reading", q |-> queue, heard |-> TRUE]]
    /\ opened' = [opened EXCEPT ![queue] = IF @ = 0 THEN 1 ELSE 2]
    /\ UNCHANGED <<session, buffer>>

\* Mutant: the stream goes on behind the last event.
NeverLast(event) == FALSE

IsLast(event) == event \in Last

\* The event is sent, and the last one ends the stream; one sent to a client
\* that has gone is lost.
Take(c) ==
    LET q == conn[c].q
    IN  /\ LoopFree /\ conn[c].at = "reading" /\ buffer[q] # <<>>
        /\ buffer' = [buffer EXCEPT ![q] = Tail(@)]
        /\ conn' = [conn EXCEPT ![c] = IF IsLast(Head(buffer[q])) THEN Free ELSE @]
        /\ UNCHANGED <<session, opened>>

FindEmpty(c) ==
    /\ LoopFree /\ conn[c].at = "reading" /\ buffer[conn[c].q] = <<>>
    /\ conn' = [conn EXCEPT ![c].at = "checked"]
    /\ UNCHANGED <<session, buffer, opened>>

\* It waits, though a thread may have put an event since it looked.
Register(c) ==
    /\ conn[c].at = "checked"
    /\ conn' = [conn EXCEPT ![c].at = "waiting"]
    /\ UNCHANGED <<session, buffer, opened>>

\* The browser closes the stream or opens another, the network breaks it.
HangUp(c) ==
    /\ conn[c].heard
    /\ conn' = [conn EXCEPT ![c].heard = FALSE]
    /\ UNCHANGED <<session, buffer, opened>>

\* The server notices and cancels the generator, which passes an event it was
\* woken for on to the next waiter.
Cancel(c) ==
    /\ LoopFree /\ conn[c].at # "free" /\ ~conn[c].heard
    /\ \/ /\ conn[c].at = "waiting" \/ buffer[conn[c].q] = <<>> \/ Waiting(conn[c].q) = {}
          /\ conn' = [conn EXCEPT ![c] = Free]
       \/ /\ conn[c].at = "reading" /\ buffer[conn[c].q] # <<>>
          /\ \E d \in Waiting(conn[c].q) :
               conn' = [conn EXCEPT ![c] = Free, ![d].at = "reading"]
    /\ UNCHANGED <<session, buffer, opened>>

Outcome(q) == Planner(q) \/ Work(q) \/ Tell(q)

Serve(c) == Take(c) \/ FindEmpty(c) \/ Register(c) \/ Cancel(c)

Next ==
    \/ Generate \/ Approve \/ Delete \/ Restart
    \/ \E c \in Clients :
         \/ Iterate(c) \/ IterateStopped(c)
         \/ Chat(c) \/ ChatIterates(c) \/ ChatReplied(c)
         \/ Restore(c) \/ RestoreInstalled(c)
    \/ \E q \in Queues : Outcome(q) \/ Note(q) \/ ThreadNote(q)
    \/ \E c \in Conns : Open(c) \/ Serve(c) \/ HangUp(c)

Spec == Init /\ [][Next]_vars

\* Every run ends, and connections get their turns in the event loop.  What
\* must wait for one that registers as a waiter gets its turn again and again.
FairSpec ==
    /\ Spec
    /\ \A q \in Queues : SF_vars(Outcome(q))
    /\ \A c \in Conns : SF_vars(Serve(c))
---------------------------------------------------------------------------
(* Properties *)

Holds(q, events) == \E i \in 1..Len(buffer[q]) : buffer[q][i] \in events

\* A client is listening on a stream that was its queue's only one, to a
\* session nobody deleted.
Listening(c) ==
    /\ conn[c].at # "free" /\ conn[c].heard /\ opened[conn[c].q] = 1
    /\ ~deleted

\* A client never listens to a stream that has nothing more to say: the last
\* event is still to be taken, or a run that will put it is alive or waits for
\* the approval of its plan (main.py:436-453).
NoDeafStream ==
    \A c \in Conns : Listening(c) =>
        LET q == conn[c].q
        IN  Holds(q, Last) \/ run[q] # "none" \/ (status = "awaiting" /\ queue = q)

\* A stream that sleeps while its queue holds an event, because a thread put
\* it just before the stream registered, is woken by its run's next event
\* (base.py:31-38).
SleeperIsWoken ==
    \A c \in Conns :
      Listening(c) /\ conn[c].at = "waiting" /\ buffer[conn[c].q] # <<>> => run[conn[c].q] # "none"

\* The end that waits in a queue is that of its own run, which is over: whoever
\* reads it is not sent away from a run that is still at work, however many
\* iterations passed the check at once (main.py:548-550, 849-850).
EndIsFinal == \A q \in Queues : Holds(q, Last) => run[q] = "none"

\* A stream that stays its queue's only one ends, is told of the plan, or its
\* session is lost: no wake-up is missed for good (main.py:436-453).
Ends(c) ==
    Listening(c) ~> ~Listening(c) \/ (status = "awaiting" /\ ~Holds(conn[c].q, {"plan"}))

StreamEnds == \A c \in Conns : Ends(c)
=============================================================================
