-------------------------- MODULE EventStreamProofs --------------------------
(***************************************************************************)
(* Proofs about EventStream, for any number of handlers, connections,      *)
(* queues and buffered events, runs that overlap included: nobody listens  *)
(* in vain, and an end is told when its run is over.                       *)
(***************************************************************************)
EXTENDS EventStream, SequenceTheorems, TLAPS

\* Queues that were never created are untouched; a connection has a queue.
Room ==
    /\ \A q \in Queues : q > fresh => buffer[q] = <<>> /\ run[q] = "none" /\ opened[q] = 0
    /\ \A c \in Conns : conn[c].at # "free" =>
         conn[c].q \in Queues /\ conn[c].q <= fresh /\ opened[conn[c].q] # 0

\* Two connections of a queue are counted.
Counted ==
    \A c, d \in Conns :
      c # d /\ conn[c].at # "free" /\ conn[d].at # "free" /\ conn[c].q = conn[d].q
        => opened[conn[c].q] = 2

\* A run that is alive has not told how it ended.
Runs == \A q \in Queues : run[q] # "none" => ~Holds(q, Last)

\* No handler is about to start a run, or to install the session.
Young == \A c \in Clients : call[c] \in {"idle", "asking"}

\* The planner, and the plan that waits for its approval, come first: there
\* is one queue yet, and nobody may iterate.
First ==
    /\ fresh = 0 => status = "absent" /\ ~deleted /\ \A c \in Clients : call[c] = "idle"
    /\ status = "awaiting" =>
         /\ fresh = 1 /\ queue = 1 /\ ~Holds(1, Last) /\ Young
         /\ \A q \in Queues : run[q] = "none"
    /\ \A q \in Queues : run[q] = "planning" =>
         /\ q = 1 /\ fresh = 1 /\ queue = 1 /\ Young
         /\ status = "running" \/ (status = "absent" /\ deleted)

\* A session that is not in memory, though nobody deleted it, is one of a
\* process that restarted.
Away ==
    status = "absent" /\ ~deleted =>
      /\ queue = 0 /\ \A q \in Queues : run[q] = "none"
      /\ \A c \in Clients : call[c] \in {"idle", "loading"}

\* Something will still be said on a queue.
Fed(q) == Holds(q, Last) \/ run[q] # "none" \/ (status = "awaiting" /\ queue = q)

AllFed ==
    /\ queue # 0 /\ ~deleted /\ opened[queue] = 0 => Fed(queue)
    /\ \A c \in Conns : Listening(c) => Fed(conn[c].q)

\* A stream that is about to sleep, or sleeps, beside an event.
Awake ==
    \A c \in Conns :
      Listening(c) /\ conn[c].at \in {"checked", "waiting"} /\ buffer[conn[c].q] # <<>>
        => run[conn[c].q] # "none"

IInv == TypeOK /\ Room /\ Counted /\ Runs /\ First /\ Away /\ AllFed /\ Awake

---------------------------------------------------------------------------
(* Buffers *)

LEMMA LastFact == Last \in SUBSET Events /\ {"done"} \in SUBSET Events
                  /\ {"error"} \in SUBSET Events /\ {"plan"} \in SUBSET Events
BY DEF Last, Events

LEMMA PutHolds ==
    ASSUME TypeOK, NEW q \in Queues, NEW event \in Events,
           buffer' = [buffer EXCEPT ![q] = Append(@, event)]
    PROVE  /\ buffer' \in [Queues -> Seq(Events)]
           /\ buffer'[q] # <<>>
           /\ \A p \in Queues : p # q => buffer'[p] = buffer[p]
           /\ \A p \in Queues : \A E \in SUBSET Events :
                Holds(p, E)' <=> Holds(p, E) \/ (p = q /\ event \in E)
<1>1. buffer[q] \in Seq(Events)
      BY DEF TypeOK
<1>2. /\ Append(buffer[q], event) \in Seq(Events)
      /\ Append(buffer[q], event) # <<>>
      /\ Len(Append(buffer[q], event)) = Len(buffer[q]) + 1
      /\ \A i \in 1 .. Len(buffer[q]) : Append(buffer[q], event)[i] = buffer[q][i]
      /\ Append(buffer[q], event)[Len(buffer[q]) + 1] = event
      BY <1>1, AppendProperties
<1>3. buffer'[q] = Append(buffer[q], event)
      /\ \A p \in Queues : p # q => buffer'[p] = buffer[p]
      BY DEF TypeOK
<1>4. Len(buffer[q]) \in Nat
      BY <1>1, LenProperties
<1>5. \A E \in SUBSET Events : Holds(q, E)' <=> Holds(q, E) \/ event \in E
      BY <1>2, <1>3, <1>4 DEF Holds
<1>6. \A p \in Queues : \A E \in SUBSET Events : p # q => (Holds(p, E)' <=> Holds(p, E))
      BY <1>3 DEF Holds
<1>7. buffer' \in [Queues -> Seq(Events)]
      BY <1>2 DEF TypeOK
<1> QED BY <1>2, <1>3, <1>5, <1>6, <1>7

LEMMA TakeHolds ==
    ASSUME TypeOK, NEW q \in Queues, buffer[q] # <<>>,
           buffer' = [buffer EXCEPT ![q] = Tail(@)]
    PROVE  /\ buffer' \in [Queues -> Seq(Events)]
           /\ Head(buffer[q]) \in Events
           /\ \A p \in Queues : p # q => buffer'[p] = buffer[p]
           /\ \A p \in Queues : \A E \in SUBSET Events :
                /\ Holds(p, E)' => Holds(p, E)
                /\ Holds(p, E) => Holds(p, E)' \/ (p = q /\ Head(buffer[q]) \in E)
<1>1. buffer[q] \in Seq(Events)
      BY DEF TypeOK
<1>2. /\ Head(buffer[q]) \in Events /\ Tail(buffer[q]) \in Seq(Events)
      /\ Len(Tail(buffer[q])) = Len(buffer[q]) - 1
      /\ \A i \in 1 .. Len(Tail(buffer[q])) : Tail(buffer[q])[i] = buffer[q][i + 1]
      BY <1>1, HeadTailProperties
<1>3. buffer'[q] = Tail(buffer[q]) /\ \A p \in Queues : p # q => buffer'[p] = buffer[p]
      BY DEF TypeOK
<1>4. Len(buffer[q]) \in Nat \ {0} /\ Head(buffer[q]) = buffer[q][1]
      BY <1>1, EmptySeq
<1>5. \A E \in SUBSET Events : Holds(q, E)' => Holds(q, E)
      BY <1>2, <1>3, <1>4 DEF Holds
<1>6. \A E \in SUBSET Events : Holds(q, E) => Holds(q, E)' \/ Head(buffer[q]) \in E
  <2> SUFFICES ASSUME NEW E \in SUBSET Events, NEW i \in 1 .. Len(buffer[q]),
                      buffer[q][i] \in E, i # 1
               PROVE  Holds(q, E)'
      BY <1>4 DEF Holds
  <2>1. i - 1 \in 1 .. Len(Tail(buffer[q])) /\ (i - 1) + 1 = i
        BY <1>2, <1>4
  <2>2. Tail(buffer[q])[i - 1] = buffer[q][i]
        BY <1>2, <2>1
  <2> QED BY <1>3, <2>1, <2>2 DEF Holds
<1>7. \A p \in Queues : \A E \in SUBSET Events : p # q => (Holds(p, E)' <=> Holds(p, E))
      BY <1>3 DEF Holds
<1>8. buffer' \in [Queues -> Seq(Events)]
      BY <1>2 DEF TypeOK
<1> QED BY <1>2, <1>3, <1>5, <1>6, <1>7, <1>8

LEMMA SameHolds ==
    ASSUME buffer' = buffer
    PROVE  \A q, E : Holds(q, E)' <=> Holds(q, E)
BY DEF Holds

LEMMA EmptyHolds == \A q, E : buffer[q] = <<>> => ~Holds(q, E)
BY DEF Holds

---------------------------------------------------------------------------
(* Connections *)

\* Connections that only go on: none opens, closes or changes its queue; one
\* that sleeps may be woken.
Same(c) ==
    /\ conn'[c].q = conn[c].q /\ conn'[c].heard = conn[c].heard
    /\ \/ conn'[c].at = conn[c].at
       \/ conn[c].at = "waiting" /\ conn'[c].at = "reading"

LEMMA PutWakes ==
    ASSUME TypeOK, NEW q \in Queues, NEW event \in Events, Put(q, event)
    PROVE  /\ conn' \in [Conns -> Conn]
           /\ \A c \in Conns : Same(c)
           /\ \/ \E c \in Waiting(q) : conn'[c].at = "reading"
              \/ Waiting(q) = {}
           /\ buffer' = [buffer EXCEPT ![q] = Append(@, event)]
<1>1. ASSUME NEW d \in Waiting(q), conn' = [conn EXCEPT ![d].at = "reading"]
      PROVE  /\ conn' \in [Conns -> Conn]
             /\ \A c \in Conns : Same(c)
             /\ conn'[d].at = "reading"
  <2>1. d \in Conns /\ conn[d].at = "waiting" /\ conn[d] \in Conn
        BY DEF Waiting, TypeOK
  <2>2. conn'[d] = [conn[d] EXCEPT !.at = "reading"]
        /\ \A c \in Conns : c # d => conn'[c] = conn[c]
        BY <1>1, <2>1 DEF TypeOK
  <2>3. /\ conn'[d].at = "reading" /\ conn'[d].q = conn[d].q /\ conn'[d].heard = conn[d].heard
        /\ conn'[d] \in Conn
        BY <2>1, <2>2 DEF Conn
  <2>4. conn' \in [Conns -> Conn]
        BY <1>1, <2>2, <2>3 DEF TypeOK
  <2> QED BY <2>1, <2>2, <2>3, <2>4 DEF Same
<1>2. CASE Waiting(q) = {} /\ conn' = conn
      BY <1>2 DEF Put, Same, TypeOK
<1> QED BY <1>1, <1>2 DEF Put, WakeNext

---------------------------------------------------------------------------
(* The steps *)

\* A run starts on a queue of its own: the planner's is the first.
Begun(kind) ==
    /\ LoopFree /\ fresh + 1 \in Queues
    /\ fresh = 0 \/ status # "awaiting"
    /\ fresh' = fresh + 1 /\ queue' = fresh + 1
    /\ run' = [run EXCEPT ![fresh + 1] = kind]
    /\ \/ kind = "planning" /\ fresh = 0 /\ status' = "running" /\ call' = call
       \/ /\ kind = "working"
          /\ status' \in IF status = "absent" THEN {status} ELSE {status, "running"}
          /\ \E c \in Clients : call[c] = "stopping" /\ call' = [call EXCEPT ![c] = "idle"]
    /\ UNCHANGED <<plan, deleted, buffer, conn, opened>>

LEMMA BegunFact ==
    ASSUME TypeOK, First, Generate \/ \E c \in Clients : IterateStopped(c)
    PROVE  \E kind \in {"planning", "working"} : Begun(kind)
<1>0. fresh < MaxQueues => fresh + 1 \in Queues
      BY StreamAssumption DEF Queues, TypeOK
<1>1. CASE Generate
      BY <1>0, <1>1 DEF Generate, Create, Begun
<1>2. ASSUME NEW c \in Clients, IterateStopped(c)
      PROVE  Begun("working")
  <2>1. status # "awaiting"
        BY <1>2 DEF IterateStopped, First, Young
  <2> QED BY <1>0, <1>2, <2>1 DEF IterateStopped, Create, Begun
<1> QED BY <1>1, <1>2

\* A run ends and says how.
Told(q, event) ==
    /\ LoopFree /\ q \in Queues
    /\ run' = [run EXCEPT ![q] = "none"]
    /\ Put(q, event)
    /\ UNCHANGED <<queue, fresh, call, deleted, opened>>
    /\ \/ /\ event = "plan" /\ run[q] = "planning" /\ status # "absent"
          /\ status' = "awaiting" /\ plan' = TRUE
       \/ /\ event = "error" /\ run[q] \in {"planning", "working"} /\ status # "absent"
          /\ status' = "error" /\ plan' = plan
       \/ event = "done" /\ run[q] = "saving" /\ UNCHANGED <<status, plan>>

\* A run that lost its session ends without a word.
Died(q) ==
    /\ run[q] \in {"planning", "working"} /\ status = "absent"
    /\ run' = [run EXCEPT ![q] = "none"]
    /\ UNCHANGED <<status, plan, queue, fresh, call, deleted, buffer, conn, opened>>

\* Chats keep the dict they read when it leaves memory.
Aged ==
    /\ call' \in [Clients -> {"idle", "asking", "late", "stopping", "loading"}]
    /\ \A c \in Clients : call'[c] = call[c] \/ (status = "done" /\ call'[c] = "late")

LEMMA OutdatedAged == ASSUME TypeOK, call' \in {call, Outdated} PROVE Aged
BY DEF TypeOK, Outdated, Aged

\* A run has its result, and saves it.
Saved(q) ==
    /\ run[q] = "working"
    /\ run' = [run EXCEPT ![q] = "saving"]
    /\ status' = "done" /\ plan' = TRUE
    /\ Aged
    /\ UNCHANGED <<queue, fresh, deleted, buffer, conn, opened>>

LEMMA OutcomeFact ==
    ASSUME TypeOK, NEW q \in Queues, Outcome(q)
    PROVE  (\E event \in {"plan", "error", "done"} : Told(q, event)) \/ Died(q) \/ Saved(q)
<1>1. ASSUME run[q] \in {"planning", "working"}, LoopFree, Fail(q)
      PROVE  Told(q, "error") \/ Died(q)
      BY <1>1 DEF Fail, Told, Died
<1>2. CASE Planner(q)
      BY <1>1, <1>2 DEF Planner, PlanReady, Told
<1>3. CASE Work(q)
      BY <1>1, <1>3, OutdatedAged DEF Work, WorkDone, Saved
<1>4. CASE Tell(q)
      BY <1>4 DEF Tell, Told
<1> QED BY <1>2, <1>3, <1>4 DEF Outcome

\* Something is said meanwhile; in the middle of a get only a thread says it,
\* which works for a run or shows a preview.
Noted(q) ==
    /\ q \in Queues /\ q <= fresh
    /\ LoopFree \/ status # "awaiting"
    /\ Put(q, "note")
    /\ UNCHANGED <<session, opened>>

LEMMA NotedFact ==
    ASSUME TypeOK, First, NEW q \in Queues, Note(q) \/ ThreadNote(q)
    PROVE  Noted(q)
<1>1. CASE Note(q)
      BY <1>1 DEF Note, Noted
<1>2. CASE ThreadNote(q)
  <2>1. \A p \in 1 .. q : p \in Queues
        BY StreamAssumption DEF Queues
  <2>2. status # "awaiting"
        BY <1>2, <2>1 DEF ThreadNote, Reports, First
  <2> QED BY <1>2, <2>2 DEF ThreadNote, Noted
<1> QED BY <1>1, <1>2

\* A handler goes on, or waits for something.
Moved ==
    /\ UNCHANGED <<status, plan, queue, fresh, run, deleted, buffer, conn, opened>>
    /\ call' \in [Clients -> {"idle", "asking", "late", "stopping", "loading"}]
    /\ \A c \in Clients :
         \/ call'[c] \in {call[c], "idle"}
         \/ call'[c] = "asking" /\ status # "absent"
         \/ call'[c] = "stopping" /\ (status \in Last \/ call[c] = "late")
         \/ call'[c] = "loading" /\ status = "absent" /\ ~deleted /\ fresh # 0

LEMMA MovedFact ==
    ASSUME TypeOK, NEW c \in Clients,
           Iterate(c) \/ Chat(c) \/ ChatIterates(c) \/ ChatReplied(c) \/ Restore(c)
    PROVE  Moved
<1>1. ASSUME NEW at \in {"idle", "asking", "stopping", "loading"}, Suspend(c, at)
      PROVE  /\ UNCHANGED <<status, plan, queue, fresh, run, deleted, buffer, conn, opened>>
             /\ call' \in [Clients -> {"idle", "asking", "late", "stopping", "loading"}]
             /\ call'[c] = at /\ \A d \in Clients : d # c => call'[d] = call[d]
      BY <1>1 DEF Suspend, TypeOK
<1>2. CASE Iterate(c)
      BY <1>1, <1>2 DEF Iterate, Moved
<1>3. CASE Chat(c)
      BY <1>1, <1>3 DEF Chat, Moved
<1>4. CASE ChatIterates(c)
      BY <1>1, <1>4 DEF ChatIterates, Moved, Last
<1>5. CASE ChatReplied(c)
      BY <1>1, <1>5 DEF ChatReplied, Moved
<1>6. CASE Restore(c)
  <2>1. fresh # 0
        BY <1>6 DEF Restore, TypeOK
  <2> QED BY <1>1, <1>6, <2>1 DEF Restore, Moved
<1> QED BY <1>2, <1>3, <1>4, <1>5, <1>6

\* A restored session is in memory, whatever was there.
Installed ==
    /\ \E c \in Clients : call[c] = "loading"
    /\ status' = "done" /\ plan' \in BOOLEAN
    /\ call' \in [Clients -> {"idle", "asking", "late", "stopping", "loading"}]
    /\ UNCHANGED <<queue, fresh, run, deleted, buffer, conn, opened>>

LEMMA InstalledFact ==
    ASSUME TypeOK, NEW c \in Clients, RestoreInstalled(c)
    PROVE  Installed
BY DEF RestoreInstalled, Installed, Outdated, TypeOK

\* A connection gets its turn and takes nothing: it may look into an empty
\* queue, go to sleep or close, and wake another one.
Turned ==
    /\ UNCHANGED <<session, buffer, opened>>
    /\ conn' \in [Conns -> Conn]
    /\ \A d \in Conns :
         /\ conn'[d].at # "free" => /\ conn[d].at # "free"
                                    /\ conn'[d].q = conn[d].q
                                    /\ conn'[d].heard => conn[d].heard
         /\ conn'[d].at \in {"checked", "waiting"} =>
              conn[d].at \in {"checked", "waiting"} \/ buffer[conn[d].q] = <<>>

LEMMA FreeFact == Free \in Conn /\ Free.at = "free" /\ Free.heard = FALSE
BY StreamAssumption DEF Free, Conn

LEMMA TurnedFact ==
    ASSUME TypeOK, NEW c \in Conns, FindEmpty(c) \/ Register(c) \/ HangUp(c) \/ Cancel(c)
    PROVE  Turned
<1>0. \A d \in Conns : conn[d] \in Conn
      BY DEF TypeOK
<1>1. CASE FindEmpty(c)
  <2>1. /\ conn'[c] = [conn[c] EXCEPT !.at = "checked"]
        /\ \A d \in Conns : d # c => conn'[d] = conn[d]
        /\ conn[c].at = "reading" /\ buffer[conn[c].q] = <<>>
        BY <1>1 DEF FindEmpty, TypeOK
  <2>2. /\ conn'[c].q = conn[c].q /\ conn'[c].heard = conn[c].heard /\ conn'[c] \in Conn
        BY <1>0, <2>1 DEF Conn
  <2>3. conn' \in [Conns -> Conn]
        BY <1>1, <2>1, <2>2 DEF FindEmpty, TypeOK
  <2> QED BY <1>1, <2>1, <2>2, <2>3 DEF FindEmpty, Turned
<1>2. CASE Register(c)
  <2>1. /\ conn'[c] = [conn[c] EXCEPT !.at = "waiting"]
        /\ \A d \in Conns : d # c => conn'[d] = conn[d]
        /\ conn[c].at = "checked"
        BY <1>2 DEF Register, TypeOK
  <2>2. /\ conn'[c].q = conn[c].q /\ conn'[c].heard = conn[c].heard /\ conn'[c] \in Conn
        BY <1>0, <2>1 DEF Conn
  <2>3. conn' \in [Conns -> Conn]
        BY <1>2, <2>1, <2>2 DEF Register, TypeOK
  <2> QED BY <1>2, <2>1, <2>2, <2>3 DEF Register, Turned
<1>3. CASE HangUp(c)
  <2>1. /\ conn'[c] = [conn[c] EXCEPT !.heard = FALSE]
        /\ \A d \in Conns : d # c => conn'[d] = conn[d]
        BY <1>3 DEF HangUp, TypeOK
  <2>2. /\ conn'[c].q = conn[c].q /\ conn'[c].heard = FALSE /\ conn'[c].at = conn[c].at
        /\ conn'[c] \in Conn
        BY <1>0, <2>1 DEF Conn
  <2>3. conn' \in [Conns -> Conn]
        BY <1>3, <2>1, <2>2 DEF HangUp, TypeOK
  <2> QED BY <1>3, <2>1, <2>2, <2>3 DEF HangUp, Turned
<1>4. CASE Cancel(c)
  <2>1. CASE conn' = [conn EXCEPT ![c] = Free]
    <3>1. conn'[c] = Free /\ \A d \in Conns : d # c => conn'[d] = conn[d]
          BY <2>1 DEF TypeOK
    <3>2. conn' \in [Conns -> Conn]
          BY <2>1, <3>1, FreeFact DEF TypeOK
    <3> QED BY <1>4, <3>1, <3>2, FreeFact DEF Cancel, Turned
  <2>2. ASSUME NEW w \in Waiting(conn[c].q), conn[c].at = "reading",
               conn' = [conn EXCEPT ![c] = Free, ![w].at = "reading"]
        PROVE  Turned
    <3>1. w \in Conns /\ w # c /\ conn[w].at = "waiting"
          BY <2>2 DEF Waiting
    <3>2. /\ conn'[c] = Free /\ conn'[w] = [conn[w] EXCEPT !.at = "reading"]
          /\ \A d \in Conns : d # c /\ d # w => conn'[d] = conn[d]
          BY <2>2, <3>1 DEF TypeOK
    <3>3. /\ conn'[w].q = conn[w].q /\ conn'[w].heard = conn[w].heard
          /\ conn'[w].at = "reading" /\ conn'[w] \in Conn
          BY <1>0, <3>1, <3>2 DEF Conn
    <3>4. conn' \in [Conns -> Conn]
          BY <2>2, <3>2, <3>3, FreeFact DEF TypeOK
    <3> QED BY <1>4, <3>1, <3>2, <3>3, <3>4, FreeFact DEF Cancel, Turned
  <2> QED BY <1>4, <2>1, <2>2 DEF Cancel
<1> QED BY <1>1, <1>2, <1>3, <1>4

\* A connection takes an event, and closes behind the last one.
Took(c) ==
    LET q == conn[c].q
    IN  /\ UNCHANGED <<session, opened>>
        /\ conn[c].at = "reading" /\ buffer[q] # <<>>
        /\ buffer' = [buffer EXCEPT ![q] = Tail(@)]
        /\ Head(buffer[q]) \in Last => conn'[c] = Free
        /\ conn'[c] \in {Free, conn[c]}
        /\ conn' \in [Conns -> Conn]
        /\ \A d \in Conns : d # c => conn'[d] = conn[d]

LEMMA TookFact == ASSUME TypeOK, NEW c \in Conns, Take(c) PROVE Took(c)
<1>1. conn'[c] = IF IsLast(Head(buffer[conn[c].q])) THEN Free ELSE conn[c]
      BY DEF Take, TypeOK
<1>2. conn' \in [Conns -> Conn]
      BY FreeFact DEF Take, TypeOK
<1> QED BY <1>1, <1>2 DEF Take, Took, IsLast, TypeOK

LEMMA Steps ==
    ASSUME TypeOK, First, [Next]_vars
    PROVE  \/ \E kind \in {"planning", "working"} : Begun(kind)
           \/ \E q \in Queues :
                \/ \E event \in {"plan", "error", "done"} : Told(q, event)
                \/ Died(q) \/ Saved(q) \/ Noted(q)
           \/ \E c \in Conns : Open(c) \/ Took(c)
           \/ Approve \/ (Delete /\ Aged) \/ Restart
           \/ Installed \/ Moved \/ Turned \/ UNCHANGED vars
<1>1. CASE Generate \/ \E c \in Clients : IterateStopped(c)
      BY <1>1, BegunFact
<1>2. ASSUME NEW q \in Queues, Outcome(q) \/ Note(q) \/ ThreadNote(q)
      PROVE  (\E event \in {"plan", "error", "done"} : Told(q, event))
             \/ Died(q) \/ Saved(q) \/ Noted(q)
      BY <1>2, OutcomeFact, NotedFact
<1>3. ASSUME NEW c \in Conns, Open(c) \/ Serve(c) \/ HangUp(c)
      PROVE  Open(c) \/ Took(c) \/ Turned
      BY <1>3, TookFact, TurnedFact DEF Serve
<1>4. Delete => Aged
      BY OutdatedAged DEF Delete
<1>5. ASSUME NEW c \in Clients,
             \/ Iterate(c) \/ Chat(c) \/ ChatIterates(c) \/ ChatReplied(c)
             \/ Restore(c) \/ RestoreInstalled(c)
      PROVE  Installed \/ Moved
      BY <1>5, MovedFact, InstalledFact
<1> QED BY <1>1, <1>2, <1>3, <1>4, <1>5 DEF Next

\* What a put does to the buffers and the connections.
LEMMA PutFact ==
    ASSUME TypeOK, NEW q \in Queues, NEW event \in Events, Put(q, event)
    PROVE  /\ buffer' \in [Queues -> Seq(Events)] /\ conn' \in [Conns -> Conn]
           /\ \A p \in Queues : p # q => buffer'[p] = buffer[p]
           /\ \A p \in Queues : \A E \in SUBSET Events :
                Holds(p, E)' <=> Holds(p, E) \/ (p = q /\ event \in E)
           /\ \A c \in Conns : Same(c)
           /\ Waiting(q) = {} \/ \E c \in Waiting(q) : conn'[c].at = "reading"
BY PutHolds, PutWakes

\* A new connection.
Opened(c) ==
    /\ conn[c].at = "free" /\ queue \in Queues /\ queue <= fresh
    /\ conn'[c] = [at |-> "reading", q |-> queue, heard |-> TRUE]
    /\ \A d \in Conns : d # c => conn'[d] = conn[d]
    /\ conn' \in [Conns -> Conn]
    /\ opened'[queue] = IF opened[queue] = 0 THEN 1 ELSE 2
    /\ \A q \in Queues : q # queue => opened'[q] = opened[q]
    /\ opened' \in [Queues -> 0..2]
    /\ UNCHANGED <<session, buffer>>

LEMMA OpenedFact == ASSUME TypeOK, NEW c \in Conns, Open(c) PROVE Opened(c)
<1>1. queue \in Queues /\ queue <= fresh
      BY StreamAssumption DEF Open, TypeOK, Queues
<1>2. [at |-> "reading", q |-> queue, heard |-> TRUE] \in Conn
      BY <1>1 DEF Conn, Queues
<1> QED BY <1>1, <1>2 DEF Open, Opened, TypeOK

LEMMA TypeStep == TypeOK /\ Room /\ First /\ [Next]_vars => TypeOK'
<1> SUFFICES ASSUME TypeOK, Room, First, [Next]_vars PROVE TypeOK'
    OBVIOUS
<1>1. ASSUME NEW kind \in {"planning", "working"}, Begun(kind) PROVE TypeOK'
  <2>1. fresh' \in 0 .. MaxQueues /\ queue' \in 0 .. fresh'
        BY <1>1, StreamAssumption DEF Begun, Queues, TypeOK
  <2>2. run' \in [Queues -> {"none", "planning", "working", "saving"}]
        BY <1>1 DEF Begun, TypeOK
  <2>3. /\ status' \in {"absent", "running", "awaiting", "done", "error"}
        /\ call' \in [Clients -> {"idle", "asking", "late", "stopping", "loading"}]
        BY <1>1 DEF Begun, TypeOK
  <2> QED BY <1>1, <2>1, <2>2, <2>3 DEF Begun, TypeOK
<1>2. ASSUME NEW q \in Queues, NEW event \in {"plan", "error", "done"}, Told(q, event)
      PROVE  TypeOK'
  <2>1. event \in Events
        BY DEF Events
  <2>2. buffer' \in [Queues -> Seq(Events)] /\ conn' \in [Conns -> Conn]
        BY <1>2, <2>1, PutFact DEF Told
  <2>3. run' \in [Queues -> {"none", "planning", "working", "saving"}]
        BY <1>2 DEF Told, TypeOK
  <2>4. status' \in {"absent", "running", "awaiting", "done", "error"} /\ plan' \in BOOLEAN
        BY <1>2 DEF Told, TypeOK
  <2> QED BY <1>2, <2>2, <2>3, <2>4 DEF Told, TypeOK
<1>3. ASSUME NEW q \in Queues, Died(q) \/ Saved(q) PROVE TypeOK'
      BY <1>3 DEF Died, Saved, Aged, TypeOK
<1>4. ASSUME NEW q \in Queues, Noted(q) PROVE TypeOK'
  <2>1. "note" \in Events
        BY DEF Events
  <2>2. buffer' \in [Queues -> Seq(Events)] /\ conn' \in [Conns -> Conn]
        BY <1>4, <2>1, PutFact DEF Noted
  <2> QED BY <1>4, <2>2 DEF Noted, TypeOK, session
<1>5. ASSUME NEW c \in Conns, Open(c) PROVE TypeOK'
      BY <1>5, OpenedFact DEF Opened, TypeOK, session
<1>6. ASSUME NEW c \in Conns, Took(c) PROVE TypeOK'
  <2>1. conn[c].q \in Queues
        BY <1>6 DEF Took, Room
  <2>2. buffer' \in [Queues -> Seq(Events)]
        BY <1>6, <2>1, TakeHolds DEF Took
  <2> QED BY <1>6, <2>2 DEF Took, TypeOK, session
<1>7. CASE Approve \/ (Delete /\ Aged) \/ Installed \/ Moved
      BY <1>7 DEF Approve, Delete, Aged, Installed, Moved, TypeOK
<1>8. CASE Restart
  <2>1. <<>> \in Seq(Events)
        BY EmptySeq
  <2>2. buffer' \in [Queues -> Seq(Events)] /\ conn' \in [Conns -> Conn]
        /\ run' \in [Queues -> {"none", "planning", "working", "saving"}]
        /\ call' \in [Clients -> {"idle", "asking", "late", "stopping", "loading"}]
        BY <1>8, <2>1, FreeFact DEF Restart
  <2>3. queue' \in 0 .. fresh' /\ fresh' = fresh
        BY <1>8, StreamAssumption DEF Restart, TypeOK
  <2> QED BY <1>8, <2>2, <2>3 DEF Restart, TypeOK
<1>9. CASE Turned \/ UNCHANGED vars
      BY <1>9 DEF Turned, vars, session, TypeOK
<1> QED BY <1>1, <1>2, <1>3, <1>4, <1>5, <1>6, <1>7, <1>8, <1>9, Steps

---------------------------------------------------------------------------
(* Queues and connections *)

LEMMA RoomStep == TypeOK /\ Room /\ First /\ [Next]_vars => Room'
<1> SUFFICES ASSUME TypeOK, Room, First, [Next]_vars PROVE Room'
    OBVIOUS
<1>0. \A q \in Queues : q \in Nat /\ fresh \in Nat
      BY StreamAssumption DEF Queues, TypeOK
<1>1. ASSUME NEW kind \in {"planning", "working"}, Begun(kind) PROVE Room'
      BY <1>0, <1>1 DEF Begun, Room, TypeOK
<1>2. ASSUME NEW q \in Queues, NEW event \in {"plan", "error", "done"}, Told(q, event)
      PROVE  Room'
  <2>1. event \in Events
        BY DEF Events
  <2>2. /\ \A p \in Queues : p # q => buffer'[p] = buffer[p]
        /\ \A c \in Conns : Same(c)
        BY <1>2, <2>1, PutFact DEF Told
  <2>3. q <= fresh /\ run'[q] = "none" /\ \A p \in Queues : p # q => run'[p] = run[p]
        BY <1>0, <1>2 DEF Told, Room, TypeOK
  <2> QED BY <1>0, <1>2, <2>2, <2>3 DEF Told, Room, Same
<1>3. ASSUME NEW q \in Queues, Died(q) \/ Saved(q) PROVE Room'
  <2>1. q <= fresh
        BY <1>0, <1>3 DEF Died, Saved, Room
  <2> QED BY <1>0, <1>3, <2>1 DEF Died, Saved, Room, TypeOK
<1>4. ASSUME NEW q \in Queues, Noted(q) PROVE Room'
  <2>0. q <= fresh
        BY <1>0, <1>4 DEF Noted, Room, TypeOK
  <2>1. "note" \in Events
        BY DEF Events
  <2>2. /\ \A p \in Queues : p # q => buffer'[p] = buffer[p]
        /\ \A c \in Conns : Same(c)
        BY <1>4, <2>1, PutFact DEF Noted
  <2> QED BY <1>0, <1>4, <2>0, <2>2 DEF Noted, Room, Same, session
<1>5. ASSUME NEW c \in Conns, Open(c) PROVE Room'
  <2>1. Opened(c)
        BY <1>5, OpenedFact
  <2>2. /\ conn'[c].q = queue /\ queue \in Queues /\ queue <= fresh
        /\ \A d \in Conns : d # c => conn'[d] = conn[d]
        /\ UNCHANGED <<fresh, run, buffer>>
        BY <2>1 DEF Opened, session
  <2>3. \A q \in Queues : /\ opened[q] # 0 \/ q = queue => opened'[q] # 0
                          /\ q # queue => opened'[q] = opened[q]
        BY <2>1 DEF Opened
  <2>4. \A q \in Queues : q > fresh => q # queue
        BY <1>0, <2>2
  <2>5. \A q \in Queues : q > fresh' => buffer'[q] = <<>> /\ run'[q] = "none" /\ opened'[q] = 0
        BY <2>2, <2>3, <2>4 DEF Room
  <2>6. \A d \in Conns : conn'[d].at # "free" =>
          conn'[d].q \in Queues /\ conn'[d].q <= fresh' /\ opened'[conn'[d].q] # 0
        BY <2>2, <2>3 DEF Room
  <2> QED BY <2>5, <2>6 DEF Room
<1>6. ASSUME NEW c \in Conns, Took(c) PROVE Room'
  <2>1. conn[c].q \in Queues /\ conn[c].q <= fresh
        BY <1>6 DEF Took, Room
  <2>2. \A p \in Queues : p # conn[c].q => buffer'[p] = buffer[p]
        BY <1>6, <2>1, TakeHolds DEF Took
  <2> QED BY <1>0, <1>6, <2>1, <2>2, FreeFact DEF Took, Room, session
<1>7. CASE Approve \/ Delete \/ Installed \/ Moved
  <2>1. Approve => queue \in Queues /\ queue <= fresh
        BY StreamAssumption DEF Approve, TypeOK, Queues
  <2> QED BY <1>0, <1>7, <2>1 DEF Approve, Delete, Installed, Moved, Room, TypeOK
<1>8. CASE Restart
      BY <1>8, FreeFact DEF Restart, Room
<1>9. CASE Turned \/ UNCHANGED vars
      BY <1>9 DEF Turned, vars, session, Room
<1> QED BY <1>1, <1>2, <1>3, <1>4, <1>5, <1>6, <1>7, <1>8, <1>9, Steps

LEMMA CountedStep == TypeOK /\ Room /\ First /\ Counted /\ [Next]_vars => Counted'
<1> SUFFICES ASSUME TypeOK, Room, First, Counted, [Next]_vars PROVE Counted'
    OBVIOUS
<1>1. ASSUME UNCHANGED opened,
             \A c \in Conns : conn'[c].at # "free" =>
               conn[c].at # "free" /\ conn'[c].q = conn[c].q
      PROVE  Counted'
      BY <1>1 DEF Counted
<1>2. ASSUME NEW q \in Queues, NEW event \in Events, Put(q, event), UNCHANGED opened
      PROVE  Counted'
  <2>1. \A c \in Conns : Same(c)
        BY <1>2, PutFact
  <2> QED BY <1>1, <1>2, <2>1 DEF Same
<1>3. ASSUME NEW c \in Conns, Open(c) PROVE Counted'
  <2>1. Opened(c)
        BY <1>3, OpenedFact
  <2>2. \A d \in Conns : d # c /\ conn[d].at # "free" /\ conn[d].q = queue => opened'[queue] = 2
        BY <2>1 DEF Opened, Room
  <2>3. \A q \in Queues : opened[q] = 2 => opened'[q] = 2
        BY <2>1 DEF Opened
  <2>4. \A d \in Conns : conn[d].at # "free" => conn[d].q \in Queues
        BY DEF Room
  <2> QED BY <2>1, <2>2, <2>3, <2>4 DEF Opened, Counted
<1>4. ASSUME NEW c \in Conns, Took(c) PROVE Counted'
      BY <1>1, <1>4, FreeFact DEF Took
<1>5. CASE Approve \/ Delete \/ Installed \/ Moved \/ Turned \/ UNCHANGED vars
      BY <1>1, <1>5 DEF Approve, Delete, Installed, Moved, Turned, vars
<1>6. CASE Restart
      BY <1>6, FreeFact DEF Restart, Counted
<1>7. ASSUME NEW q \in Queues, Noted(q) PROVE Counted'
      BY <1>2, <1>7 DEF Noted, Events
<1>8. ASSUME NEW q \in Queues, NEW event \in {"plan", "error", "done"}, Told(q, event)
      PROVE  Counted'
      BY <1>2, <1>8 DEF Told, Events
<1>9. ASSUME NEW q \in Queues, Died(q) \/ Saved(q) PROVE Counted'
      BY <1>1, <1>9 DEF Died, Saved
<1>10. ASSUME NEW kind \in {"planning", "working"}, Begun(kind) PROVE Counted'
      BY <1>1, <1>10 DEF Begun
<1> QED BY <1>3, <1>4, <1>5, <1>6, <1>7, <1>8, <1>9, <1>10, Steps

---------------------------------------------------------------------------
(* Runs *)

LEMMA RunsStep == TypeOK /\ Room /\ Runs /\ First /\ [Next]_vars => Runs'
<1> SUFFICES ASSUME TypeOK, Room, Runs, First, [Next]_vars PROVE Runs'
    OBVIOUS
<1>0. \A q \in Queues : q \in Nat /\ fresh \in Nat
      BY StreamAssumption DEF Queues, TypeOK
<1>1. ASSUME \A q \in Queues : run'[q] # "none" => run[q] # "none",
             \A q \in Queues : Holds(q, Last)' => Holds(q, Last)
      PROVE  Runs'
      BY <1>1 DEF Runs
<1>2. ASSUME NEW kind \in {"planning", "working"}, Begun(kind) PROVE Runs'
  <2>1. /\ buffer[fresh + 1] = <<>> /\ buffer' = buffer
        /\ \A q \in Queues : q # fresh + 1 => run'[q] = run[q]
        BY <1>0, <1>2 DEF Begun, TypeOK, Room
  <2>2. \A q \in Queues : q = fresh + 1 => ~Holds(q, Last)'
        BY <2>1, EmptyHolds, SameHolds
  <2> QED BY <2>1, <2>2, SameHolds DEF Runs
<1>3. ASSUME NEW q \in Queues, NEW event \in {"plan", "error", "done"}, Told(q, event)
      PROVE  Runs'
  <2>1. run'[q] = "none" /\ \A p \in Queues : p # q => run'[p] = run[p]
        BY <1>3 DEF Told, TypeOK
  <2>2. event \in Events
        BY DEF Events
  <2>3. \A p \in Queues : p # q => (Holds(p, Last)' <=> Holds(p, Last))
        BY <1>3, <2>2, PutFact, LastFact DEF Told
  <2> QED BY <2>1, <2>3 DEF Runs
<1>4. ASSUME NEW q \in Queues, Died(q) \/ Saved(q) PROVE Runs'
  <2>1. run[q] # "none" /\ \A p \in Queues : p # q => run'[p] = run[p]
        BY <1>4 DEF Died, Saved, TypeOK
  <2> QED BY <1>1, <1>4, <2>1, SameHolds DEF Died, Saved
<1>5. ASSUME NEW q \in Queues, Noted(q) PROVE Runs'
  <2>1. "note" \in Events /\ "note" \notin Last
        BY DEF Events, Last
  <2>2. \A p \in Queues : Holds(p, Last)' <=> Holds(p, Last)
        BY <1>5, <2>1, PutFact, LastFact DEF Noted
  <2> QED BY <1>1, <1>5, <2>2 DEF Noted, session
<1>6. ASSUME NEW c \in Conns, Open(c) PROVE Runs'
      BY <1>1, <1>6, SameHolds DEF Open, session
<1>7. ASSUME NEW c \in Conns, Took(c) PROVE Runs'
  <2>1. conn[c].q \in Queues
        BY <1>7 DEF Took, Room
  <2>2. \A p \in Queues : Holds(p, Last)' => Holds(p, Last)
        BY <1>7, <2>1, TakeHolds, LastFact DEF Took
  <2> QED BY <1>1, <1>7, <2>2 DEF Took, session
<1>8. CASE Approve
  <2>1. queue = 1 /\ 1 \in Queues /\ ~Holds(1, Last)
        BY <1>8, StreamAssumption DEF Approve, First, TypeOK, Queues
  <2>2. \A p \in Queues : p # 1 => run'[p] = run[p]
        BY <1>8, <2>1 DEF Approve, TypeOK
  <2> QED BY <1>8, <2>1, <2>2, SameHolds DEF Approve, Runs
<1>9. CASE Delete \/ Installed \/ Moved \/ Turned \/ UNCHANGED vars
      BY <1>1, <1>9, SameHolds DEF Delete, Installed, Moved, Turned, vars, session
<1>10. CASE Restart
      BY <1>10 DEF Restart, Runs
<1> QED BY <1>2, <1>3, <1>4, <1>5, <1>6, <1>7, <1>8, <1>9, <1>10, Steps

LEMMA FirstStep == TypeOK /\ Room /\ Runs /\ First /\ [Next]_vars => First'
<1> SUFFICES ASSUME TypeOK, Room, Runs, First, [Next]_vars PROVE First'
    OBVIOUS
<1>0. \A q \in Queues : q \in Nat /\ q >= 1 /\ fresh \in Nat /\ (run[q] # "none" => q <= fresh)
      BY StreamAssumption DEF Queues, TypeOK, Room
<1>00. \A q \in Queues : run[q] # "none" => fresh # 0 /\ status # "awaiting"
      BY <1>0 DEF First
<1>000. \A p, q \in Queues : run[q] = "planning" /\ run[p] # "none" => p = q
      BY <1>0 DEF First
<1>1. ASSUME UNCHANGED <<status, fresh, queue, run, deleted>>,
             fresh = 0 => \A c \in Clients : call'[c] = call[c],
             status \in {"running", "awaiting"} \/ (status = "absent" /\ deleted) =>
               (Young => Young'),
             status = "awaiting" => (Holds(1, Last)' => Holds(1, Last))
      PROVE  First'
      BY <1>1 DEF First
<1>2. ASSUME UNCHANGED session, status = "awaiting" => (Holds(1, Last)' => Holds(1, Last))
      PROVE  First'
      BY <1>1, <1>2 DEF session, Young
<1>3. ASSUME fresh' # 0, status' # "awaiting",
             \A q \in Queues : run'[q] # "planning"
      PROVE  First'
      BY <1>3 DEF First
<1>4. ASSUME NEW kind \in {"planning", "working"}, Begun(kind) PROVE First'
  <2>0. fresh' = fresh + 1 /\ fresh' # 0 /\ fresh + 1 \in Queues
        BY <1>0, <1>4 DEF Begun
  <2>1. CASE kind = "planning"
    <3>1. \A q \in Queues : q # fresh + 1 => run'[q] = run[q]
          BY <1>4 DEF Begun, TypeOK
    <3>2. fresh = 0 /\ fresh' = 1 /\ queue' = 1 /\ status' = "running" /\ Young'
          BY <1>4, <2>1, StreamAssumption DEF Begun, First, Young
    <3>3. \A q \in Queues : run'[q] = "planning" => q = 1
          BY <1>00, <3>1, <3>2
    <3> QED BY <3>2, <3>3 DEF First
  <2>2. CASE kind = "working"
    <3>1. run'[fresh + 1] = "working" /\ \A q \in Queues : q # fresh + 1 => run'[q] = run[q]
          BY <1>4, <2>2 DEF Begun, TypeOK
    <3>2. ~Young /\ status' # "awaiting"
          BY <1>4, <2>2 DEF Begun, First, Young
    <3>3. \A q \in Queues : run'[q] # "planning"
          BY <3>1, <3>2 DEF First
    <3> QED BY <1>3, <2>0, <3>2, <3>3
  <2> QED BY <2>1, <2>2
<1>5. ASSUME NEW q \in Queues, NEW event \in {"plan", "error", "done"}, Told(q, event)
      PROVE  First'
  <2>1. run'[q] = "none" /\ (\A p \in Queues : p # q => run'[p] = run[p]) /\ run[q] # "none"
        BY <1>5 DEF Told, TypeOK
  <2>2. \A p \in Queues : run'[p] # "planning"
        BY <1>000, <2>1
  <2>3. fresh' = fresh /\ fresh # 0
        BY <1>00, <1>5, <2>1 DEF Told
  <2>4. CASE event = "plan"
    <3>1. event \in Events /\ event \notin Last
          BY <2>4 DEF Events, Last
    <3>2. run[q] = "planning"
          BY <1>5, <2>4 DEF Told
    <3>3. q = 1 /\ fresh = 1 /\ queue = 1 /\ Young
          BY <3>2 DEF First
    <3>4. ~Holds(1, Last)'
          BY <1>5, <2>1, <3>1, <3>3, PutFact, LastFact DEF Told, Runs
    <3>5. \A p \in Queues : run'[p] = "none"
          BY <1>000, <2>1, <3>2
    <3>6. status' = "awaiting" /\ fresh' = 1 /\ queue' = 1 /\ Young'
          BY <1>5, <2>4, <3>3 DEF Told, Young
    <3> QED BY <2>2, <3>4, <3>5, <3>6 DEF First
  <2>5. CASE event # "plan"
    <3>1. status' # "awaiting"
          BY <1>00, <1>5, <2>1, <2>5 DEF Told
    <3> QED BY <1>3, <2>2, <2>3, <3>1
  <2> QED BY <2>4, <2>5
<1>6. ASSUME NEW q \in Queues, Died(q) \/ Saved(q) PROVE First'
  <2>1. run'[q] # "planning" /\ (\A p \in Queues : p # q => run'[p] = run[p]) /\ run[q] # "none"
        BY <1>6 DEF Died, Saved, TypeOK
  <2>2. \A p \in Queues : run'[p] # "planning"
        BY <1>000, <2>1
  <2>3. fresh' # 0 /\ status' # "awaiting"
        BY <1>00, <1>6, <2>1 DEF Died, Saved
  <2> QED BY <1>3, <2>2, <2>3
<1>7. ASSUME NEW q \in Queues, Noted(q) PROVE First'
  <2>1. "note" \in Events /\ "note" \notin Last
        BY DEF Events, Last
  <2>2. \A p \in Queues : Holds(p, Last)' <=> Holds(p, Last)
        BY <1>7, <2>1, PutFact, LastFact DEF Noted
  <2>3. status = "awaiting" => 1 \in Queues
        BY StreamAssumption DEF First, TypeOK, Queues
  <2> QED BY <1>2, <1>7, <2>2, <2>3 DEF Noted
<1>8. ASSUME NEW c \in Conns, Open(c) PROVE First'
      BY <1>2, <1>8, SameHolds DEF Open
<1>9. ASSUME NEW c \in Conns, Took(c) PROVE First'
  <2>1. conn[c].q \in Queues
        BY <1>9 DEF Took, Room
  <2>2. \A p \in Queues : Holds(p, Last)' => Holds(p, Last)
        BY <1>9, <2>1, TakeHolds, LastFact DEF Took
  <2>3. status = "awaiting" => 1 \in Queues
        BY StreamAssumption DEF First, TypeOK, Queues
  <2> QED BY <1>2, <1>9, <2>2, <2>3 DEF Took
<1>10. CASE Approve
  <2>1. fresh' = 1 /\ status' = "running" /\ (\A q \in Queues : run[q] = "none")
        BY <1>10 DEF Approve, First
  <2>2. \A q \in Queues : run'[q] # "planning"
        BY <1>10, <2>1 DEF Approve, TypeOK
  <2> QED BY <1>3, <2>1, <2>2
<1>11. CASE Delete /\ Aged
  <2>1. fresh' # 0 /\ fresh' = fresh /\ queue' = queue /\ run' = run
        /\ status' = "absent" /\ deleted'
        BY <1>11 DEF Delete, TypeOK
  <2>2. \A q \in Queues : run[q] = "planning" => Young'
        BY <1>11 DEF Aged, First, Young
  <2> QED BY <2>1, <2>2 DEF First
<1>12. CASE Restart
  <2>1. /\ fresh' = fresh /\ status' = "absent" /\ deleted' = deleted
        /\ \A q \in Queues : run'[q] = "none"
        /\ \A c \in Clients : call'[c] = "idle"
        BY <1>12 DEF Restart
  <2> QED BY <2>1 DEF First
<1>13. CASE Installed
  <2>1. ~Young /\ fresh # 0
        BY <1>13 DEF Installed, Young, First
  <2>2. \A q \in Queues : run[q] # "planning"
        BY <2>1 DEF First
  <2> QED BY <1>3, <1>13, <2>1, <2>2 DEF Installed
<1>14. CASE Moved
  <2>1. fresh = 0 => \A c \in Clients : call'[c] = call[c]
        BY <1>14 DEF Moved, First, Last
  <2>2. status \in {"running", "awaiting"} \/ (status = "absent" /\ deleted) => (Young => Young')
        BY <1>14 DEF Moved, Young, Last
  <2> QED BY <1>1, <1>14, <2>1, <2>2, SameHolds DEF Moved
<1>15. CASE Turned \/ UNCHANGED vars
      BY <1>2, <1>15, SameHolds DEF Turned, vars
<1> QED BY <1>4, <1>5, <1>6, <1>7, <1>8, <1>9, <1>10, <1>11, <1>12, <1>13, <1>14, <1>15, Steps

LEMMA AwayStep == TypeOK /\ First /\ Away /\ [Next]_vars => Away'
<1> SUFFICES ASSUME TypeOK, First, Away, [Next]_vars PROVE Away'
    OBVIOUS
<1>1. ASSUME NEW kind \in {"planning", "working"}, Begun(kind) PROVE Away'
      BY <1>1 DEF Begun, Away
<1>2. ASSUME NEW q \in Queues, NEW event \in {"plan", "error", "done"}, Told(q, event)
      PROVE  Away'
  <2>1. run[q] # "none" /\ deleted' = deleted
        BY <1>2 DEF Told
  <2>2. status' = "absent" => status = "absent"
        BY <1>2 DEF Told
  <2> QED BY <2>1, <2>2 DEF Away
<1>3. ASSUME NEW q \in Queues, Died(q) \/ Saved(q) PROVE Away'
      BY <1>3 DEF Died, Saved, Away
<1>4. ASSUME NEW q \in Queues, Noted(q) PROVE Away'
      BY <1>4 DEF Noted, session, Away
<1>5. ASSUME NEW c \in Conns, Open(c) \/ Took(c) PROVE Away'
      BY <1>5 DEF Open, Took, session, Away
<1>6. CASE Approve \/ Delete \/ Installed
      BY <1>6 DEF Approve, Delete, Installed, Away
<1>7. CASE Restart
      BY <1>7 DEF Restart, Away
<1>8. CASE Moved
      BY <1>8 DEF Moved, Away, Last
<1>9. CASE Turned \/ UNCHANGED vars
      BY <1>9 DEF Turned, vars, session, Away
<1> QED BY <1>1, <1>2, <1>3, <1>4, <1>5, <1>6, <1>7, <1>8, <1>9, Steps

---------------------------------------------------------------------------
(* What listeners wait for *)

LEMMA FedStep ==
    TypeOK /\ Room /\ Counted /\ First /\ Away /\ AllFed /\ [Next]_vars => AllFed'
<1> SUFFICES ASSUME TypeOK, Room, Counted, First, Away, AllFed, [Next]_vars PROVE AllFed'
    OBVIOUS
<1>0. queue # 0 => queue \in Queues
      BY StreamAssumption DEF TypeOK, Queues
<1>00. \A c \in Conns : Listening(c) => conn[c].q \in Queues /\ Fed(conn[c].q)
      BY DEF AllFed, Room, Listening
<1>000. queue # 0 /\ ~deleted /\ opened[queue] = 0 => Fed(queue)
      BY DEF AllFed
<1>1. ASSUME UNCHANGED <<opened, deleted, queue>>,
             \A c \in Conns : conn'[c].at # "free" =>
               /\ conn[c].at # "free" /\ conn'[c].q = conn[c].q
               /\ conn'[c].heard => conn[c].heard,
             \A q \in Queues : Fed(q) => Fed(q)'
      PROVE  AllFed'
  <2>1. queue' # 0 /\ ~deleted' /\ opened'[queue'] = 0 => Fed(queue)'
    <3> SUFFICES ASSUME queue # 0, ~deleted, opened[queue] = 0 PROVE Fed(queue)'
        BY <1>1
    <3>1. \A q \in Queues : q = queue => Fed(q)'
          BY <1>000, <1>1
    <3>2. \A q \in Queues : q = queue' => (Fed(q)' <=> Fed(queue)')
          BY DEF Fed, Holds
    <3> QED BY <1>0, <1>1, <3>1, <3>2
  <2>2. ASSUME NEW c \in Conns, Listening(c)' PROVE Fed(conn[c].q)'
    <3>1. Listening(c) /\ conn'[c].q = conn[c].q
          BY <1>1, <2>2 DEF Listening
    <3>2. \A q \in Queues : q = conn[c].q => Fed(q)'
          BY <1>00, <1>1, <3>1
    <3>3. \A q \in Queues : q = conn'[c].q => (Fed(q)' <=> Fed(conn[c].q)')
          BY DEF Fed, Holds
    <3> QED BY <1>00, <3>1, <3>2, <3>3
  <2> QED BY <2>1, <2>2 DEF AllFed
<1>2. ASSUME NEW kind \in {"planning", "working"}, Begun(kind) PROVE AllFed'
  <2>1. run'[fresh + 1] # "none" /\ \A q \in Queues : q # fresh + 1 => run'[q] = run[q]
        BY <1>2 DEF Begun, TypeOK
  <2>2. \A q \in Queues : Fed(q) => Fed(q)'
    <3>1. \A q \in Queues : status = "awaiting" /\ queue = q => fresh # 0
          BY StreamAssumption DEF Queues, TypeOK
    <3> QED BY <1>2, <2>1, <3>1, SameHolds DEF Begun, Fed
  <2>3. Fed(queue)'
        BY <1>2, <2>1 DEF Begun, Fed
  <2>4. ASSUME NEW c \in Conns, Listening(c)' PROVE Fed(conn[c].q)'
    <3>1. Listening(c) /\ conn'[c].q = conn[c].q
          BY <1>2, <2>4 DEF Begun, Listening
    <3>2. \A q \in Queues : q = conn'[c].q => (Fed(q)' <=> Fed(conn[c].q)')
          BY DEF Fed, Holds
    <3> QED BY <1>00, <2>2, <3>1, <3>2
  <2> QED BY <2>3, <2>4 DEF AllFed
<1>3. ASSUME NEW q \in Queues, NEW event \in {"plan", "error", "done"}, Told(q, event)
      PROVE  AllFed'
  <2>1. event \in Events
        BY DEF Events
  <2>2. /\ \A p \in Queues : \A E \in SUBSET Events :
             Holds(p, E)' <=> Holds(p, E) \/ (p = q /\ event \in E)
        /\ \A c \in Conns : Same(c)
        BY <1>3, <2>1, PutFact DEF Told
  <2>3. \A p \in Queues : Holds(p, Last)' <=> Holds(p, Last) \/ (p = q /\ event \in Last)
        BY <2>2, LastFact
  <2>4. \A p \in Queues : p # q => run'[p] = run[p]
        BY <1>3 DEF Told, TypeOK
  <2>5. status = "awaiting" => status' = "awaiting"
        BY <1>3 DEF Told, First
  <2>6. queue' = queue
        BY <1>3 DEF Told
  <2>7. Fed(q)'
    <3>1. CASE event = "plan"
          BY <1>3, <2>6, <3>1 DEF Told, First, Fed
    <3>2. CASE event \in Last
          BY <2>3, <3>2 DEF Fed
    <3> QED BY <3>1, <3>2 DEF Last
  <2>8. \A p \in Queues : p # q /\ Fed(p) => Fed(p)'
        BY <2>3, <2>4, <2>5, <2>6 DEF Fed
  <2> QED BY <1>1, <1>3, <2>2, <2>7, <2>8 DEF Told, Same
<1>4. ASSUME NEW q \in Queues, Died(q) PROVE AllFed'
  <2>1. deleted'
        BY <1>4 DEF Died, Away, TypeOK
  <2> QED BY <2>1 DEF AllFed, Listening
<1>5. ASSUME NEW q \in Queues, Saved(q) PROVE AllFed'
  <2>1. run'[q] = "saving" /\ \A p \in Queues : p # q => run'[p] = run[p]
        BY <1>5 DEF Saved, TypeOK
  <2>2. status # "awaiting"
        BY <1>5 DEF Saved, First
  <2>3. \A p \in Queues : Fed(p) => Fed(p)'
        BY <1>5, <2>1, <2>2, SameHolds DEF Saved, Fed
  <2> QED BY <1>1, <1>5, <2>3 DEF Saved
<1>6. ASSUME NEW q \in Queues, Noted(q) PROVE AllFed'
  <2>1. "note" \in Events
        BY DEF Events
  <2>2. /\ \A p \in Queues : \A E \in SUBSET Events :
             Holds(p, E)' <=> Holds(p, E) \/ (p = q /\ "note" \in E)
        /\ \A c \in Conns : Same(c)
        BY <1>6, <2>1, PutFact DEF Noted
  <2>3. \A p \in Queues : Fed(p) => Fed(p)'
        BY <1>6, <2>2, LastFact DEF Noted, session, Fed
  <2> QED BY <1>1, <1>6, <2>2, <2>3 DEF Noted, session, Same
<1>7. ASSUME NEW c \in Conns, Open(c) PROVE AllFed'
  <2>1. Opened(c)
        BY <1>7, OpenedFact
  <2>2. \A q : Fed(q)' <=> Fed(q)
        BY <2>1, SameHolds DEF Opened, session, Fed
  <2>3. ~deleted' /\ opened[queue] = 0 => Fed(queue)
        BY <1>000, <2>1, StreamAssumption DEF Opened, session, Queues
  <2>4. ASSUME NEW d \in Conns, Listening(d)' PROVE Fed(conn'[d].q)
    <3>1. CASE d = c
      <4>1. conn'[d].q = queue /\ opened'[queue] = 1 /\ ~deleted'
            BY <2>1, <2>4, <3>1 DEF Opened, Listening
      <4> QED BY <2>1, <2>3, <4>1 DEF Opened
    <3>2. CASE d # c
      <4>1. conn'[d] = conn[d] /\ conn[d].at # "free" /\ opened[conn[d].q] # 0
            /\ conn[d].q \in Queues
            BY <2>1, <2>4, <3>2 DEF Opened, Listening, Room
      <4>2. conn[d].q # queue
            BY <2>1, <2>4, <4>1 DEF Opened, Listening
      <4>3. Listening(d)
            BY <2>1, <2>4, <4>1, <4>2 DEF Opened, Listening, session
      <4> QED BY <1>00, <4>1, <4>3
    <3> QED BY <3>1, <3>2
  <2>5. opened'[queue] # 0 /\ queue' = queue
        BY <2>1 DEF Opened, session
  <2>6. \A d \in Conns : Fed(conn'[d].q) => Fed(conn[d].q)'
        BY <2>1, SameHolds DEF Opened, session, Fed, Holds
  <2> QED BY <2>4, <2>5, <2>6 DEF AllFed
<1>8. ASSUME NEW c \in Conns, Took(c) PROVE AllFed'
  <2> DEFINE q == conn[c].q
  <2>1. q \in Queues /\ conn[c].at # "free" /\ opened[q] # 0
        BY <1>8 DEF Took, Room
  <2>2. /\ \A p \in Queues : \A E \in SUBSET Events :
             Holds(p, E) => Holds(p, E)' \/ (p = q /\ Head(buffer[q]) \in E)
        BY <1>8, <2>1, TakeHolds DEF Took
  <2>3. \A p \in Queues : Fed(p) => Fed(p)' \/ (p = q /\ Head(buffer[q]) \in Last)
        BY <1>8, <2>2, LastFact DEF Took, session, Fed
  <2>4. UNCHANGED <<opened, deleted, queue>>
        BY <1>8 DEF Took, session
  <2>5. \A d \in Conns : conn'[d].at # "free" => conn'[d] = conn[d]
        BY <1>8, FreeFact DEF Took
  <2>6. CASE Head(buffer[q]) \notin Last
        BY <1>1, <2>3, <2>4, <2>5, <2>6
  <2>7. CASE Head(buffer[q]) \in Last
    <3>1. \A d \in Conns : Listening(d)' => d # c /\ Listening(d) /\ conn'[d] = conn[d]
          BY <1>8, <2>4, <2>5, <2>7, FreeFact DEF Took, Listening
    <3>2. \A d \in Conns : Listening(d)' => conn[d].q # q
          BY <2>1, <3>1 DEF Counted, Listening
    <3> HIDE DEF q
    <3>3. \A d \in Conns : Listening(d)' => \A p \in Queues : p = conn[d].q => Fed(p)'
          BY <1>00, <2>3, <3>1, <3>2
    <3>4. \A d \in Conns : \A p \in Queues : p = conn'[d].q => (Fed(p)' <=> Fed(conn[d].q)')
          BY DEF Fed, Holds
    <3>5. \A d \in Conns : Listening(d)' => Fed(conn[d].q)'
          BY <1>00, <3>1, <3>3, <3>4
    <3>6. queue # 0 /\ ~deleted /\ opened[queue] = 0 => \A p \in Queues : p = queue => Fed(p)'
          BY <1>000, <2>1, <2>3
    <3>7. \A p \in Queues : p = queue' => (Fed(p)' <=> Fed(queue)')
          BY DEF Fed, Holds
    <3> QED BY <1>0, <2>4, <3>5, <3>6, <3>7 DEF AllFed
  <2> QED BY <2>6, <2>7
<1>9. CASE Approve
  <2>1. run'[queue] = "working" /\ \A p \in Queues : p # queue => run'[p] = run[p]
        BY <1>0, <1>9 DEF Approve, TypeOK
  <2>2. \A p \in Queues : Fed(p) => Fed(p)'
        BY <1>9, <2>1, SameHolds DEF Approve, Fed
  <2> QED BY <1>1, <1>9, <2>2 DEF Approve
<1>10. CASE Delete
      BY <1>10 DEF Delete, AllFed, Listening
<1>11. CASE Restart
      BY <1>11, FreeFact DEF Restart, AllFed, Listening
<1>12. CASE Installed \/ Moved
  <2>1. Installed => status # "awaiting"
        BY DEF Installed, First, Young
  <2>2. \A p \in Queues : Fed(p) => Fed(p)'
        BY <1>12, <2>1, SameHolds DEF Installed, Moved, Fed
  <2> QED BY <1>1, <1>12, <2>2 DEF Installed, Moved
<1>13. CASE Turned
  <2>1. \A p \in Queues : Fed(p) => Fed(p)'
        BY <1>13, SameHolds DEF Turned, session, Fed
  <2> QED BY <1>1, <1>13, <2>1 DEF Turned, session
<1>14. CASE UNCHANGED vars
  <2>1. \A p \in Queues : Fed(p) => Fed(p)'
        BY <1>14, SameHolds DEF vars, session, Fed
  <2> QED BY <1>1, <1>14, <2>1 DEF vars, session
<1> QED BY <1>2, <1>3, <1>4, <1>5, <1>6, <1>7, <1>8, <1>9, <1>10, <1>11, <1>12, <1>13, <1>14, Steps

LEMMA AwakeStep ==
    TypeOK /\ Room /\ Counted /\ First /\ Away /\ AllFed /\ Awake /\ [Next]_vars => Awake'
<1> SUFFICES ASSUME TypeOK, Room, Counted, First, Away, AllFed, Awake, [Next]_vars PROVE Awake'
    OBVIOUS
<1> DEFINE Sleeps(c) == conn[c].at \in {"checked", "waiting"}
<1>0. \A c \in Conns : Listening(c) =>
        /\ conn[c].q \in Queues
        /\ \A d \in Conns : d # c /\ conn[d].at # "free" => conn[d].q # conn[c].q
      BY DEF Listening, Room, Counted
<1>00. \A c \in Conns : Listening(c) /\ Sleeps(c) /\ buffer[conn[c].q] # <<>>
         => run[conn[c].q] # "none"
      BY DEF Awake
<1>1. ASSUME UNCHANGED <<opened, deleted>>,
             \A c \in Conns : conn'[c].at # "free" =>
               /\ conn[c].at # "free" /\ conn'[c].q = conn[c].q
               /\ conn'[c].heard => conn[c].heard,
             \A c \in Conns : Listening(c) /\ Sleeps(c)' =>
               \/ buffer'[conn[c].q] = <<>> \/ run'[conn[c].q] # "none"
               \/ /\ Sleeps(c) /\ buffer'[conn[c].q] = buffer[conn[c].q]
                  /\ run'[conn[c].q] = run[conn[c].q]
      PROVE  Awake'
  <2> SUFFICES ASSUME NEW c \in Conns, Listening(c)', Sleeps(c)', buffer'[conn'[c].q] # <<>>
               PROVE  run'[conn'[c].q] # "none"
      BY DEF Awake
  <2>1. Listening(c) /\ conn'[c].q = conn[c].q
        BY <1>1 DEF Listening
  <2> QED BY <1>00, <1>1, <2>1
<1>2. ASSUME NEW kind \in {"planning", "working"}, Begun(kind) PROVE Awake'
  <2>1. run'[fresh + 1] # "none" /\ \A q \in Queues : q # fresh + 1 => run'[q] = run[q]
        BY <1>2 DEF Begun, TypeOK
  <2>2. UNCHANGED <<opened, deleted, conn, buffer>>
        BY <1>2 DEF Begun
  <2>3. \A c \in Conns : Listening(c) => \/ run'[conn[c].q] # "none"
                                         \/ run'[conn[c].q] = run[conn[c].q]
        BY <1>0, <2>1
  <2> QED BY <1>1, <2>2, <2>3
<1>3. ASSUME NEW q \in Queues, NEW event \in Events, Put(q, event),
             UNCHANGED <<opened, deleted>>,
             \A p \in Queues : p # q => run'[p] = run[p],
             \A c \in Conns : Listening(c) /\ conn[c].at = "checked" /\ conn[c].q = q =>
               run'[q] # "none"
      PROVE  Awake'
  <2>1. /\ \A p \in Queues : p # q => buffer'[p] = buffer[p]
        /\ \A c \in Conns : Same(c)
        /\ Waiting(q) = {} \/ \E c \in Waiting(q) : conn'[c].at = "reading"
        BY <1>3, PutFact
  <2>2. ASSUME NEW c \in Conns, Listening(c), conn[c].q = q, Sleeps(c)'
        PROVE  run'[q] # "none"
    <3>1. CASE conn[c].at = "checked"
          BY <1>3, <2>2, <3>1
    <3>2. CASE conn[c].at # "checked"
      <4>1. conn[c].at = "waiting" /\ conn'[c].at # "reading"
            BY <2>1, <2>2, <3>2 DEF Same
      <4>2. PICK d \in Waiting(q) : conn'[d].at = "reading"
            BY <2>1, <2>2, <4>1 DEF Waiting
      <4>3. d \in Conns /\ d # c /\ conn[d].at # "free" /\ conn[d].q = q
            BY <4>1, <4>2 DEF Waiting
      <4> QED BY <1>0, <2>2, <4>3
    <3> QED BY <3>1, <3>2
  <2>3. \A c \in Conns : Sleeps(c)' => Sleeps(c)
        BY <2>1 DEF Same
  <2>4. \A c \in Conns : Listening(c) /\ Sleeps(c)' =>
          \/ run'[conn[c].q] # "none"
          \/ /\ Sleeps(c) /\ buffer'[conn[c].q] = buffer[conn[c].q]
             /\ run'[conn[c].q] = run[conn[c].q]
        BY <1>0, <1>3, <2>1, <2>2, <2>3
  <2> HIDE DEF Sleeps
  <2> QED BY <1>1, <1>3, <2>1, <2>4 DEF Same
<1>4. ASSUME NEW q \in Queues, NEW event \in {"plan", "error", "done"}, Told(q, event)
      PROVE  Awake'
  <2>1. event \in Events
        BY DEF Events
  <2>2. \A p \in Queues : p # q => run'[p] = run[p]
        BY <1>4 DEF Told, TypeOK
  <2>3. \A c \in Conns : conn[c].at # "checked"
        BY <1>4 DEF Told, LoopFree
  <2> QED BY <1>3, <1>4, <2>1, <2>2, <2>3 DEF Told
<1>5. ASSUME NEW q \in Queues, Noted(q) PROVE Awake'
  <2>1. "note" \in Events /\ run' = run
        BY <1>5 DEF Events, Noted, session
  <2>2. ASSUME NEW c \in Conns, Listening(c), conn[c].at = "checked", conn[c].q = q
        PROVE  run[q] # "none"
    <3>1. status # "awaiting"
          BY <1>5, <2>2 DEF Noted, LoopFree
    <3>2. CASE buffer[q] # <<>>
          BY <1>00, <2>2, <3>2
    <3>3. CASE buffer[q] = <<>>
      <4>1. Fed(q)
            BY <2>2 DEF AllFed
      <4> QED BY <3>1, <3>3, <4>1, EmptyHolds DEF Fed
    <3> QED BY <3>2, <3>3
  <2> QED BY <1>3, <1>5, <2>1, <2>2 DEF Noted, session
<1>6. ASSUME NEW q \in Queues, Died(q) PROVE Awake'
  <2>1. deleted'
        BY <1>6 DEF Died, Away, TypeOK
  <2> QED BY <2>1 DEF Awake, Listening
<1>7. ASSUME NEW q \in Queues, Saved(q) PROVE Awake'
  <2>1. run'[q] = "saving" /\ \A p \in Queues : p # q => run'[p] = run[p]
        BY <1>7 DEF Saved, TypeOK
  <2>2. UNCHANGED <<opened, deleted, conn, buffer>>
        BY <1>7 DEF Saved
  <2>3. \A c \in Conns : Listening(c) => \/ run'[conn[c].q] # "none"
                                         \/ run'[conn[c].q] = run[conn[c].q]
        BY <1>0, <2>1
  <2> QED BY <1>1, <2>2, <2>3
<1>8. ASSUME NEW c \in Conns, Open(c) PROVE Awake'
  <2>1. Opened(c)
        BY <1>8, OpenedFact
  <2>2. conn'[c].at = "reading" /\ UNCHANGED <<run, buffer, deleted>>
        BY <2>1 DEF Opened, session
  <2>3. ASSUME NEW d \in Conns, Listening(d)', d # c PROVE conn'[d] = conn[d] /\ Listening(d)
    <3>1. conn'[d] = conn[d] /\ conn[d].at # "free" /\ opened[conn[d].q] # 0
          /\ conn[d].q \in Queues
          BY <2>1, <2>3 DEF Opened, Listening, Room
    <3>2. conn[d].q # queue
          BY <2>1, <2>3, <3>1 DEF Opened, Listening
    <3> QED BY <2>1, <2>3, <3>1, <3>2 DEF Opened, Listening, session
  <2> QED BY <1>00, <2>2, <2>3 DEF Awake
<1>9. ASSUME NEW c \in Conns, Took(c) PROVE Awake'
  <2> DEFINE q == conn[c].q
  <2>1. q \in Queues /\ conn[c].at = "reading" /\ UNCHANGED <<run, opened, deleted>>
        BY <1>9 DEF Took, Room, session
  <2>2. \A p \in Queues : p # q => buffer'[p] = buffer[p]
        BY <1>9, <2>1, TakeHolds DEF Took
  <2>3. conn'[c].at \in {"free", "reading"} /\ \A d \in Conns : d # c => conn'[d] = conn[d]
        BY <1>9, <2>1, FreeFact DEF Took
  <2>4. \A d \in Conns : conn'[d].at # "free" => conn'[d] = conn[d]
        BY <1>9, FreeFact DEF Took
  <2>5. \A d \in Conns : Listening(d) /\ Sleeps(d)' => d # c /\ Sleeps(d)
        BY <2>3
  <2>6. \A d \in Conns : Listening(d) /\ d # c => conn[d].q # q
        BY <1>0, <2>1
  <2>7. \A d \in Conns : Listening(d) /\ Sleeps(d)' =>
          /\ Sleeps(d) /\ buffer'[conn[d].q] = buffer[conn[d].q]
          /\ run'[conn[d].q] = run[conn[d].q]
        BY <1>0, <2>1, <2>2, <2>5, <2>6
  <2> HIDE DEF Sleeps, q
  <2> QED BY <1>1, <2>1, <2>4, <2>7
<1>10. CASE Approve
  <2>1. \A p \in Queues : run'[p] # "none" \/ run'[p] = run[p]
        BY <1>10 DEF Approve, TypeOK
  <2>2. UNCHANGED <<opened, deleted, conn, buffer>>
        BY <1>10 DEF Approve
  <2>3. \A c \in Conns : Listening(c) => \/ run'[conn[c].q] # "none"
                                         \/ run'[conn[c].q] = run[conn[c].q]
        BY <1>0, <2>1
  <2> QED BY <1>1, <2>2, <2>3
<1>11. CASE Delete
      BY <1>11 DEF Delete, Awake, Listening
<1>12. CASE Restart
      BY <1>12, FreeFact DEF Restart, Awake, Listening
<1>13. CASE Installed \/ Moved \/ UNCHANGED vars
  <2>1. UNCHANGED <<opened, deleted, conn, buffer, run>>
        BY <1>13 DEF Installed, Moved, vars, session
  <2> QED BY <1>1, <2>1
<1>14. CASE Turned
  <2>1. UNCHANGED <<opened, deleted, buffer, run>>
        BY <1>14 DEF Turned, session
  <2>2. \A c \in Conns : /\ conn'[c].at # "free" => /\ conn[c].at # "free"
                                                    /\ conn'[c].q = conn[c].q
                                                    /\ conn'[c].heard => conn[c].heard
                         /\ Sleeps(c)' => Sleeps(c) \/ buffer[conn[c].q] = <<>>
        BY <1>14 DEF Turned
  <2> HIDE DEF Sleeps
  <2> QED BY <1>1, <2>1, <2>2
<1> QED BY <1>2, <1>4, <1>5, <1>6, <1>7, <1>8, <1>9, <1>10, <1>11, <1>12, <1>13, <1>14, Steps

---------------------------------------------------------------------------
(* The theorems *)

LEMMA Initially == Init => IInv
<1> SUFFICES ASSUME Init PROVE IInv
    OBVIOUS
<1>1. <<>> \in Seq(Events)
      BY EmptySeq
<1>2. /\ status = "absent" /\ queue = 0 /\ fresh = 0 /\ deleted = FALSE /\ plan = FALSE
      /\ buffer = [q \in Queues |-> <<>>] /\ run = [q \in Queues |-> "none"]
      /\ conn = [c \in Conns |-> Free] /\ opened = [q \in Queues |-> 0]
      /\ call = [c \in Clients |-> "idle"]
      BY DEF Init
<1>3. TypeOK
  <2>1. /\ buffer \in [Queues -> Seq(Events)] /\ conn \in [Conns -> Conn]
        /\ fresh \in 0 .. MaxQueues /\ queue \in 0 .. fresh
        BY <1>1, <1>2, FreeFact, StreamAssumption
  <2>2. /\ run \in [Queues -> {"none", "planning", "working", "saving"}]
        /\ opened \in [Queues -> 0..2]
        /\ call \in [Clients -> {"idle", "asking", "late", "stopping", "loading"}]
        BY <1>2
  <2>3. /\ status \in {"absent", "running", "awaiting", "done", "error"}
        /\ plan \in BOOLEAN /\ deleted \in BOOLEAN
        BY <1>2
  <2> QED BY <2>1, <2>2, <2>3 DEF TypeOK
<1>4. Room /\ Counted /\ Runs /\ First /\ Away
      BY <1>2, FreeFact DEF Room, Counted, Runs, First, Away
<1>5. AllFed /\ Awake
      BY <1>2, FreeFact DEF AllFed, Awake, Listening
<1> QED BY <1>3, <1>4, <1>5 DEF IInv

LEMMA Invariance == Spec => []IInv
<1>1. IInv /\ [Next]_vars => IInv'
      BY TypeStep, RoomStep, CountedStep, RunsStep, FirstStep, AwayStep, FedStep, AwakeStep
      DEF IInv
<1> QED BY Initially, <1>1, PTL DEF Spec

\* The variables keep their types: queues, runs and connections are what the
\* handlers and tasks make of them (main.py:359-453).
THEOREM TypeCorrect == Spec => []TypeOK
<1>1. IInv => TypeOK
      BY DEF IInv
<1> QED BY <1>1, Invariance, PTL

\* For any number of connections and runs: a client that listens on the only
\* stream of its queue is told how the run ends, or the run is still alive or
\* waits for approval (main.py:436-453).
THEOREM NobodyListensInVain == Spec => []NoDeafStream
<1>1. IInv => NoDeafStream
      BY DEF IInv, AllFed, Fed, NoDeafStream
<1> QED BY <1>1, Invariance, PTL

\* For any number of connections and runs: a stream that sleeps beside an
\* event has a live run that will wake it (base.py:31-38).
THEOREM SleepersAreWoken == Spec => []SleeperIsWoken
<1>1. IInv => SleeperIsWoken
      BY DEF IInv, Awake, SleeperIsWoken
<1> QED BY <1>1, Invariance, PTL

\* For any number of handlers and runs, overlapping ones included: an end that
\* waits in a queue is that of a run that is over (main.py:548-550, 849-850).
THEOREM EndsAreFinal == Spec => []EndIsFinal
<1>1. IInv => EndIsFinal
      BY DEF IInv, Runs, EndIsFinal
<1> QED BY <1>1, Invariance, PTL
=============================================================================
