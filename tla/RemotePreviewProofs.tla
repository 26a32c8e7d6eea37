------------------------ MODULE RemotePreviewProofs ------------------------
(***************************************************************************)
(* Proofs about RemotePreview, for any number of calls, contents and late  *)
(* requests: what the page shows, and when the two sides agree.            *)
(***************************************************************************)
EXTENDS RemotePreview, TLAPS

Busy(c) == call[c].op # "none"

\* What a handler that starts a preview may be doing.
Starting == {"start", "update", "checkout"}

\* Every busy call waits for one request of a kind it makes.
Fits ==
    /\ \A c \in Calls : /\ ~Busy(c) => Idle(c)
                        /\ Busy(c) => \E r \in requests : r.of = c
                        /\ call[c].op = "update" => call[c].files # None
    /\ \A r \in requests :
         /\ r.of # None => Busy(r.of)
         /\ r.of # None /\ r.kind = "start" => call[r.of].op \in Starting
         /\ r.of # None /\ r.kind = "stop" => call[r.of].op # "start"
         /\ r.kind = "start" => r.files # None
         /\ r.kind = "stop" => r.state \in {"sent", "ok", "lost"}
    /\ \A r, s \in requests : r.of = s.of /\ r.of # None => r = s

\* A call that has been alone since it began is the only one; one that stops
\* the preview has made the gateway forget it, and a lone stop that was carried
\* out has left nothing behind.
Lone ==
    \A c \in Calls : Busy(c) /\ call[c].alone =>
        /\ \A d \in Calls : d # c => ~Busy(d)
        /\ call[c].op \in {"stop", "iterate"} => ~active
        /\ call[c].op = "stop" =>
             \A r \in requests :
               /\ r.kind = "stop"
               /\ r.of # c => \E s \in requests : s.of = c /\ s.state = "lost"
               /\ r.of = c /\ r.state = "ok" => served = None

\* Without overlaps, calls are alone.
Apart == ~overlapped => \A c \in Calls : Busy(c) => call[c].alone

\* Something may be shown, now or when a start returns.
Showing == active \/ \E c \in Calls : call[c].op \in Starting

\* Then nothing changes the files, and whatever starts a preview has them.
Current ==
    ~overlapped /\ Showing =>
        /\ status = "done"
        /\ \A r \in requests : r.kind = "start" => r.files = files
        /\ \A c \in Calls : call[c].op = "update" => call[c].files = files
        /\ active \/ (\E r \in requests : r.kind = "start" /\ r.state \in {"registered", "ok"})
             => served \in {None, files}

\* While the gateway's record is to be trusted, requests tell what is served.
Trusted ==
    trusted =>
        /\ \A c \in Calls : Busy(c) => call[c].alone
        /\ \A r \in requests :
             /\ r.of # None /\ r.state # "lost" /\ ~active
             /\ r.kind = "stop" /\ r.state = "ok" => served = None
             /\ r.kind = "start" => (served # None <=> r.state \in {"registered", "ok"})
        /\ requests = {} => (active <=> served # None)

IInv == TypeOK /\ Fits /\ Lone /\ Apart /\ Current /\ Trusted

---------------------------------------------------------------------------
(* The steps *)

\* A call that begins.
Begins(c) ==
    PreviewStart(c) \/ PreviewStop(c) \/ (active /\ UpdateFiles(c))
    \/ (active /\ Checkout(c)) \/ Iterate(c)

\* An edit or a checkout without a preview.
Edits(c) == ~active /\ (UpdateFiles(c) \/ Checkout(c))

\* The service works on a request.
Works(r) == ServiceStop(r) \/ ServiceRegister(r) \/ ServiceRefuse(r) \/ ServiceStarted(r)

LEMMA Steps ==
    ASSUME [Next]_vars
    PROVE  \/ \E c \in Calls : \/ Begins(c) \/ Edits(c) \/ StopReturns(c) \/ StartReturns(c)
                               \/ Lose(c) \/ TimeOut(c)
           \/ \E r \in requests : Works(r)
           \/ RunEnds \/ ServiceRestarts \/ AppRestarts \/ Restore
           \/ UNCHANGED vars
BY DEF Next, Handle, Return, Serve, Begins, Edits, Works

\* A call begins with one request: a start with the session's files, or a stop,
\* with the gateway having forgotten the preview.
Begun(c, op, fs, kind, sent) ==
    /\ Idle(c)
    /\ call' = [d \in Calls |->
                  IF d = c THEN [op |-> op, files |-> fs, alone |-> Quiet]
                           ELSE [call[d] EXCEPT !.alone = FALSE]]
    /\ requests' = requests \cup
          {[of |-> c, kind |-> kind, files |-> sent, state |-> "sent"]}
    /\ overlapped' = (overlapped \/ ~Quiet)
    /\ UNCHANGED <<status, served>>
    /\ files' \in Files
    /\ op = "update" => fs = files'
    /\ \/ /\ op = "start" /\ kind = "start" /\ sent = files /\ files' = files
          /\ status = "done" /\ active' = active
          /\ trusted' = (trusted /\ Quiet /\ ~active)
       \/ /\ op # "start" /\ kind = "stop" /\ active' = FALSE
          /\ trusted' = (trusted /\ Quiet)
          /\ op \in Starting => active

LEMMA BeginsFact ==
    ASSUME TypeOK, NEW c \in Calls, Begins(c)
    PROVE  \E op \in Ops, fs \in Files \cup {None}, kind \in {"start", "stop"},
              sent \in Files \cup {None} :
             Begun(c, op, fs, kind, sent)
<1>1. CASE PreviewStart(c)
      BY <1>1 DEF Begun, PreviewStart, Begin, Ask, TypeOK, Ops
<1>2. CASE PreviewStop(c)
      BY <1>2 DEF Begun, PreviewStop, Begin, Ask, Forget, TypeOK, Ops, Starting
<1>3. CASE active /\ UpdateFiles(c)
  <2>1. PICK fs \in Files : Restart(c, "update", fs)
        BY <1>3 DEF UpdateFiles
  <2>2. /\ Begin(c, "update", fs, "stop", None) /\ files' = fs /\ active' = FALSE
        /\ trusted' = (trusted /\ Quiet) /\ UNCHANGED <<status, served>>
        BY <1>3, <2>1 DEF Restart, Forget
  <2>3. "update" \in Ops /\ fs \in Files \cup {None} /\ None \in Files \cup {None}
        BY DEF Ops
  <2> QED BY <1>3, <2>2, <2>3 DEF Begun, Begin, Ask
<1>4. CASE active /\ Checkout(c)
  <2>1. PICK fs \in Files : Restart(c, "checkout", fs)
        BY <1>4 DEF Checkout
  <2>2. /\ Begin(c, "checkout", None, "stop", None) /\ files' = fs /\ active' = FALSE
        /\ trusted' = (trusted /\ Quiet) /\ UNCHANGED <<status, served>>
        BY <1>4, <2>1 DEF Restart, Forget
  <2>3. "checkout" \in Ops /\ None \in Files \cup {None}
        BY DEF Ops
  <2> QED BY <1>4, <2>2, <2>3 DEF Begun, Begin, Ask
<1>5. CASE Iterate(c)
      BY <1>5 DEF Begun, Iterate, Begin, Ask, Forget, TypeOK, Ops, Starting
<1> QED BY <1>1, <1>2, <1>3, <1>4, <1>5 DEF Begins

LEMMA EditsFact ==
    ASSUME TypeOK, NEW c \in Calls, Edits(c)
    PROVE  /\ ~active /\ files' \in Files
           /\ overlapped' = (overlapped \/ ~Quiet)
           /\ UNCHANGED <<status, active, call, requests, served, trusted>>
BY DEF Edits, UpdateFiles, Checkout, Restart

\* What the service does to a request: its state changes, and a late one that
\* is answered is gone.
Worked(r, state) ==
    /\ UNCHANGED <<app, overlapped, trusted>>
    /\ r.state \in {"sent", "registered"}
    /\ \/ requests' = (requests \ {r}) \cup {[r EXCEPT !.state = state]}
       \/ r.of = None /\ requests' = requests \ {r}
    /\ \/ r.kind = "stop" /\ state = "ok" /\ served' = None
       \/ r.kind = "start" /\ state = "registered" /\ served' = r.files
       \/ r.kind = "start" /\ state \in {"failed", "error"} /\ r.state = "sent" /\ UNCHANGED served
       \/ r.kind = "start" /\ state = "failed" /\ served' = None
       \/ r.kind = "start" /\ state = "ok" /\ r.state = "registered" /\ UNCHANGED served

LEMMA WorksFact ==
    ASSUME TypeOK, NEW r \in requests, Works(r)
    PROVE  \E state \in {"registered", "ok", "failed", "error"} : Worked(r, state)
<1>1. CASE ServiceStop(r)
      BY <1>1 DEF Worked, ServiceStop, Answer, Serves
<1>2. CASE ServiceRegister(r)
      BY <1>2 DEF Worked, ServiceRegister, Serves
<1>3. CASE ServiceRefuse(r)
      BY <1>3 DEF Worked, ServiceRefuse, Answer, Serves
<1>4. CASE ServiceStarted(r)
      BY <1>4 DEF Worked, ServiceStarted, Answer, Serves
<1> QED BY <1>1, <1>2, <1>3, <1>4 DEF Works

\* A stop that returns ends its call, or goes on with the start.
Stopped(c, r) ==
    /\ r.of = c /\ r.kind = "stop" /\ r.state \in {"ok", "lost"}
    /\ call[c].op \in {"stop", "iterate", "update", "checkout"}
    /\ \/ /\ call[c].op \in {"stop", "iterate"}
          /\ call' = [call EXCEPT ![c] = NoCall]
          /\ requests' = requests \ {r}
          /\ status' = IF call[c].op = "iterate" THEN "running" ELSE status
       \/ /\ call[c].op \in {"update", "checkout"}
          /\ \E fs \in Files :
               /\ requests' = (requests \ {r}) \cup
                    {[of |-> c, kind |-> "start", files |-> fs, state |-> "sent"]}
               /\ fs = IF call[c].op = "update" THEN call[c].files ELSE files
          /\ UNCHANGED <<status, call>>
    /\ overlapped' = (overlapped /\ ~Heals(c, r))
    /\ trusted' = (trusted \/ Heals(c, r))
    /\ UNCHANGED <<files, active, served>>

LEMMA StopReturnsFact ==
    ASSUME TypeOK, Fits, NEW c \in Calls, StopReturns(c)
    PROVE  \E r \in requests : Stopped(c, r)
<1>1. PICK r \in Answered(c, "stop") :
          /\ CASE call[c].op = "stop" ->
                    /\ End(c)
                    /\ requests' = requests \ {r}
                    /\ UNCHANGED status
               [] call[c].op = "iterate" ->
                    /\ End(c)
                    /\ requests' = requests \ {r}
                    /\ status' = "running"
               [] OTHER ->
                    /\ requests' = (requests \ {r}) \cup
                         {Ask(c, "start", IF call[c].op = "update" THEN call[c].files ELSE files)}
                    /\ UNCHANGED <<status, call>>
          /\ overlapped' = (overlapped /\ ~Heals(c, r))
          /\ trusted' = (trusted \/ Heals(c, r))
          /\ UNCHANGED <<files, active, served>>
      BY DEF StopReturns
<1>2. /\ r \in requests /\ r.of = c /\ r.kind = "stop" /\ r.state \in {"ok", "lost"}
      BY PreviewAssumption DEF Answered, Fits, Answers
<1>3. call[c].op \in {"stop", "iterate", "update", "checkout"}
  <2>1. Busy(c) /\ call[c].op # "start" /\ call[c] \in Call
        BY <1>2, PreviewAssumption DEF Fits, TypeOK
  <2> QED BY <2>1 DEF Busy, Call, Ops
<1>4. CASE call[c].op = "stop"
      BY <1>1, <1>2, <1>4 DEF Stopped, End
<1>5. CASE call[c].op = "iterate"
      BY <1>1, <1>2, <1>5 DEF Stopped, End
<1>6. CASE call[c].op \in {"update", "checkout"}
  <2> DEFINE fs == IF call[c].op = "update" THEN call[c].files ELSE files
  <2>1. fs \in Files
        BY DEF Fits, TypeOK, Call
  <2>2. /\ requests' = (requests \ {r}) \cup
              {[of |-> c, kind |-> "start", files |-> fs, state |-> "sent"]}
        /\ UNCHANGED <<status, call>>
        BY <1>1, <1>6 DEF Ask
  <2> HIDE DEF fs
  <2>3. /\ call[c].op \in {"update", "checkout"}
        /\ \E f \in Files :
             /\ requests' = (requests \ {r}) \cup
                  {[of |-> c, kind |-> "start", files |-> f, state |-> "sent"]}
             /\ f = IF call[c].op = "update" THEN call[c].files ELSE files
        /\ UNCHANGED <<status, call>>
        BY <1>6, <2>1, <2>2 DEF fs
  <2> QED BY <1>1, <1>2, <1>3, <2>3 DEF Stopped
<1> QED BY <1>3, <1>4, <1>5, <1>6

\* A start that returns ends its call, and is previewed if it succeeded.
Returned(c, r) ==
    /\ r.of = c /\ r.kind = "start" /\ r.state \in Answers /\ call[c].op \in Starting
    /\ call' = [call EXCEPT ![c] = NoCall]
    /\ requests' = requests \ {r}
    /\ active' = (active \/ r.state = "ok")
    /\ UNCHANGED <<status, files, served, overlapped, trusted>>

LEMMA StartReturnsFact ==
    ASSUME TypeOK, Fits, NEW c \in Calls, StartReturns(c)
    PROVE  \E r \in requests : Returned(c, r)
BY PreviewAssumption DEF Returned, StartReturns, Answered, Started, End, Fits

\* A request that is lost is answered, and handled late or never.
Lost(c, r) ==
    /\ r.of = c /\ r.state \in {"sent", "registered"}
    /\ \/ requests' = (requests \ {r}) \cup {[r EXCEPT !.state = "lost"]}
       \/ requests' = (requests \ {r}) \cup
                        {[r EXCEPT !.of = None], [r EXCEPT !.state = "lost"]}
    /\ ~trusted'
    /\ UNCHANGED <<app, served, overlapped>>

LEMMA LostFact ==
    ASSUME TypeOK, NEW c \in Calls, Lose(c) \/ TimeOut(c)
    PROVE  \E r \in requests : Lost(c, r)
<1>1. \A r \in Waiting(c) : r \in requests /\ r.of = c /\ r.state \in {"sent", "registered"}
      BY DEF Waiting, TypeOK, Request
<1>2. CASE Lose(c)
      BY <1>1, <1>2, PreviewAssumption DEF Lost, Lose, Answer
<1>3. CASE TimeOut(c)
      BY <1>1, <1>3 DEF Lost, TimeOut
<1> QED BY <1>2, <1>3

\* A request of changed state, or of a call that is gone.
LEMMA RequestFact ==
    ASSUME NEW r \in Request
    PROVE  /\ [r EXCEPT !.of = None] \in Request
           /\ [r EXCEPT !.of = None].kind = r.kind
           /\ [r EXCEPT !.of = None].files = r.files
           /\ [r EXCEPT !.of = None].state = r.state
           /\ [r EXCEPT !.of = None].of = None
           /\ \A state \in {"sent", "registered"} \cup Answers :
                /\ [r EXCEPT !.state = state] \in Request
                /\ [r EXCEPT !.state = state].kind = r.kind
                /\ [r EXCEPT !.state = state].files = r.files
                /\ [r EXCEPT !.state = state].of = r.of
                /\ [r EXCEPT !.state = state].state = state
BY DEF Request

LEMMA TypeStep == TypeOK /\ Fits /\ [Next]_vars => TypeOK'
<1> SUFFICES ASSUME TypeOK, Fits, [Next]_vars PROVE TypeOK'
    OBVIOUS
<1>0. \A r \in requests : r \in Request
      BY DEF TypeOK
<1>1. ASSUME NEW c \in Calls, Begins(c) PROVE TypeOK'
  <2>1. PICK op \in Ops, fs \in Files \cup {None}, kind \in {"start", "stop"},
             sent \in Files \cup {None} : Begun(c, op, fs, kind, sent)
        BY <1>1, BeginsFact
  <2>2. \A d \in Calls : call'[d] \in Call
        BY <2>1 DEF Begun, TypeOK, Call, Quiet
  <2>3. call' \in [Calls -> Call]
        BY <2>1, <2>2 DEF Begun
  <2>4. requests' \subseteq Request
        BY <2>1 DEF Begun, TypeOK, Request
  <2>5. active' \in BOOLEAN /\ trusted' \in BOOLEAN /\ overlapped' \in BOOLEAN
        BY <2>1 DEF Begun, TypeOK, Quiet
  <2> QED BY <2>1, <2>3, <2>4, <2>5 DEF Begun, TypeOK
<1>2. ASSUME NEW c \in Calls, Edits(c) PROVE TypeOK'
      BY <1>2, EditsFact DEF TypeOK, Quiet
<1>3. ASSUME NEW c \in Calls, StopReturns(c) PROVE TypeOK'
  <2>1. PICK r \in requests : Stopped(c, r)
        BY <1>3, StopReturnsFact
  <2>0. NoCall \in Call
        BY DEF NoCall, Call
  <2>2. call' \in [Calls -> Call]
        BY <2>0, <2>1 DEF Stopped, TypeOK
  <2>3. requests' \subseteq Request
        BY <1>0, <2>1 DEF Stopped, Request
  <2>4. /\ status' \in {status, "running"} /\ UNCHANGED <<files, active, served>>
        /\ overlapped' \in BOOLEAN /\ trusted' \in BOOLEAN
        BY <2>1 DEF Stopped, TypeOK, Heals
  <2> QED BY <2>2, <2>3, <2>4 DEF TypeOK
<1>4. ASSUME NEW c \in Calls, StartReturns(c) PROVE TypeOK'
  <2>1. PICK r \in requests : Returned(c, r)
        BY <1>4, StartReturnsFact
  <2>2. call' \in [Calls -> Call]
        BY <2>1 DEF Returned, TypeOK, Call, NoCall
  <2> QED BY <2>1, <2>2 DEF Returned, TypeOK
<1>5. ASSUME NEW c \in Calls, Lose(c) \/ TimeOut(c) PROVE TypeOK'
  <2>1. PICK r \in requests : Lost(c, r)
        BY <1>5, LostFact
  <2>2. [r EXCEPT !.of = None] \in Request /\ [r EXCEPT !.state = "lost"] \in Request
        BY <1>0, RequestFact DEF Answers
  <2>3. requests' \subseteq Request
        BY <1>0, <2>1, <2>2 DEF Lost
  <2>4. trusted' \in BOOLEAN
        BY <1>5 DEF Lose, TimeOut
  <2> QED BY <2>1, <2>3, <2>4 DEF Lost, TypeOK, app
<1>6. ASSUME NEW r \in requests, Works(r) PROVE TypeOK'
  <2>1. PICK state \in {"registered", "ok", "failed", "error"} : Worked(r, state)
        BY <1>6, WorksFact
  <2>2. [r EXCEPT !.state = state] \in Request
        BY <1>0, RequestFact DEF Answers
  <2>3. requests' \subseteq Request
        BY <1>0, <2>1, <2>2 DEF Worked
  <2>4. served' \in Files \cup {None}
        BY <1>0, <2>1 DEF Worked, TypeOK, Request
  <2> QED BY <2>1, <2>3, <2>4 DEF Worked, TypeOK, app
<1>7. CASE RunEnds \/ Restore
      BY <1>7 DEF RunEnds, Restore, TypeOK
<1>8. CASE ServiceRestarts
  <2>1. requests' \subseteq Request
        BY <1>0, <1>8, RequestFact DEF ServiceRestarts, Answers, Late
  <2> QED BY <1>8, <2>1 DEF ServiceRestarts, TypeOK, app
<1>9. CASE AppRestarts
  <2>1. requests' \subseteq Request
        BY <1>0, <1>9, RequestFact DEF AppRestarts
  <2> QED BY <1>9, <2>1 DEF AppRestarts, TypeOK, Call, NoCall
<1>10. CASE UNCHANGED vars
      BY <1>10 DEF vars, app, TypeOK
<1> QED BY <1>1, <1>2, <1>3, <1>4, <1>5, <1>6, <1>7, <1>8, <1>9, <1>10, Steps

---------------------------------------------------------------------------
(* Calls and their requests fit together *)

\* Requests of the same calls, for the same things.
LEMMA FitsKept ==
    ASSUME Fits, call' = call,
           \A q \in requests' :
             /\ q.kind = "start" => q.files # None
             /\ q.kind = "stop" => q.state \in {"sent", "ok", "lost"}
             /\ q.of # None => \E r \in requests : q.of = r.of /\ q.kind = r.kind,
           \A r \in requests : r.of # None => \E q \in requests' : q.of = r.of,
           \A p, q \in requests' : p.of = q.of /\ p.of # None => p = q
    PROVE  Fits'
<1>1. \A c \in Calls : /\ ~Busy(c)' => Idle(c)'
                       /\ Busy(c)' => \E r \in requests' : r.of = c
                       /\ call'[c].op = "update" => call'[c].files # None
  <2> SUFFICES ASSUME NEW c \in Calls, Busy(c) PROVE \E q \in requests' : q.of = c
      BY DEF Fits, Busy, Idle
  <2>1. PICK r \in requests : r.of = c
        BY DEF Fits
  <2> QED BY <2>1, PreviewAssumption
<1> QED BY <1>1 DEF Fits, Busy

LEMMA FitsStep == TypeOK /\ Fits /\ [Next]_vars => Fits'
<1> SUFFICES ASSUME TypeOK, Fits, [Next]_vars PROVE Fits'
    OBVIOUS
<1>0. \A r \in requests : r \in Request
      BY DEF TypeOK
<1>1. ASSUME NEW c \in Calls, Begins(c) PROVE Fits'
  <2>1. PICK op \in Ops, fs \in Files \cup {None}, kind \in {"start", "stop"},
             sent \in Files \cup {None} : Begun(c, op, fs, kind, sent)
        BY <1>1, BeginsFact
  <2> DEFINE new == [of |-> c, kind |-> kind, files |-> sent, state |-> "sent"]
  <2>2. /\ new.of = c /\ new.kind = kind /\ new.files = sent /\ new.state = "sent"
        /\ requests' = requests \cup {new} /\ c # None
        BY <2>1, PreviewAssumption DEF Begun
  <2>3. /\ call'[c].op = op /\ call'[c].files = fs
        /\ \A d \in Calls : d # c => /\ call'[d].op = call[d].op
                                     /\ call'[d].files = call[d].files
                                     /\ (~Busy(d) => call'[d] = call[d])
    <3>1. \A d \in Calls : d # c => call'[d] = [call[d] EXCEPT !.alone = FALSE]
          BY <2>1 DEF Begun
    <3>2. \A d \in Calls : ~Busy(d) => call[d] = NoCall
          BY DEF Fits, Idle
    <3> QED BY <2>1, <3>1, <3>2 DEF Begun, TypeOK, Call, NoCall
  <2>4. \A r \in requests : r.of # c
        BY <2>1, <2>2 DEF Begun, Idle, NoCall, Fits, Busy
  <2>5. op # "none" /\ (op = "start" <=> kind = "start") /\ (kind = "start" => sent # None)
        BY <2>1, PreviewAssumption DEF Begun, Ops, TypeOK
  <2>6. op = "update" => fs # None
        BY <2>1, PreviewAssumption DEF Begun
  <2> HIDE DEF new
  <2>7. \A d \in Calls : /\ ~Busy(d)' => Idle(d)'
                         /\ Busy(d)' => \E r \in requests' : r.of = d
                         /\ call'[d].op = "update" => call'[d].files # None
        BY <2>2, <2>3, <2>5, <2>6 DEF Fits, Busy, Idle
  <2>8. \A r \in requests' :
          /\ r.of # None => Busy(r.of)'
          /\ r.of # None /\ r.kind = "start" => call'[r.of].op \in Starting
          /\ r.of # None /\ r.kind = "stop" => call'[r.of].op # "start"
          /\ r.kind = "start" => r.files # None
          /\ r.kind = "stop" => r.state \in {"sent", "ok", "lost"}
    <3> SUFFICES ASSUME NEW r \in requests, r # new
                 PROVE  /\ r.of # None => Busy(r.of)'
                        /\ r.of # None /\ r.kind = "start" => call'[r.of].op \in Starting
                        /\ r.of # None /\ r.kind = "stop" => call'[r.of].op # "start"
                        /\ r.kind = "start" => r.files # None
                        /\ r.kind = "stop" => r.state \in {"sent", "ok", "lost"}
        BY <2>2, <2>3, <2>5 DEF Busy, Starting
    <3>1. r.of # None => r.of \in Calls /\ call'[r.of].op = call[r.of].op
          BY <1>0, <2>3, <2>4 DEF Request
    <3> QED BY <3>1 DEF Fits, Busy
  <2>9. \A r, q \in requests' : r.of = q.of /\ r.of # None => r = q
        BY <2>2, <2>4 DEF Fits
  <2> QED BY <2>7, <2>8, <2>9 DEF Fits
<1>2. ASSUME NEW c \in Calls, Edits(c) PROVE Fits'
      BY <1>2, EditsFact DEF Fits, Busy, Idle
<1>3. ASSUME NEW c \in Calls, NEW r \in requests, r.of = c, call' = [call EXCEPT ![c] = NoCall],
             requests' = requests \ {r}
      PROVE  Fits'
  <2>1. call'[c] = NoCall /\ \A d \in Calls : d # c => call'[d] = call[d]
        BY <1>3 DEF TypeOK
  <2>2. \A q \in requests' : q.of # c
        BY <1>3, PreviewAssumption DEF Fits
  <2>3. \A d \in Calls : /\ ~Busy(d)' => Idle(d)'
                         /\ Busy(d)' => \E q \in requests' : q.of = d
                         /\ call'[d].op = "update" => call'[d].files # None
    <3>1. NoCall.op = "none"
          BY DEF NoCall
    <3>2. /\ ~Busy(c)' => Idle(c)'
          /\ ~Busy(c)' /\ call'[c].op # "update"
          BY <2>1, <3>1 DEF Busy, Idle
    <3>3. ASSUME NEW d \in Calls, d # c
          PROVE  /\ ~Busy(d)' => Idle(d)'
                 /\ Busy(d)' => \E q \in requests' : q.of = d
                 /\ call'[d].op = "update" => call'[d].files # None
          BY <1>3, <2>1, <3>3 DEF Fits, Busy, Idle
    <3> QED BY <3>2, <3>3
  <2>4. \A q \in requests' : q.of # None => q.of \in Calls /\ call'[q.of] = call[q.of]
        BY <1>0, <1>3, <2>1, <2>2 DEF Request
  <2> QED BY <1>3, <2>3, <2>4 DEF Fits, Busy
<1>4. ASSUME NEW c \in Calls, StopReturns(c) PROVE Fits'
  <2>1. PICK r \in requests : Stopped(c, r)
        BY <1>4, StopReturnsFact
  <2>2. CASE call[c].op \in {"stop", "iterate"}
        BY <1>3, <2>1, <2>2 DEF Stopped
  <2>3. CASE call[c].op \in {"update", "checkout"}
    <3>1. PICK fs \in Files :
            requests' = (requests \ {r}) \cup
                          {[of |-> c, kind |-> "start", files |-> fs, state |-> "sent"]}
          BY <2>1, <2>3 DEF Stopped
    <3> DEFINE new == [of |-> c, kind |-> "start", files |-> fs, state |-> "sent"]
    <3>2. /\ new.of = c /\ new.kind = "start" /\ new.files # None /\ new.state = "sent"
          /\ requests' = (requests \ {r}) \cup {new} /\ c # None
          BY <3>1, PreviewAssumption
    <3> HIDE DEF new
    <3>3. call' = call /\ r.of = c
          BY <2>1, <2>3 DEF Stopped
    <3>4. \A d \in Calls : /\ ~Busy(d)' => Idle(d)'
                           /\ Busy(d)' => \E q \in requests' : q.of = d
                           /\ call'[d].op = "update" => call'[d].files # None
          BY <3>2, <3>3 DEF Fits, Busy, Idle
    <3>5. \A q \in requests : q # r => q.of # c
          BY <3>2, <3>3 DEF Fits
    <3>6. \A p, q \in requests' : p.of = q.of /\ p.of # None => p = q
          BY <3>2, <3>5 DEF Fits
    <3>7. Busy(c) /\ call[c].op \in Starting
          BY <2>3 DEF Busy, Starting
    <3>8. \A q \in requests' :
            /\ q.of # None => Busy(q.of)'
            /\ q.of # None /\ q.kind = "start" => call'[q.of].op \in Starting
            /\ q.of # None /\ q.kind = "stop" => call'[q.of].op # "start"
            /\ q.kind = "start" => q.files # None
            /\ q.kind = "stop" => q.state \in {"sent", "ok", "lost"}
          BY <3>2, <3>3, <3>7 DEF Fits, Busy
    <3> QED BY <3>4, <3>6, <3>8 DEF Fits
  <2> QED BY <2>1, <2>2, <2>3 DEF Stopped
<1>5. ASSUME NEW c \in Calls, StartReturns(c) PROVE Fits'
      BY <1>3, <1>5, StartReturnsFact DEF Returned
<1>6. ASSUME NEW c \in Calls, Lose(c) \/ TimeOut(c) PROVE Fits'
  <2>1. PICK r \in requests : Lost(c, r)
        BY <1>6, LostFact
  <2> DEFINE lost == [r EXCEPT !.state = "lost"]
             late == [r EXCEPT !.of = None]
  <2>2. /\ lost.of = r.of /\ lost.kind = r.kind /\ lost.files = r.files /\ lost.state = "lost"
        /\ late.of = None /\ late.kind = r.kind /\ late.files = r.files /\ late.state = r.state
        BY <1>0, RequestFact DEF Answers
  <2>3. /\ call' = call
        /\ \/ requests' = (requests \ {r}) \cup {lost}
           \/ requests' = (requests \ {r}) \cup {late, lost}
        BY <2>1 DEF Lost, app
  <2> HIDE DEF lost, late
  <2>4. \A q \in requests : q.of = r.of /\ q.of # None => q = r
        BY DEF Fits
  <2>5. \A p, q \in requests' : p.of = q.of /\ p.of # None => p = q
        BY <2>2, <2>3, <2>4 DEF Fits
  <2>6. \A q \in requests : q.of # None => \E p \in requests' : p.of = q.of
        BY <2>2, <2>3, <2>4
  <2>7. \A q \in requests' :
          /\ q.kind = "start" => q.files # None
          /\ q.kind = "stop" => q.state \in {"sent", "ok", "lost"}
          /\ q.of # None => \E p \in requests : q.of = p.of /\ q.kind = p.kind
        BY <2>2, <2>3 DEF Fits
  <2> QED BY <2>3, <2>5, <2>6, <2>7, FitsKept
<1>7. ASSUME NEW r \in requests, Works(r) PROVE Fits'
  <2>1. PICK state \in {"registered", "ok", "failed", "error"} : Worked(r, state)
        BY <1>7, WorksFact
  <2> DEFINE new == [r EXCEPT !.state = state]
  <2>2. /\ new.of = r.of /\ new.kind = r.kind /\ new.files = r.files /\ new.state = state
        BY <1>0, RequestFact DEF Answers
  <2>3. /\ call' = call
        /\ \/ requests' = (requests \ {r}) \cup {new}
           \/ r.of = None /\ requests' = requests \ {r}
        /\ r.kind = "stop" => state = "ok"
        BY <2>1 DEF Worked, app
  <2> HIDE DEF new
  <2>4. \A q \in requests : q.of = r.of /\ q.of # None => q = r
        BY DEF Fits
  <2>5. \A p, q \in requests' : p.of = q.of /\ p.of # None => p = q
        BY <2>2, <2>3, <2>4 DEF Fits
  <2>6. \A q \in requests : q.of # None => \E p \in requests' : p.of = q.of
        BY <2>2, <2>3
  <2>7. \A q \in requests' :
          /\ q.kind = "start" => q.files # None
          /\ q.kind = "stop" => q.state \in {"sent", "ok", "lost"}
          /\ q.of # None => \E p \in requests : q.of = p.of /\ q.kind = p.kind
        BY <2>2, <2>3 DEF Fits
  <2> QED BY <2>3, <2>5, <2>6, <2>7, FitsKept
<1>8. CASE RunEnds \/ Restore \/ UNCHANGED vars
      BY <1>8 DEF RunEnds, Restore, vars, app, Fits, Busy, Idle
<1>9. CASE ServiceRestarts
  <2> DEFINE new(r) == IF r.state \in Answers THEN r ELSE [r EXCEPT !.state = "lost"]
  <2>1. \A r \in requests : /\ new(r).of = r.of /\ new(r).kind = r.kind
                            /\ new(r).files = r.files
                            /\ new(r).state \in {r.state, "lost"}
        BY <1>0, RequestFact DEF Answers
  <2>2. requests' = {new(r) : r \in requests \ Late} /\ call' = call
        BY <1>9 DEF ServiceRestarts, app
  <2> HIDE DEF new
  <2>3. \A q \in requests' : \E r \in requests : q = new(r) /\ r.of # None
        BY <2>2 DEF Late
  <2>4. \A r \in requests : r.of # None => new(r) \in requests'
        BY <2>2 DEF Late
  <2>5. \A p, q \in requests' : p.of = q.of /\ p.of # None => p = q
    <3> SUFFICES ASSUME NEW p \in requests', NEW q \in requests', p.of = q.of, p.of # None
                 PROVE  p = q
        OBVIOUS
    <3>1. PICK a \in requests : p = new(a)
          BY <2>3
    <3>2. PICK b \in requests : q = new(b)
          BY <2>3
    <3>3. a.of = b.of /\ a.of # None
          BY <2>1, <3>1, <3>2
    <3>4. a = b
          BY <3>3 DEF Fits
    <3> QED BY <3>1, <3>2, <3>4
  <2>6. \A r \in requests : r.of # None => \E q \in requests' : q.of = r.of
        BY <2>1, <2>4
  <2>7. \A q \in requests' :
          /\ q.kind = "start" => q.files # None
          /\ q.kind = "stop" => q.state \in {"sent", "ok", "lost"}
          /\ q.of # None => \E r \in requests : q.of = r.of /\ q.kind = r.kind
        BY <2>1, <2>3 DEF Fits
  <2> QED BY <2>2, <2>5, <2>6, <2>7, FitsKept
<1>10. CASE AppRestarts
  <2> DEFINE late(r) == [r EXCEPT !.of = None]
  <2>1. \A r \in requests : /\ late(r).of = None /\ late(r).kind = r.kind
                            /\ late(r).files = r.files /\ late(r).state = r.state
        BY <1>0, RequestFact
  <2>2. \E rs \in SUBSET requests : requests' = {late(r) : r \in rs}
        BY <1>10 DEF AppRestarts
  <2> HIDE DEF late
  <2>3. \A q \in requests' : \E r \in requests :
          q.of = None /\ q.kind = r.kind /\ q.files = r.files /\ q.state = r.state
        BY <2>1, <2>2
  <2>4. NoCall.op = "none"
        BY DEF NoCall
  <2>5. \A c \in Calls : call'[c] = NoCall
        BY <1>10 DEF AppRestarts
  <2>6. \A c \in Calls : /\ ~Busy(c)' /\ Idle(c)' /\ call'[c].op # "update"
        BY <2>4, <2>5 DEF Busy, Idle
  <2> QED BY <2>3, <2>6 DEF Fits
<1> QED BY <1>1, <1>2, <1>4, <1>5, <1>6, <1>7, <1>8, <1>9, <1>10, Steps

---------------------------------------------------------------------------
(* Calls that are alone *)

\* What a begun call leaves: itself, and others that are no longer alone.
LEMMA BegunCalls ==
    ASSUME TypeOK, Fits, NEW c \in Calls, NEW op \in Ops, NEW fs \in Files \cup {None},
           NEW kind, NEW sent, Begun(c, op, fs, kind, sent)
    PROVE  /\ call'[c].op = op /\ call'[c].files = fs /\ call'[c].alone = Quiet
           /\ \A d \in Calls : d # c => /\ call'[d].op = call[d].op
                                        /\ call'[d].files = call[d].files
                                        /\ call'[d].alone = FALSE
           /\ Quiet => /\ requests = {}
                       /\ \A d \in Calls : d # c => ~Busy(d)'
                                                    /\ call'[d].op = "none"
<1>1. \A d \in Calls : d # c => call'[d] = [call[d] EXCEPT !.alone = FALSE]
      BY DEF Begun
<1>2. /\ call'[c].op = op /\ call'[c].files = fs /\ call'[c].alone = Quiet
      BY DEF Begun
<1>3. \A d \in Calls : d # c => /\ call'[d].op = call[d].op
                                /\ call'[d].files = call[d].files
                                /\ call'[d].alone = FALSE
      BY <1>1 DEF TypeOK, Call
<1>4. NoCall.op = "none"
      BY DEF NoCall
<1>5. Quiet => \A d \in Calls : call[d].op = "none"
      BY <1>4 DEF Quiet, Idle
<1> QED BY <1>2, <1>3, <1>5 DEF Quiet, Busy

\* A call that ends is idle, the others stay what they are.
LEMMA Ended ==
    ASSUME TypeOK, NEW c \in Calls, call' = [call EXCEPT ![c] = NoCall]
    PROVE  /\ ~Busy(c)' /\ call'[c].op = "none"
           /\ \A d \in Calls : d # c => call'[d] = call[d] /\ (Busy(d)' <=> Busy(d))
<1>1. NoCall.op = "none"
      BY DEF NoCall
<1> QED BY <1>1 DEF TypeOK, Busy

LEMMA LoneStep == TypeOK /\ Fits /\ Lone /\ [Next]_vars => Lone'
<1> SUFFICES ASSUME TypeOK, Fits, Lone, [Next]_vars PROVE Lone'
    OBVIOUS
<1>0. \A r \in requests : r \in Request
      BY DEF TypeOK
<1> DEFINE Own(c, r) == /\ r.kind = "stop"
                        /\ r.of # c => \E s \in requests : s.of = c /\ s.state = "lost"
                        /\ r.of = c /\ r.state = "ok" => served = None
<1>1. ASSUME NEW c \in Calls, Begins(c) PROVE Lone'
  <2>1. PICK op \in Ops, fs \in Files \cup {None}, kind \in {"start", "stop"},
             sent \in Files \cup {None} : Begun(c, op, fs, kind, sent)
        BY <1>1, BeginsFact
  <2>2. /\ call'[c].op = op /\ call'[c].alone = Quiet
        /\ \A d \in Calls : d # c => call'[d].alone = FALSE
        /\ Quiet => requests = {} /\ \A d \in Calls : d # c => ~Busy(d)'
        BY <2>1, BegunCalls
  <2>3. /\ op \in {"stop", "iterate"} => ~active' /\ kind = "stop"
        /\ requests' = requests \cup
             {[of |-> c, kind |-> kind, files |-> sent, state |-> "sent"]}
        BY <2>1 DEF Begun, Starting
  <2> SUFFICES ASSUME Quiet
               PROVE  /\ \A d \in Calls : d # c => ~Busy(d)'
                      /\ op \in {"stop", "iterate"} => ~active'
                      /\ op = "stop" => \A r \in requests' : Own(c, r)'
      BY <2>2 DEF Lone
  <2> QED BY <2>2, <2>3
<1>2. ASSUME NEW c \in Calls, Edits(c) PROVE Lone'
      BY <1>2, EditsFact DEF Lone, Busy
<1>3. ASSUME NEW c \in Calls, NEW r \in requests, r.of = c, call' = [call EXCEPT ![c] = NoCall]
      PROVE  Lone'
  <2>1. Busy(c)
        BY <1>3, PreviewAssumption DEF Fits
  <2>2. \A d \in Calls : Busy(d)' /\ call'[d].alone => FALSE
        BY <1>3, <2>1, Ended DEF Lone
  <2> QED BY <2>2 DEF Lone
<1>4. ASSUME NEW c \in Calls, StopReturns(c) PROVE Lone'
  <2>1. PICK r \in requests : Stopped(c, r)
        BY <1>4, StopReturnsFact
  <2>2. CASE call[c].op \in {"stop", "iterate"}
        BY <1>3, <2>1, <2>2 DEF Stopped
  <2>3. CASE call[c].op \in {"update", "checkout"}
    <3>1. UNCHANGED <<call, active>> /\ Busy(c)
          BY <2>1, <2>3 DEF Stopped, Busy
    <3>2. \A d \in Calls : Busy(d) /\ call[d].alone => d = c
          BY <3>1 DEF Lone
    <3> QED BY <2>3, <3>1, <3>2 DEF Lone, Busy
  <2> QED BY <2>1, <2>2, <2>3 DEF Stopped
<1>5. ASSUME NEW c \in Calls, StartReturns(c) PROVE Lone'
      BY <1>3, <1>5, StartReturnsFact DEF Returned
<1>6. ASSUME NEW c \in Calls, Lose(c) \/ TimeOut(c) PROVE Lone'
  <2>1. PICK r \in requests : Lost(c, r)
        BY <1>6, LostFact
  <2> DEFINE lost == [r EXCEPT !.state = "lost"]
             late == [r EXCEPT !.of = None]
  <2>2. /\ lost.of = c /\ lost.kind = r.kind /\ lost.state = "lost"
        /\ late.of = None /\ late.kind = r.kind
        BY <1>0, <2>1, RequestFact DEF Answers, Lost
  <2>3. /\ UNCHANGED <<call, active, served>> /\ r.of = c /\ Busy(c) /\ c # None
        /\ \/ requests' = (requests \ {r}) \cup {lost}
           \/ requests' = (requests \ {r}) \cup {late, lost}
        BY <2>1, PreviewAssumption DEF Lost, app, Fits
  <2> HIDE DEF lost, late
  <2>4. \A d \in Calls : Busy(d) /\ call[d].alone => d = c
        BY <2>3 DEF Lone
  <2>5. ASSUME call[c].alone, call[c].op = "stop" PROVE \A q \in requests' : Own(c, q)'
    <3>1. \A q \in requests : q.kind = "stop" /\ (q.of = c => q = r)
          BY <2>3, <2>5 DEF Lone, Fits
    <3> QED BY <2>2, <2>3, <3>1
  <2>6. /\ \A d \in Calls : Busy(d)' <=> Busy(d)
        /\ Lone
        BY <2>3 DEF Busy
  <2> QED BY <2>3, <2>4, <2>5, <2>6 DEF Lone
<1>7. ASSUME NEW r \in requests, Works(r) PROVE Lone'
  <2>1. PICK state \in {"registered", "ok", "failed", "error"} : Worked(r, state)
        BY <1>7, WorksFact
  <2> DEFINE new == [r EXCEPT !.state = state]
  <2>2. /\ new.of = r.of /\ new.kind = r.kind /\ new.state = state
        BY <1>0, RequestFact DEF Answers
  <2>3. /\ UNCHANGED <<call, active>>
        /\ \/ requests' = (requests \ {r}) \cup {new}
           \/ r.of = None /\ requests' = requests \ {r}
        /\ r.kind = "stop" => served' = None
        /\ r.state # "lost"
        BY <2>1 DEF Worked, app
  <2> HIDE DEF new
  <2>4. ASSUME NEW d \in Calls, Busy(d), call[d].alone, call[d].op = "stop"
        PROVE  \A q \in requests' : Own(d, q)'
    <3>1. \A q \in requests : q.kind = "stop"
          BY <2>4 DEF Lone
    <3>2. served' = None
          BY <2>3, <3>1
    <3>3. \A q \in requests : q.of # d => \E s \in requests' : s.of = d /\ s.state = "lost"
      <4> SUFFICES ASSUME NEW q \in requests, q.of # d
                   PROVE  \E s \in requests' : s.of = d /\ s.state = "lost"
          OBVIOUS
      <4>1. PICK s \in requests : s.of = d /\ s.state = "lost"
            BY <2>4 DEF Lone
      <4> QED BY <2>3, <4>1
    <3> QED BY <2>2, <2>3, <3>1, <3>2, <3>3
  <2> QED BY <2>3, <2>4 DEF Lone, Busy
<1>8. CASE RunEnds \/ Restore \/ UNCHANGED vars
      BY <1>8 DEF RunEnds, Restore, vars, app, Lone, Busy
<1>9. CASE ServiceRestarts
  <2> DEFINE new(r) == IF r.state \in Answers THEN r ELSE [r EXCEPT !.state = "lost"]
  <2>1. \A r \in requests : /\ new(r).of = r.of /\ new(r).kind = r.kind
                            /\ r.state = "lost" => new(r).state = "lost"
        BY <1>0, RequestFact DEF Answers
  <2>2. /\ requests' = {new(r) : r \in requests \ Late}
        /\ UNCHANGED <<call, active>> /\ served' = None
        BY <1>9 DEF ServiceRestarts, app
  <2> HIDE DEF new
  <2>3. \A q \in requests' : \E r \in requests : q = new(r) /\ r.of # None
        BY <2>2 DEF Late
  <2>4. \A r \in requests : r.of # None => new(r) \in requests'
        BY <2>2 DEF Late
  <2>5. ASSUME NEW d \in Calls, Busy(d), call[d].alone, call[d].op = "stop"
        PROVE  \A q \in requests' : Own(d, q)'
    <3>1. \A r \in requests : r.kind = "stop"
          BY <2>5 DEF Lone
    <3>2. \A r \in requests : r.of # None => r.of = d
          BY <1>0, <2>5 DEF Fits, Lone, Request
    <3> QED BY <2>1, <2>2, <2>3, <3>1, <3>2
  <2> QED BY <2>2, <2>5 DEF Lone, Busy
<1>10. CASE AppRestarts
  <2>1. NoCall.op = "none"
        BY DEF NoCall
  <2>2. \A c \in Calls : call'[c] = NoCall
        BY <1>10 DEF AppRestarts
  <2> QED BY <2>1, <2>2 DEF Lone, Busy
<1> QED BY <1>1, <1>2, <1>4, <1>5, <1>6, <1>7, <1>8, <1>9, <1>10, Steps

LEMMA ApartStep == TypeOK /\ Fits /\ Lone /\ Apart /\ [Next]_vars => Apart'
<1> SUFFICES ASSUME TypeOK, Fits, Lone, Apart, [Next]_vars PROVE Apart'
    OBVIOUS
<1>1. ASSUME NEW c \in Calls, Begins(c) PROVE Apart'
  <2>1. PICK op \in Ops, fs \in Files \cup {None}, kind \in {"start", "stop"},
             sent \in Files \cup {None} : Begun(c, op, fs, kind, sent)
        BY <1>1, BeginsFact
  <2>2. overlapped' = (overlapped \/ ~Quiet)
        BY <2>1 DEF Begun
  <2>3. Quiet => call'[c].alone /\ \A d \in Calls : d # c => ~Busy(d)'
        BY <2>1, BegunCalls
  <2> QED BY <2>2, <2>3 DEF Apart
<1>2. ASSUME NEW c \in Calls, Edits(c) PROVE Apart'
      BY <1>2, EditsFact DEF Apart, Busy
<1>3. ASSUME NEW c \in Calls, StopReturns(c) PROVE Apart'
  <2>1. PICK r \in requests : Stopped(c, r)
        BY <1>3, StopReturnsFact
  <2>2. ASSUME Heals(c, r) PROVE Apart'
    <3>1. call[c].op = "stop" /\ call[c].alone /\ Busy(c)
          BY <2>2 DEF Heals, Busy
    <3>2. call' = [call EXCEPT ![c] = NoCall]
          BY <2>1, <3>1 DEF Stopped
    <3>3. \A d \in Calls : ~Busy(d)'
          BY <3>1, <3>2, Ended DEF Lone
    <3> QED BY <3>3 DEF Apart
  <2>3. ASSUME ~Heals(c, r) PROVE Apart'
    <3>1. overlapped' = overlapped
          BY <2>1, <2>3 DEF Stopped, TypeOK
    <3>2. CASE call' = call
          BY <3>1, <3>2 DEF Apart, Busy
    <3>3. CASE call' = [call EXCEPT ![c] = NoCall]
          BY <3>1, <3>3, Ended DEF Apart
    <3> QED BY <2>1, <3>2, <3>3 DEF Stopped
  <2> QED BY <2>2, <2>3
<1>4. ASSUME NEW c \in Calls, StartReturns(c) PROVE Apart'
  <2>1. call' = [call EXCEPT ![c] = NoCall] /\ overlapped' = overlapped
        BY <1>4, StartReturnsFact DEF Returned
  <2> QED BY <2>1, Ended DEF Apart
<1>5. ASSUME NEW c \in Calls, Lose(c) \/ TimeOut(c) PROVE Apart'
      BY <1>5, LostFact DEF Lost, app, Apart, Busy
<1>6. ASSUME NEW r \in requests, Works(r) PROVE Apart'
      BY <1>6, WorksFact DEF Worked, app, Apart, Busy
<1>7. CASE RunEnds \/ Restore \/ ServiceRestarts \/ UNCHANGED vars
      BY <1>7 DEF RunEnds, Restore, ServiceRestarts, vars, app, Apart, Busy
<1>8. CASE AppRestarts
  <2>1. NoCall.op = "none"
        BY DEF NoCall
  <2>2. \A c \in Calls : call'[c] = NoCall
        BY <1>8 DEF AppRestarts
  <2> QED BY <2>1, <2>2 DEF Apart, Busy
<1> QED BY <1>1, <1>2, <1>3, <1>4, <1>5, <1>6, <1>7, <1>8, Steps

---------------------------------------------------------------------------
(* What the page shows *)

LEMMA CurrentStep ==
    TypeOK /\ Fits /\ Lone /\ Apart /\ Current /\ [Next]_vars => Current'
<1> SUFFICES ASSUME TypeOK, Fits, Lone, Apart, Current, [Next]_vars,
                    ~overlapped', Showing'
             PROVE  /\ status' = "done"
                    /\ \A r \in requests' : r.kind = "start" => r.files = files'
                    /\ \A c \in Calls : call'[c].op = "update" => call'[c].files = files'
                    /\ active' \/ (\E r \in requests' : /\ r.kind = "start"
                                                        /\ r.state \in {"registered", "ok"})
                         => served' \in {None, files'}
    BY DEF Current
<1> DEFINE Goal ==
      /\ status' = "done"
      /\ \A r \in requests' : r.kind = "start" => r.files = files'
      /\ \A c \in Calls : call'[c].op = "update" => call'[c].files = files'
      /\ active' \/ (\E r \in requests' : /\ r.kind = "start"
                                          /\ r.state \in {"registered", "ok"})
           => served' \in {None, files'}
<1>0. \A r \in requests : r \in Request
      BY DEF TypeOK
<1>00. Showing /\ ~overlapped =>
         /\ status = "done"
         /\ \A r \in requests : r.kind = "start" => r.files = files
         /\ \A c \in Calls : call[c].op = "update" => call[c].files = files
         /\ active \/ (\E r \in requests : /\ r.kind = "start"
                                           /\ r.state \in {"registered", "ok"})
              => served \in {None, files}
      BY DEF Current
<1>1. ASSUME NEW c \in Calls, Begins(c) PROVE Goal
  <2>1. PICK op \in Ops, fs \in Files \cup {None}, kind \in {"start", "stop"},
             sent \in Files \cup {None} : Begun(c, op, fs, kind, sent)
        BY <1>1, BeginsFact
  <2> DEFINE new == [of |-> c, kind |-> kind, files |-> sent, state |-> "sent"]
  <2>2. /\ ~overlapped /\ Quiet
        /\ new.kind = kind /\ new.files = sent /\ new.state = "sent"
        BY <2>1 DEF Begun, TypeOK
  <2>3. requests' = {new}
        BY <2>1, <2>2, BegunCalls DEF Begun
  <2> HIDE DEF new
  <2>4. /\ call'[c].op = op /\ call'[c].files = fs
        /\ \A d \in Calls : d # c => call'[d].op = "none"
        BY <2>1, <2>2, BegunCalls
  <2>5. CASE /\ op = "start" /\ kind = "start" /\ sent = files /\ files' = files
             /\ status = "done" /\ active' = active
    <3>1. active => served \in {None, files}
          BY <1>00, <2>2 DEF Showing
    <3> QED BY <2>1, <2>2, <2>3, <2>4, <2>5, <3>1 DEF Begun
  <2>6. CASE op # "start" /\ kind = "stop" /\ active' = FALSE /\ (op \in Starting => active)
    <3>1. op \in Starting
          BY <2>4, <2>6 DEF Showing, Starting
    <3>2. status = "done"
          BY <1>00, <2>2, <2>6, <3>1 DEF Showing
    <3>3. op = "update" => fs = files'
          BY <2>1 DEF Begun
    <3> QED BY <2>1, <2>2, <2>3, <2>4, <2>6, <3>2, <3>3 DEF Begun
  <2> QED BY <2>1, <2>5, <2>6 DEF Begun
<1>2. ASSUME NEW c \in Calls, Edits(c) PROVE Goal
  <2>1. Quiet /\ ~active' /\ call' = call
        BY <1>2, EditsFact DEF TypeOK
  <2>2. NoCall.op = "none"
        BY DEF NoCall
  <2> QED BY <2>1, <2>2 DEF Showing, Quiet, Idle, Starting
<1>3. ASSUME NEW c \in Calls, StopReturns(c) PROVE Goal
  <2>1. PICK r \in requests : Stopped(c, r)
        BY <1>3, StopReturnsFact
  <2>2. UNCHANGED <<files, active, served>>
        BY <2>1 DEF Stopped
  <2>3. CASE call[c].op \in {"stop", "iterate"}
    <3>1. call' = [call EXCEPT ![c] = NoCall] /\ Busy(c)
          BY <2>1, <2>3 DEF Stopped, Busy
    <3>2. call[c].alone
          BY <2>1, <3>1 DEF Stopped, Apart, Heals, TypeOK
    <3>3. ~active /\ \A d \in Calls : d # c => call[d].op = "none"
          BY <2>3, <3>1, <3>2 DEF Lone, Busy
    <3>4. \A d \in Calls : call'[d].op = "none"
          BY <3>1, <3>3, Ended
    <3> QED BY <2>2, <3>3, <3>4 DEF Showing, Starting
  <2>4. CASE call[c].op \in {"update", "checkout"}
    <3>1. PICK fs \in Files :
            /\ requests' = (requests \ {r}) \cup
                             {[of |-> c, kind |-> "start", files |-> fs, state |-> "sent"]}
            /\ fs = IF call[c].op = "update" THEN call[c].files ELSE files
          BY <2>1, <2>4 DEF Stopped
    <3> DEFINE new == [of |-> c, kind |-> "start", files |-> fs, state |-> "sent"]
    <3>2. /\ new.files = fs /\ new.state = "sent"
          /\ requests' = (requests \ {r}) \cup {new}
          BY <3>1
    <3> HIDE DEF new
    <3>3. UNCHANGED <<status, call>> /\ ~overlapped
          BY <2>1, <2>4 DEF Stopped, Heals, TypeOK
    <3>4. Showing
          BY <2>4 DEF Showing, Starting
    <3>5. fs = files
          BY <1>00, <3>1, <3>3, <3>4
    <3> QED BY <1>00, <2>2, <3>2, <3>3, <3>4, <3>5
  <2> QED BY <2>1, <2>3, <2>4 DEF Stopped
<1>4. ASSUME NEW c \in Calls, StartReturns(c) PROVE Goal
  <2>1. PICK r \in requests : Returned(c, r)
        BY <1>4, StartReturnsFact
  <2>2. ~overlapped /\ Showing
        BY <2>1 DEF Returned, Showing
  <2>3. /\ call' = [call EXCEPT ![c] = NoCall]
        /\ r.kind = "start"
        /\ requests' = requests \ {r} /\ (active' <=> (active \/ r.state = "ok"))
        /\ UNCHANGED <<status, files, served>>
        BY <2>1 DEF Returned
  <2>4. \A d \in Calls : call'[d].op = "update" => call'[d] = call[d]
        BY <2>3, Ended
  <2> QED BY <1>00, <2>2, <2>3, <2>4
<1>5. ASSUME NEW c \in Calls, Lose(c) \/ TimeOut(c) PROVE Goal
  <2>1. PICK r \in requests : Lost(c, r)
        BY <1>5, LostFact
  <2> DEFINE lost == [r EXCEPT !.state = "lost"]
             late == [r EXCEPT !.of = None]
  <2>2. /\ lost.kind = r.kind /\ lost.files = r.files /\ lost.state = "lost"
        /\ late.kind = r.kind /\ late.files = r.files /\ late.state = r.state
        BY <1>0, RequestFact DEF Answers
  <2>3. /\ UNCHANGED <<status, files, active, call, served, overlapped>>
        /\ \/ requests' = (requests \ {r}) \cup {lost}
           \/ requests' = (requests \ {r}) \cup {late, lost}
        BY <2>1 DEF Lost, app
  <2> HIDE DEF lost, late
  <2>4. ~overlapped /\ Showing
        BY <2>3 DEF Showing
  <2> QED BY <1>00, <2>2, <2>3, <2>4
<1>6. ASSUME NEW r \in requests, Works(r) PROVE Goal
  <2>1. PICK state \in {"registered", "ok", "failed", "error"} : Worked(r, state)
        BY <1>6, WorksFact
  <2> DEFINE new == [r EXCEPT !.state = state]
  <2>2. /\ new.kind = r.kind /\ new.files = r.files /\ new.state = state
        BY <1>0, RequestFact DEF Answers
  <2>3. /\ UNCHANGED <<status, files, active, call, overlapped>>
        /\ \/ requests' = (requests \ {r}) \cup {new}
           \/ requests' = requests \ {r}
        BY <2>1 DEF Worked, app
  <2>4. \/ r.kind = "stop" /\ served' = None
        \/ r.kind = "start" /\ served' = r.files
        \/ served' = None
        \/ state \in {"failed", "error"} /\ UNCHANGED served
        \/ r.kind = "start" /\ r.state = "registered" /\ UNCHANGED served
        BY <2>1 DEF Worked
  <2> HIDE DEF new
  <2>5. ~overlapped /\ Showing
        BY <2>3 DEF Showing
  <2>6. /\ status' = "done"
        /\ \A q \in requests' : q.kind = "start" => q.files = files'
        /\ \A c \in Calls : call'[c].op = "update" => call'[c].files = files'
        BY <1>00, <2>2, <2>3, <2>5
  <2>7. ASSUME active' \/ (\E q \in requests' : /\ q.kind = "start"
                                                /\ q.state \in {"registered", "ok"})
        PROVE  served' \in {None, files'}
        BY <1>00, <2>2, <2>3, <2>4, <2>5, <2>7
  <2> QED BY <2>6, <2>7
<1>7. CASE RunEnds \/ Restore \/ UNCHANGED vars
  <2>1. ~overlapped /\ Showing
        BY <1>7 DEF RunEnds, Restore, vars, app, Showing
  <2> QED BY <1>00, <1>7, <2>1 DEF RunEnds, Restore, vars, app
<1>8. CASE ServiceRestarts
  <2> DEFINE new(r) == IF r.state \in Answers THEN r ELSE [r EXCEPT !.state = "lost"]
  <2>1. \A r \in requests : new(r).kind = r.kind /\ new(r).files = r.files
        BY <1>0, RequestFact DEF Answers
  <2>2. /\ requests' = {new(r) : r \in requests \ Late}
        /\ UNCHANGED <<status, files, active, call, overlapped>> /\ served' = None
        BY <1>8 DEF ServiceRestarts, app
  <2> HIDE DEF new
  <2>3. ~overlapped /\ Showing
        BY <2>2 DEF Showing
  <2>4. \A q \in requests' : \E r \in requests : q.kind = r.kind /\ q.files = r.files
        BY <2>1, <2>2
  <2> QED BY <1>00, <2>2, <2>3, <2>4
<1>9. CASE AppRestarts
  <2>1. NoCall.op = "none"
        BY DEF NoCall
  <2>2. /\ ~active' /\ \A c \in Calls : call'[c] = NoCall
        BY <1>9 DEF AppRestarts
  <2> QED BY <2>1, <2>2 DEF Showing, Starting
<1> QED BY <1>1, <1>2, <1>3, <1>4, <1>5, <1>6, <1>7, <1>8, <1>9, Steps

---------------------------------------------------------------------------
(* What the two sides know *)

\* As long as the record is to be trusted there is one request at most.
LEMMA OneRequest ==
    ASSUME TypeOK, Fits, Lone, Trusted, trusted
    PROVE  \A p, q \in requests : p = q
<1> SUFFICES ASSUME NEW p \in requests, NEW q \in requests PROVE p = q
    OBVIOUS
<1>1. /\ p.of \in Calls /\ q.of \in Calls /\ p.of # None
      BY DEF Trusted, TypeOK, Request
<1>2. Busy(p.of) /\ Busy(q.of) /\ call[p.of].alone
      BY <1>1, PreviewAssumption DEF Fits, Trusted
<1>3. p.of = q.of
      BY <1>1, <1>2 DEF Lone
<1> QED BY <1>1, <1>3 DEF Fits

LEMMA TrustedStep ==
    TypeOK /\ Fits /\ Lone /\ Trusted /\ [Next]_vars => Trusted'
<1> SUFFICES ASSUME TypeOK, Fits, Lone, Trusted, [Next]_vars, trusted'
             PROVE  /\ \A c \in Calls : Busy(c)' => call'[c].alone
                    /\ \A r \in requests' :
                         /\ r.of # None /\ r.state # "lost" /\ ~active'
                         /\ r.kind = "stop" /\ r.state = "ok" => served' = None
                         /\ r.kind = "start" =>
                              (served' # None <=> r.state \in {"registered", "ok"})
                    /\ requests' = {} => (active' <=> served' # None)
    BY DEF Trusted
<1> DEFINE Goal ==
      /\ \A c \in Calls : Busy(c)' => call'[c].alone
      /\ \A r \in requests' :
           /\ r.of # None /\ r.state # "lost" /\ ~active'
           /\ r.kind = "stop" /\ r.state = "ok" => served' = None
           /\ r.kind = "start" => (served' # None <=> r.state \in {"registered", "ok"})
      /\ requests' = {} => (active' <=> served' # None)
<1>0. \A r \in requests : r \in Request
      BY DEF TypeOK
<1>00. trusted =>
         /\ \A c \in Calls : Busy(c) => call[c].alone
         /\ \A r \in requests :
              /\ r.of # None /\ r.state # "lost" /\ ~active
              /\ r.kind = "stop" /\ r.state = "ok" => served = None
              /\ r.kind = "start" => (served # None <=> r.state \in {"registered", "ok"})
         /\ requests = {} => (active <=> served # None)
      BY DEF Trusted
<1>1. ASSUME NEW c \in Calls, Begins(c) PROVE Goal
  <2>1. PICK op \in Ops, fs \in Files \cup {None}, kind \in {"start", "stop"},
             sent \in Files \cup {None} : Begun(c, op, fs, kind, sent)
        BY <1>1, BeginsFact
  <2> DEFINE new == [of |-> c, kind |-> kind, files |-> sent, state |-> "sent"]
  <2>2. /\ new.of = c /\ new.kind = kind /\ new.state = "sent" /\ c # None
        BY PreviewAssumption
  <2>3. trusted /\ Quiet /\ ~active' /\ served' = served /\ (kind = "start" => ~active)
    <3>1. CASE kind = "start" /\ active' = active /\ trusted' = (trusted /\ Quiet /\ ~active)
          BY <2>1, <3>1 DEF Begun
    <3>2. CASE kind = "stop" /\ active' = FALSE /\ trusted' = (trusted /\ Quiet)
          BY <2>1, <3>2 DEF Begun
    <3> QED BY <2>1, <3>1, <3>2 DEF Begun
  <2>4. requests' = {new} /\ requests = {}
        BY <2>1, <2>3, BegunCalls DEF Begun
  <2> HIDE DEF new
  <2>5. \A d \in Calls : Busy(d)' => call'[d].alone
        BY <2>1, <2>3, BegunCalls
  <2>6. kind = "start" => served = None
        BY <1>00, <2>3, <2>4
  <2> QED BY <2>2, <2>3, <2>4, <2>5, <2>6
<1>2. ASSUME NEW c \in Calls, Edits(c) PROVE Goal
      BY <1>00, <1>2, EditsFact DEF Busy
<1>3. ASSUME NEW c \in Calls, StopReturns(c) PROVE Goal
  <2>1. PICK r \in requests : Stopped(c, r)
        BY <1>3, StopReturnsFact
  <2>2. UNCHANGED <<active, served>> /\ r.of = c /\ r.kind = "stop" /\ Busy(c) /\ c # None
        BY <2>1, PreviewAssumption DEF Stopped, Busy
  <2>3. CASE Heals(c, r)
    <3>1. call[c].op = "stop" /\ call[c].alone /\ r.state = "ok"
          BY <2>3 DEF Heals
    <3>2. ~active /\ served = None
          BY <2>2, <3>1 DEF Lone
    <3>3. \A q \in requests : q = r
      <4> SUFFICES ASSUME NEW q \in requests PROVE q.of = c
          BY <2>2 DEF Fits
      <4>1. q.of # c => \E s \in requests : s.of = c /\ s.state = "lost"
            BY <2>2, <3>1 DEF Lone
      <4>2. \A s \in requests : s.of = c => s = r
            BY <2>2 DEF Fits
      <4> QED BY <3>1, <4>1, <4>2
    <3>4. call' = [call EXCEPT ![c] = NoCall] /\ requests' = requests \ {r}
          BY <2>1, <3>1 DEF Stopped
    <3>5. \A d \in Calls : ~Busy(d)'
          BY <2>2, <3>1, <3>4, Ended DEF Lone
    <3>6. requests' = {}
          BY <3>3, <3>4
    <3> QED BY <2>2, <3>2, <3>5, <3>6
  <2>4. CASE ~Heals(c, r)
    <3>1. trusted
          BY <2>1, <2>4 DEF Stopped
    <3>2. requests = {r} /\ ~active /\ r.state # "lost" /\ call[c].alone
          BY <1>00, <2>2, <3>1, OneRequest
    <3>3. served = None
          BY <1>00, <2>1, <2>2, <3>1, <3>2 DEF Stopped
    <3>4. \A d \in Calls : Busy(d) => d = c
          BY <2>2, <3>2 DEF Lone
    <3>5. CASE call[c].op \in {"stop", "iterate"}
      <4>1. call' = [call EXCEPT ![c] = NoCall] /\ requests' = {}
            BY <2>1, <3>2, <3>5 DEF Stopped
      <4>2. \A d \in Calls : ~Busy(d)'
            BY <3>4, <4>1, Ended
      <4> QED BY <2>2, <3>2, <3>3, <4>1, <4>2
    <3>6. CASE call[c].op \in {"update", "checkout"}
      <4>1. PICK fs \in Files :
              requests' = {[of |-> c, kind |-> "start", files |-> fs, state |-> "sent"]}
            BY <2>1, <3>2, <3>6 DEF Stopped
      <4>2. call' = call
            BY <2>1, <3>6 DEF Stopped
      <4> QED BY <1>00, <2>2, <3>1, <3>2, <3>3, <4>1, <4>2 DEF Busy
    <3> QED BY <2>1, <3>5, <3>6 DEF Stopped
  <2> QED BY <2>3, <2>4
<1>4. ASSUME NEW c \in Calls, StartReturns(c) PROVE Goal
  <2>1. PICK r \in requests : Returned(c, r)
        BY <1>4, StartReturnsFact
  <2>2. /\ call' = [call EXCEPT ![c] = NoCall]
        /\ r.kind = "start" /\ r.state \in {"ok", "failed", "error", "lost"} /\ r.of = c
        /\ requests' = requests \ {r} /\ (active' <=> (active \/ r.state = "ok"))
        /\ served' = served /\ trusted
        BY <2>1 DEF Returned, Answers
  <2>3. requests = {r} /\ ~active /\ (served # None <=> r.state \in {"registered", "ok"})
        BY <1>00, <2>2, OneRequest
  <2>4. requests' = {} /\ (active' <=> served' # None)
        BY <2>2, <2>3
  <2>5. \A d \in Calls : Busy(d)' => call'[d] = call[d] /\ Busy(d)
        BY <2>2, Ended
  <2> QED BY <1>00, <2>2, <2>4, <2>5
<1>5. ASSUME NEW c \in Calls, Lose(c) \/ TimeOut(c) PROVE Goal
      BY <1>5, LostFact DEF Lost
<1>6. ASSUME NEW r \in requests, Works(r) PROVE Goal
  <2>1. PICK state \in {"registered", "ok", "failed", "error"} : Worked(r, state)
        BY <1>6, WorksFact
  <2> DEFINE new == [r EXCEPT !.state = state]
  <2>2. /\ new.kind = r.kind /\ new.of = r.of /\ new.state = state
        BY <1>0, RequestFact DEF Answers
  <2>3. /\ UNCHANGED <<active, call>> /\ trusted
        /\ \/ requests' = (requests \ {r}) \cup {new}
           \/ r.of = None
        BY <2>1 DEF Worked, app
  <2> HIDE DEF new
  <2>4. /\ r.of # None /\ ~active
        /\ r.kind = "start" => (served # None <=> r.state \in {"registered", "ok"})
        BY <1>00, <2>3
  <2>5. requests' = {new}
        BY <2>3, <2>4, OneRequest
  <2>6. r.kind = "start" => r.files # None
        BY DEF Fits
  <2>7. /\ r.kind = "stop" /\ state = "ok" => served' = None
        /\ r.kind = "start" => (served' # None <=> state \in {"registered", "ok"})
        BY <2>1, <2>4, <2>6 DEF Worked
  <2> QED BY <1>00, <2>2, <2>3, <2>4, <2>5, <2>7 DEF Busy
<1>7. CASE RunEnds \/ Restore \/ UNCHANGED vars
  <2>1. UNCHANGED <<active, call, requests, served, trusted>>
        BY <1>7 DEF RunEnds, Restore, vars, app
  <2> QED BY <1>00, <2>1 DEF Busy
<1>8. CASE ServiceRestarts \/ AppRestarts
      BY <1>8 DEF ServiceRestarts, AppRestarts
<1> QED BY <1>1, <1>2, <1>3, <1>4, <1>5, <1>6, <1>7, <1>8, Steps

---------------------------------------------------------------------------
(* The theorems *)

LEMMA Initially == Init => IInv
<1> SUFFICES ASSUME Init PROVE IInv
    OBVIOUS
<1>1. /\ requests = {} /\ active = FALSE /\ served = None
      /\ overlapped = FALSE /\ trusted = TRUE /\ status = "running" /\ files \in Files
      /\ call = [c \in Calls |-> NoCall]
      BY DEF Init
<1>2. NoCall \in Call /\ NoCall.op = "none"
      BY DEF NoCall, Call
<1>3. \A c \in Calls : call[c] = NoCall /\ ~Busy(c) /\ call[c].op = "none"
      BY <1>1, <1>2 DEF Busy
<1>4. TypeOK
      BY <1>1, <1>2 DEF TypeOK
<1>5. Fits /\ Lone /\ Apart
      BY <1>1, <1>3 DEF Fits, Lone, Apart, Idle
<1>6. Current /\ Trusted
      BY <1>1, <1>3 DEF Current, Trusted, Showing, Starting
<1> QED BY <1>4, <1>5, <1>6 DEF IInv

LEMMA Invariance == Spec => []IInv
<1>1. IInv /\ [Next]_vars => IInv'
      BY TypeStep, FitsStep, LoneStep, ApartStep, CurrentStep, TrustedStep DEF IInv
<1> QED BY Initially, <1>1, PTL DEF Spec

\* The variables keep their types: requests and handlers are what the gateway
\* and the service make of them (gateway.py:82-128, app.py:81-139).
THEOREM TypeCorrect == Spec => []TypeOK
<1>1. IInv => TypeOK
      BY DEF IInv
<1> QED BY <1>1, Invariance, PTL

\* For any number of handlers, faults and late requests: a page that is shown
\* is made from the session's files and never during a run, unless calls
\* overlapped (main.py:513-520, 545, 617-623).
THEOREM ShownIsCurrent == Spec => []PageIsCurrent
<1>1. IInv => PageIsCurrent
      BY DEF IInv, PageIsCurrent, Current, Shows, Showing
<1> QED BY <1>1, Invariance, PTL

\* For any number of handlers: with nothing in progress and nothing gone wrong
\* since the last lone stop, the gateway's record and the service agree
\* (gateway.py:104 and 114).
THEOREM SidesAgree == Spec => []GatewayAgrees
<1>1. IInv => GatewayAgrees
      BY DEF IInv, GatewayAgrees, Trusted, Quiet
<1> QED BY <1>1, Invariance, PTL
=============================================================================
