------------------------ MODULE PreviewServerProofs ------------------------
(***************************************************************************)
(* Proofs about PreviewServer, for any number of sessions, calls, ports    *)
(* and directories: what holds however starts, stops and failures          *)
(* interleave, and what holds when the calls for a session do not overlap. *)
(***************************************************************************)
EXTENDS PreviewServer, TLAPS

\* The directories and processes a session's registration names.
Names(s) == {reg[s].pid, reg[s].dir, reg[s].root} \ {0}

\* A call that has its directory's name, and has not registered it yet.
Unregistered(c) == call[c].pc \in {"building", "spawning"}

\* A name belongs to one session or to one call, and was handed out.
NamesKnown == \A s \in Sessions : \A k \in Names(s) : k <= made
NamesDisjoint == \A s, t \in Sessions : s # t => Names(s) \cap Names(t) = {}
CallsNamed ==
    \A c \in Calls : InFlight(c) => /\ call[c].session \in Sessions
                                    /\ call[c].dir \in 1..made
CallsFresh ==
    \A c \in Calls : Unregistered(c) => \A s \in Sessions : call[c].dir \notin Names(s)
CallsDistinct ==
    \A c, d \in Calls : Unregistered(c) /\ Unregistered(d) /\ c # d
                            => call[c].dir # call[d].dir

Owned == NamesKnown /\ NamesDisjoint /\ CallsNamed /\ CallsFresh /\ CallsDistinct

IInv == TypeOK /\ Owned /\ PortsDistinct /\ ServedDirExists

---------------------------------------------------------------------------
(* Facts about the operators *)

\* allocate_port yields a port no other session holds.
LEMMA AllocatableFact ==
    ASSUME NEW s \in Sessions, NEW port \in Ports \cup {0},
           NEW p \in Allocatable(s, port)
    PROVE  /\ p \in Ports \cup {0} /\ p # 0
           /\ port # 0 => p = port
           /\ port = 0 => \A t \in Sessions \ {s} : reg[t].port # p
<1>1. CASE port # 0
      BY <1>1 DEF Allocatable
<1>2. CASE port = 0
  <2>1. p \in Free(s)
        BY <1>2 DEF Allocatable
  <2> QED BY <2>1, <1>2, PreviewAssumption DEF Free, Ports
<1> QED BY <1>1, <1>2

\* SIGTERM changes the state of processes only.
LEMMA TerminateFact ==
    ASSUME TypeOK, NEW ks, Terminate(ks)
    PROVE  /\ proc' \in [Dirs -> Process]
           /\ \A k \in Dirs : proc'[k].port = proc[k].port
BY DEF TypeOK, Terminate, Process

---------------------------------------------------------------------------
(* The invariant, however calls interleave *)

\* Nothing is registered at first.
LEMMA InitInv == Init => IInv
<1> SUFFICES ASSUME Init PROVE IInv
    OBVIOUS
<1>1. TypeOK
      BY PreviewAssumption
         DEF Init, TypeOK, NoPreview, NoCall, Registration, CallState, Process, Dirs, Ports
<1>2. Owned
      BY DEF Init, Owned, NamesKnown, NamesDisjoint, CallsNamed, CallsFresh,
             CallsDistinct, Names, InFlight, Unregistered, NoPreview, NoCall
<1>3. PortsDistinct /\ ServedDirExists
      BY DEF Init, PortsDistinct, ServedDirExists, NoPreview
<1> QED BY <1>1, <1>2, <1>3 DEF IInv

\* A session's registration is replaced: by old names and one fresh name k (0
\* for none), and by a port nobody else holds.
LEMMA RegisterKeeps ==
    ASSUME IInv, NEW s \in Sessions, NEW r \in Registration, NEW k \in Nat,
           reg' = [reg EXCEPT ![s] = r],
           made' \in Nat, made <= made', k <= made',
           {r.pid, r.dir, r.root} \ {0} \subseteq Names(s) \cup {k},
           \A t \in Sessions : k \notin Names(t),
           \/ r.port = 0 \/ r.port = reg[s].port
           \/ \A t \in Sessions \ {s} : reg[t].port # r.port
    PROVE  /\ NamesKnown' /\ NamesDisjoint' /\ PortsDistinct'
           /\ \A t \in Sessions : Names(t)' \subseteq Names(t) \cup {k}
<1>1. reg' \in [Sessions -> Registration] /\ reg'[s] = r
      BY DEF IInv, TypeOK
<1>2. ASSUME NEW t \in Sessions, t # s PROVE reg'[t] = reg[t] /\ Names(t)' = Names(t)
      BY <1>2 DEF IInv, TypeOK, Names
<1>3. Names(s)' \subseteq Names(s) \cup {k}
      BY <1>1 DEF Names
<1>4. \A t \in Sessions : Names(t)' \subseteq Names(t) \cup {k}
      BY <1>2, <1>3
<1>5. NamesKnown'
  <2> SUFFICES ASSUME NEW t \in Sessions, NEW n \in Names(t)' PROVE n <= made'
      BY DEF NamesKnown
  <2>1. CASE n = k
        BY <2>1
  <2>2. CASE n \in Names(t)
    <3>1. n <= made /\ n \in Nat /\ made \in Nat
          BY <2>2 DEF IInv, Owned, NamesKnown, TypeOK, Names, Registration, Dirs
    <3> QED BY <3>1
  <2> QED BY <2>1, <2>2, <1>4
<1>6. NamesDisjoint'
  <2> SUFFICES ASSUME NEW t \in Sessions, NEW u \in Sessions, t # u
               PROVE  Names(t)' \cap Names(u)' = {}
      BY DEF NamesDisjoint
  <2>1. Names(t) \cap Names(u) = {}
        BY DEF IInv, Owned, NamesDisjoint
  <2> QED BY <2>1, <1>2, <1>3
<1>7. PortsDistinct'
  <2> SUFFICES ASSUME NEW t \in Sessions, NEW u \in Sessions,
                      reg'[t].port # 0, reg'[t].port = reg'[u].port
               PROVE  t = u
      BY DEF PortsDistinct
  <2> QED BY <1>1, <1>2 DEF IInv, PortsDistinct
<1> QED BY <1>4, <1>5, <1>6, <1>7

\* The first step of a start, whatever is left of the old registration.
LEMMA BeginInv ==
    ASSUME IInv, NEW c \in Calls, NEW s \in Sessions,
           NEW old \in Registration, NEW dirs \in SUBSET Dirs,
           old = reg[s] \/ old = NoPreview,
           old.mode # "none" => old.dir \in dirs,
           \A t \in Sessions \ {s} : reg[t].mode # "none" => reg[t].dir \in dirs,
           proc' \in [Dirs -> Process],
           Begin(c, s, old, dirs)
    PROVE  IInv'
<1>1. /\ made \in Nat /\ made' = made + 1 /\ made' \in Dirs
      /\ ~InFlight(c) /\ up' = up
      BY PreviewAssumption DEF IInv, TypeOK, Begin, Dirs
<1>2. {old.pid, old.dir, old.root} \ {0} \subseteq Names(s)
      BY DEF Names, NoPreview
<1>3. \A t \in Sessions : made' \notin Names(t)
      BY <1>1 DEF IInv, Owned, NamesKnown
<1>4. CASE StartStatic(c, s, old, dirs)
  <2> DEFINE r == [old EXCEPT !.dir = made', !.mode = "static"]
  <2>1. /\ r \in Registration /\ r.port = old.port /\ r.dir = made'
        /\ {r.pid, r.dir, r.root} \ {0} \subseteq Names(s) \cup {made'}
        BY <1>1, <1>2 DEF Registration
  <2>2. reg' = [reg EXCEPT ![s] = r] /\ disk' = dirs \cup {made'}
        BY <1>4 DEF StartStatic
  <2>3. r.port = 0 \/ r.port = reg[s].port
        BY <2>1 DEF NoPreview
  <2> HIDE DEF r
  <2>4. /\ NamesKnown' /\ NamesDisjoint' /\ PortsDistinct'
        /\ \A t \in Sessions : Names(t)' \subseteq Names(t) \cup {made'}
    <3>1. made' \in Nat /\ made <= made' /\ made' <= made'
          BY <1>1
    <3> QED BY <1>3, <2>1, <2>2, <2>3, <3>1, RegisterKeeps
  <2>5. /\ call' \in [Calls -> CallState]
        /\ ~InFlight(c)' /\ ~Unregistered(c)'
        /\ \A d \in Calls \ {c} : call'[d] = call[d]
        BY <1>4, <1>1 DEF StartStatic, IInv, TypeOK, NoCall, CallState, InFlight, Unregistered
  <2>6. TypeOK'
        BY <1>1, <2>1, <2>2, <2>5, PreviewAssumption DEF IInv, TypeOK, Dirs
  <2>7. CallsNamed' /\ CallsFresh' /\ CallsDistinct'
        BY <1>1, <2>4, <2>5
           DEF IInv, Owned, CallsNamed, CallsFresh, CallsDistinct, InFlight, Unregistered
  <2>8. ServedDirExists'
        BY <2>1, <2>2 DEF ServedDirExists, IInv, TypeOK
  <2> QED BY <2>4, <2>6, <2>7, <2>8 DEF IInv, Owned
<1>5. ASSUME NEW r \in Registration, NEW n \in CallState,
             r = old \/ \E p \in Ports : r = [old EXCEPT !.port = p],
             \/ r.port = 0 \/ r.port = reg[s].port
             \/ \A t \in Sessions \ {s} : reg[t].port # r.port,
             n.session = s, n.dir = made',
             reg' = [reg EXCEPT ![s] = r],
             call' = [call EXCEPT ![c] = n],
             disk' = dirs
      PROVE  IInv'
  <2>1. r.pid = old.pid /\ r.dir = old.dir /\ r.root = old.root /\ r.mode = old.mode
        BY <1>5 DEF Registration
  <2>2. /\ NamesKnown' /\ NamesDisjoint' /\ PortsDistinct'
        /\ \A t \in Sessions : Names(t)' \subseteq Names(t) \cup {0}
    <3>1. made' \in Nat /\ made <= made' /\ 0 <= made' /\ 0 \in Nat
          BY <1>1
    <3>2. {r.pid, r.dir, r.root} \ {0} \subseteq Names(s) \cup {0}
          BY <1>2, <2>1
    <3>3. \A t \in Sessions : 0 \notin Names(t)
          BY DEF Names
    <3> QED BY <1>5, <3>1, <3>2, <3>3, RegisterKeeps
  <2>3. /\ call' \in [Calls -> CallState] /\ call'[c] = n
        /\ \A d \in Calls \ {c} : call'[d] = call[d]
        BY <1>5 DEF IInv, TypeOK
  <2>4. TypeOK'
        BY <1>1, <1>5, <2>3, PreviewAssumption DEF IInv, TypeOK, Dirs
  <2>5. CallsNamed'
        BY <1>1, <1>5, <2>3 DEF IInv, Owned, CallsNamed, InFlight
  <2>6. CallsFresh'
    <3> SUFFICES ASSUME NEW d \in Calls, Unregistered(d)', NEW t \in Sessions,
                        call'[d].dir \in Names(t)'
                 PROVE  FALSE
        BY DEF CallsFresh
    <3>1. call'[d].dir \in Names(t)
      <4>1. call'[d].dir # 0
            BY DEF Names
      <4> QED BY <2>2, <4>1
    <3>2. CASE d = c
          BY <1>3, <1>5, <2>3, <3>1, <3>2
    <3>3. CASE d # c
          BY <2>3, <3>1, <3>3 DEF IInv, Owned, CallsFresh, Unregistered
    <3> QED BY <3>2, <3>3
  <2>7. CallsDistinct'
        BY <1>1, <1>5, <2>3
           DEF IInv, Owned, CallsDistinct, CallsNamed, Unregistered, InFlight
  <2>8. ServedDirExists'
        BY <1>5, <2>1 DEF ServedDirExists, IInv, TypeOK
  <2> QED BY <2>2, <2>4, <2>5, <2>6, <2>7, <2>8 DEF IInv, Owned
<1>6. CASE StartBuild(c, s, old, dirs)
  <2> DEFINE n == [NoCall EXCEPT !.pc = "building", !.session = s, !.dir = made']
  <2>1. n \in CallState /\ n.session = s /\ n.dir = made'
        BY <1>1 DEF NoCall, CallState
  <2>2. /\ reg' = [reg EXCEPT ![s] = old] /\ call' = [call EXCEPT ![c] = n]
        /\ disk' = dirs
        BY <1>6 DEF StartBuild
  <2>3. old.port = 0 \/ old.port = reg[s].port
        BY DEF NoPreview
  <2> HIDE DEF n
  <2> QED BY <1>5, <2>1, <2>2, <2>3
<1>7. CASE StartServer(c, s, old, dirs)
  <2>1. PICK p \in Allocatable(s, old.port) :
            /\ disk' = dirs
            /\ reg' = [reg EXCEPT ![s] = [old EXCEPT !.port = p]]
            /\ call' = [call EXCEPT ![c] = [NoCall EXCEPT !.pc = "spawning", !.session = s,
                                                          !.port = p, !.dir = made']]
        BY <1>7 DEF StartServer
  <2> DEFINE r == [old EXCEPT !.port = p]
             n == [NoCall EXCEPT !.pc = "spawning", !.session = s, !.port = p, !.dir = made']
  <2>2. old.port \in Ports \cup {0}
        BY DEF Registration
  <2>3. /\ p \in Ports
        /\ \/ p = reg[s].port
           \/ \A t \in Sessions \ {s} : reg[t].port # p
        BY <2>2, AllocatableFact DEF NoPreview
  <2>4. r \in Registration /\ r.port = p
        BY <2>3 DEF Registration
  <2>5. n \in CallState /\ n.session = s /\ n.dir = made'
        BY <1>1, <2>3 DEF NoCall, CallState
  <2>6. \E q \in Ports : r = [old EXCEPT !.port = q]
        BY <2>3
  <2> HIDE DEF r, n
  <2> QED BY <1>5, <2>1, <2>3, <2>4, <2>5, <2>6 DEF r, n
<1> QED BY <1>4, <1>6, <1>7 DEF Begin
---------------------------------------------------------------------------
(* The rest of the steps *)

\* Steps of a call that leave the registrations alone, and do not go back to
\* before its directory is registered.
LEMMA CallStep ==
    ASSUME IInv, UNCHANGED <<reg, made, up>>,
           proc' \in [Dirs -> Process], disk' \in SUBSET Dirs, disk \subseteq disk',
           call' \in [Calls -> CallState],
           \A c \in Calls :
               /\ InFlight(c)' => /\ InFlight(c) /\ call'[c].session = call[c].session
                                  /\ call'[c].dir = call[c].dir
               /\ Unregistered(c)' => Unregistered(c)
    PROVE  IInv'
<1>1. \A s \in Sessions : Names(s)' = Names(s)
      BY DEF Names
<1>2. TypeOK'
      BY DEF IInv, TypeOK
<1>3. NamesKnown' /\ NamesDisjoint' /\ PortsDistinct' /\ ServedDirExists'
      BY <1>1 DEF IInv, Owned, NamesKnown, NamesDisjoint, PortsDistinct, ServedDirExists
<1>4. CallsNamed'
      BY DEF IInv, Owned, CallsNamed
<1>5. \A c \in Calls : Unregistered(c) => InFlight(c)
      BY DEF Unregistered, InFlight
<1>6. \A c \in Calls : Unregistered(c)' => InFlight(c)'
      BY DEF Unregistered, InFlight
<1>7. CallsFresh' /\ CallsDistinct'
      BY <1>1, <1>5, <1>6 DEF IInv, Owned, CallsFresh, CallsDistinct
<1> QED BY <1>2, <1>3, <1>4, <1>7 DEF IInv, Owned

\* A call registers its directory k, as the session's build or server.
LEMMA RegisterInv ==
    ASSUME IInv, NEW c \in Calls, Unregistered(c),
           NEW r \in Registration, NEW n \in CallState,
           {r.pid, r.dir, r.root} \ {0}
               \subseteq Names(call[c].session) \cup {call[c].dir},
           r.port = reg[call[c].session].port, r.dir = call[c].dir,
           n.session = call[c].session, n.dir = call[c].dir,
           n.pc \notin {"building", "spawning"},
           reg' = [reg EXCEPT ![call[c].session] = r],
           call' = [call EXCEPT ![c] = n],
           disk' = disk \cup {call[c].dir},
           proc' \in [Dirs -> Process], UNCHANGED <<made, up>>
    PROVE  IInv'
<1> DEFINE s == call[c].session
           k == call[c].dir
<1>1. s \in Sessions /\ k \in Dirs /\ k \in Nat /\ k <= made /\ made \in Nat
      BY PreviewAssumption
         DEF IInv, Owned, CallsNamed, TypeOK, InFlight, Unregistered, Dirs
<1>2. \A t \in Sessions : k \notin Names(t)
      BY DEF IInv, Owned, CallsFresh
<1>3. reg' = [reg EXCEPT ![s] = r] /\ r.port = reg[s].port
      /\ {r.pid, r.dir, r.root} \ {0} \subseteq Names(s) \cup {k}
      BY DEF Names
<1>4. disk' = disk \cup {k} /\ r.dir = k /\ n.dir = k /\ n.session = s
      OBVIOUS
<1>5. \A d \in Calls : Unregistered(d) /\ d # c => call[d].dir # k
      BY DEF IInv, Owned, CallsDistinct
<1>13. made' \in Nat /\ made <= made' /\ k <= made'
      BY <1>1
<1>14. \A d \in Calls : InFlight(d)' => d = c \/ InFlight(d)
      BY DEF InFlight, IInv, TypeOK
<1> HIDE DEF s, k
<1>6. /\ NamesKnown' /\ NamesDisjoint' /\ PortsDistinct'
      /\ \A t \in Sessions : Names(t)' \subseteq Names(t) \cup {k}
  <2>1. \/ r.port = 0 \/ r.port = reg[s].port
        \/ \A t \in Sessions \ {s} : reg[t].port # r.port
        BY <1>3
  <2> QED BY <1>1, <1>2, <1>3, <1>13, <2>1, RegisterKeeps
<1>7. /\ call' \in [Calls -> CallState] /\ call'[c] = n
      /\ \A d \in Calls \ {c} : call'[d] = call[d]
      BY DEF IInv, TypeOK
<1>8. TypeOK'
      BY <1>1, <1>3, <1>4, <1>7 DEF IInv, TypeOK
<1>9. CallsNamed'
  <2> SUFFICES ASSUME NEW d \in Calls, InFlight(d)'
               PROVE  call'[d].session \in Sessions /\ call'[d].dir \in 1..made'
      BY DEF CallsNamed
  <2>1. CASE d = c
        BY <1>1, <1>4, <1>7, <1>13, <2>1, PreviewAssumption DEF Dirs
  <2>2. CASE d # c
        BY <1>7, <1>14, <2>2 DEF IInv, Owned, CallsNamed
  <2> QED BY <2>1, <2>2
<1>10. CallsFresh'
      BY <1>5, <1>6, <1>7 DEF IInv, Owned, CallsFresh, Unregistered
<1>11. CallsDistinct'
      BY <1>7 DEF IInv, Owned, CallsDistinct, Unregistered
<1>12. ServedDirExists'
      BY <1>1, <1>3, <1>4 DEF ServedDirExists, IInv, TypeOK
<1> QED BY <1>6, <1>8, <1>9, <1>10, <1>11, <1>12 DEF IInv, Owned

\* A session gives up its registration; directories it names may go.
LEMMA ReleaseInv ==
    ASSUME IInv, NEW s \in Sessions, NEW r \in Registration,
           r.pid = 0, r.dir = 0, r.mode = "none", r.port = 0,
           r.root \in {0, reg[s].root},
           reg' = [reg EXCEPT ![s] = r],
           disk \ Names(s) \subseteq disk', disk' \in SUBSET Dirs,
           proc' \in [Dirs -> Process], UNCHANGED <<made, up>>,
           call' \in [Calls -> CallState],
           \A c \in Calls :
               /\ InFlight(c)' => /\ InFlight(c) /\ call'[c].session = call[c].session
                                  /\ call'[c].dir = call[c].dir
               /\ Unregistered(c)' => Unregistered(c)
    PROVE  IInv'
<1>1. /\ {r.pid, r.dir, r.root} \ {0} \subseteq Names(s) \cup {0}
      /\ 0 \in Nat /\ made' \in Nat /\ made <= made' /\ 0 <= made'
      /\ \A t \in Sessions : 0 \notin Names(t)
      BY DEF Names, IInv, TypeOK
<1>2. /\ NamesKnown' /\ NamesDisjoint' /\ PortsDistinct'
      /\ \A t \in Sessions : Names(t)' \subseteq Names(t) \cup {0}
      BY <1>1, RegisterKeeps
<1>3. \A t \in Sessions : Names(t)' \subseteq Names(t)
      BY <1>2 DEF Names
<1>4. TypeOK'
      BY DEF IInv, TypeOK
<1>5. CallsNamed'
      BY DEF IInv, Owned, CallsNamed
<1>6. CallsFresh' /\ CallsDistinct'
  <2>1. \A c \in Calls : Unregistered(c)' => InFlight(c)'
        BY DEF Unregistered, InFlight
  <2> QED BY <1>3, <2>1 DEF IInv, Owned, CallsFresh, CallsDistinct
<1>7. ServedDirExists'
  <2> SUFFICES ASSUME NEW t \in Sessions, reg'[t].mode # "none"
               PROVE  reg'[t].dir \in disk'
      BY DEF ServedDirExists
  <2>1. t # s /\ reg'[t] = reg[t]
        BY DEF IInv, TypeOK
  <2>2. reg[t].dir \in disk
        BY <2>1 DEF IInv, ServedDirExists
  <2>3. reg[t].dir \in Names(t)
        BY <2>2, PreviewAssumption DEF Names, IInv, TypeOK, Dirs
  <2>4. Names(s) \cap Names(t) = {}
        BY <2>1 DEF IInv, Owned, NamesDisjoint
  <2> QED BY <2>1, <2>2, <2>3, <2>4
<1> QED BY <1>2, <1>4, <1>5, <1>6, <1>7 DEF IInv, Owned

\* What stop_preview removes carries names of its session only.
LEMMA TrackedFact ==
    ASSUME TypeOK, NEW s \in Sessions
    PROVE  Tracked(s) \subseteq Names(s) /\ Tracked(s) \in SUBSET Dirs
BY DEF TypeOK, Tracked, Names, Registration

\* Every step keeps the invariant, however calls interleave.
LEMMA StepInv == IInv /\ [Next]_vars => IInv'
<1> SUFFICES ASSUME IInv, [Next]_vars PROVE IInv'
    OBVIOUS
<1>1. ASSUME NEW c \in Calls, NEW s \in Sessions, Start(c, s) PROVE IInv'
  <2>1. reg[s] \in Registration /\ disk \in SUBSET Dirs /\ proc' \in [Dirs -> Process]
        BY <1>1 DEF Start, IInv, TypeOK
  <2>2. \A t \in Sessions : reg[t].mode # "none" => reg[t].dir \in disk
        BY DEF IInv, ServedDirExists
  <2> QED BY <1>1, <2>1, <2>2, BeginInv DEF Start
<1>2. ASSUME NEW c \in Calls, NEW s \in Sessions, Restart(c, s) PROVE IInv'
  <2>1. NoPreview \in Registration /\ NoPreview.mode = "none"
        BY DEF NoPreview, Registration
  <2>2. disk \ Tracked(s) \in SUBSET Dirs /\ proc' \in [Dirs -> Process]
        BY <1>2, TerminateFact DEF Restart, IInv, TypeOK
  <2>3. ASSUME NEW t \in Sessions \ {s}, reg[t].mode # "none"
        PROVE  reg[t].dir \in disk \ Tracked(s)
    <3>1. reg[t].dir \in disk /\ Tracked(s) \subseteq Names(s)
          BY <2>3, TrackedFact DEF IInv, ServedDirExists
    <3>2. reg[t].dir \in Names(t)
          BY <3>1, PreviewAssumption DEF Names, IInv, TypeOK, Dirs
    <3> QED BY <3>1, <3>2 DEF IInv, Owned, NamesDisjoint
  <2> QED BY <1>2, <2>1, <2>2, <2>3, BeginInv DEF Restart
<1>3. ASSUME NEW c \in Calls, Built(c) PROVE IInv'
  <2> DEFINE s == call[c].session
             k == call[c].dir
             r == [reg[s] EXCEPT !.root = k, !.dir = k, !.mode = "static"]
             n == [call[c] EXCEPT !.pc = "ready", !.source = k]
  <2>1. Unregistered(c) /\ s \in Sessions /\ k \in Dirs
        BY <1>3, PreviewAssumption
           DEF Built, Unregistered, InFlight, IInv, Owned, CallsNamed, TypeOK, Dirs
  <2>2. r \in Registration /\ r.pid = reg[s].pid /\ r.dir = k /\ r.root = k
        /\ r.port = reg[s].port
        BY <2>1 DEF IInv, TypeOK, Registration
  <2>3. n \in CallState /\ n.session = s /\ n.dir = k /\ n.pc = "ready"
        BY <2>1 DEF IInv, TypeOK, CallState
  <2>4. reg' = [reg EXCEPT ![s] = r] /\ call' = [call EXCEPT ![c] = n]
        BY <1>3, <2>1 DEF Built, IInv, TypeOK
  <2>5. /\ disk' = disk \cup {k} /\ proc' \in [Dirs -> Process]
        /\ UNCHANGED <<made, up>>
        BY <1>3 DEF Built, IInv, TypeOK
  <2>6. {r.pid, r.dir, r.root} \ {0} \subseteq Names(s) \cup {k}
        BY <2>2 DEF Names
  <2> HIDE DEF r, n
  <2> QED BY <2>1, <2>2, <2>3, <2>4, <2>5, <2>6, RegisterInv
<1>4. ASSUME NEW c \in Calls, BuildFails(c) PROVE IInv'
      BY <1>4, CallStep
         DEF BuildFails, IInv, TypeOK, NoCall, CallState, InFlight, Unregistered
<1>5. ASSUME NEW c \in Calls, Spawned(c) PROVE IInv'
  <2> DEFINE s == call[c].session
             k == call[c].dir
             r == [reg[s] EXCEPT !.pid = k, !.dir = k, !.mode = "server"]
             n == [call[c] EXCEPT !.pc = "binding"]
  <2>1. Unregistered(c) /\ s \in Sessions /\ k \in Dirs
        BY <1>5, PreviewAssumption
           DEF Spawned, Unregistered, InFlight, IInv, Owned, CallsNamed, TypeOK, Dirs
  <2>2. r \in Registration /\ r.pid = k /\ r.dir = k /\ r.root = reg[s].root
        /\ r.port = reg[s].port
        BY <2>1 DEF IInv, TypeOK, Registration
  <2>3. n \in CallState /\ n.session = s /\ n.dir = k /\ n.pc = "binding"
        BY <2>1 DEF IInv, TypeOK, CallState
  <2>4. reg' = [reg EXCEPT ![s] = r] /\ call' = [call EXCEPT ![c] = n]
        BY <1>5, <2>1 DEF Spawned, IInv, TypeOK
  <2>5. [port |-> call[c].port, state |-> "booting"] \in Process
        BY DEF IInv, TypeOK, CallState, Process
  <2>6. /\ disk' = disk \cup {k} /\ proc' \in [Dirs -> Process]
        /\ UNCHANGED <<made, up>>
        BY <1>5, <2>1, <2>5 DEF Spawned, IInv, TypeOK
  <2>7. {r.pid, r.dir, r.root} \ {0} \subseteq Names(s) \cup {k}
        BY <2>2 DEF Names
  <2> HIDE DEF r, n
  <2> QED BY <2>1, <2>2, <2>3, <2>4, <2>6, <2>7, RegisterInv
<1>6. ASSUME NEW c \in Calls, SpawnFails(c) PROVE IInv'
  <2>1. call[c].dir \in Dirs
        BY <1>6, PreviewAssumption
           DEF SpawnFails, IInv, Owned, CallsNamed, InFlight, TypeOK, Dirs
  <2> QED BY <1>6, <2>1, CallStep
             DEF SpawnFails, IInv, TypeOK, NoCall, CallState, InFlight, Unregistered
<1>7. ASSUME NEW c \in Calls, Bound(c) PROVE IInv'
      BY <1>7, CallStep DEF Bound, IInv, TypeOK, CallState, InFlight, Unregistered
<1>8. ASSUME NEW c \in Calls, Smoked(c) PROVE IInv'
  <2>1. PICK k \in Dirs : call' = [call EXCEPT ![c].pc = "ready", ![c].source = k]
        BY <1>8 DEF Smoked, Listening
  <2>2. /\ call' \in [Calls -> CallState]
        /\ \A d \in Calls :
               /\ InFlight(d)' => /\ InFlight(d) /\ call'[d].session = call[d].session
                                  /\ call'[d].dir = call[d].dir
               /\ Unregistered(d)' => Unregistered(d)
        BY <2>1 DEF IInv, TypeOK, CallState, InFlight, Unregistered
  <2>3. /\ UNCHANGED <<reg, made, up>> /\ proc' \in [Dirs -> Process]
        /\ disk' \in SUBSET Dirs /\ disk \subseteq disk'
        BY <1>8 DEF Smoked, IInv, TypeOK
  <2> QED BY <2>2, <2>3, CallStep
<1>9. ASSUME NEW c \in Calls, Fail(c) PROVE IInv'
  <2> DEFINE s == call[c].session
             r == [NoPreview EXCEPT !.root = reg[s].root]
  <2>1. s \in Sessions
        BY <1>9 DEF Fail, InFlight, IInv, Owned, CallsNamed
  <2>2. /\ r \in Registration /\ r.pid = 0 /\ r.dir = 0 /\ r.mode = "none"
        /\ r.port = 0 /\ r.root = reg[s].root
        BY <2>1 DEF IInv, TypeOK, Registration, NoPreview
  <2>3. reg' = [reg EXCEPT ![s] = r] /\ reg'[s].dir = 0
        BY <1>9, <2>1, <2>2 DEF Fail, IInv, TypeOK
  <2>7. call' = [call EXCEPT ![c].pc = "failed", ![c].source = 0]
        BY <1>9, <2>3 DEF Fail
  <2>4. /\ disk' = disk /\ disk' \in SUBSET Dirs
        /\ proc' \in [Dirs -> Process] /\ UNCHANGED <<made, up>>
        BY <1>9, <2>3 DEF Fail, IInv, TypeOK
  <2>5. /\ call' \in [Calls -> CallState]
        /\ \A d \in Calls :
               /\ InFlight(d)' => /\ InFlight(d) /\ call'[d].session = call[d].session
                                  /\ call'[d].dir = call[d].dir
               /\ Unregistered(d)' => Unregistered(d)
    <3>1. call' \in [Calls -> CallState]
      <4>1. call[c] \in CallState /\ call \in [Calls -> CallState]
            BY DEF IInv, TypeOK
      <4>2. [call[c] EXCEPT !.pc = "failed", !.source = 0] \in CallState
            BY <4>1 DEF CallState
      <4>3. call' = [call EXCEPT ![c] = [call[c] EXCEPT !.pc = "failed", !.source = 0]]
            BY <2>7, <4>1
      <4> QED BY <4>1, <4>2, <4>3
    <3>2. ~InFlight(c)' /\ ~Unregistered(c)'
          BY <2>7 DEF IInv, TypeOK, InFlight, Unregistered
    <3>3. \A d \in Calls \ {c} : call'[d] = call[d]
          BY <2>7 DEF IInv, TypeOK
    <3> QED BY <3>1, <3>2, <3>3 DEF InFlight, Unregistered
  <2>6. disk \ Names(s) \subseteq disk' /\ r.root \in {0, reg[s].root}
        BY <2>2, <2>4
  <2> HIDE DEF r, s
  <2> QED BY <2>1, <2>2, <2>3, <2>4, <2>5, <2>6, ReleaseInv
<1>10. ASSUME NEW s \in Sessions, Stop(s) PROVE IInv'
  <2>1. /\ NoPreview \in Registration /\ NoPreview.pid = 0 /\ NoPreview.dir = 0
        /\ NoPreview.mode = "none" /\ NoPreview.port = 0 /\ NoPreview.root = 0
        BY DEF NoPreview, Registration
  <2>2. proc' \in [Dirs -> Process]
        BY <1>10, TerminateFact DEF Stop, IInv
  <2>3. /\ call' = call /\ call' \in [Calls -> CallState]
        /\ reg' = [reg EXCEPT ![s] = NoPreview] /\ disk' = disk \ Tracked(s)
        /\ disk' \in SUBSET Dirs /\ UNCHANGED <<made, up>>
        BY <1>10 DEF Stop, IInv, TypeOK
  <2>4. \A c \in Calls : (InFlight(c)' => InFlight(c)) /\ (Unregistered(c)' => Unregistered(c))
        BY <2>3 DEF InFlight, Unregistered
  <2> QED BY <2>1, <2>2, <2>3, <2>4, TrackedFact, ReleaseInv DEF IInv
<1>11. CASE Shutdown
  <2>1. proc' \in [Dirs -> Process]
        BY <1>11, TerminateFact DEF Shutdown, IInv
  <2>2. TypeOK'
        BY <1>11, <2>1
           DEF Shutdown, IInv, TypeOK, NoPreview, NoCall, Registration, CallState
  <2>3. \A s \in Sessions : Names(s)' = {}
        BY <1>11 DEF Shutdown, Names, NoPreview
  <2>4. \A c \in Calls : ~InFlight(c)' /\ ~Unregistered(c)'
        BY <1>11 DEF Shutdown, InFlight, Unregistered, NoCall
  <2>5. Owned'
        BY <2>3, <2>4
           DEF Owned, NamesKnown, NamesDisjoint, CallsNamed, CallsFresh, CallsDistinct
  <2>6. PortsDistinct' /\ ServedDirExists'
        BY <1>11 DEF Shutdown, PortsDistinct, ServedDirExists, NoPreview
  <2> QED BY <2>2, <2>5, <2>6 DEF IInv
<1>12. ASSUME NEW k \in Dirs, Bind(k) \/ Exit(k) PROVE IInv'
  <2>1. /\ proc' \in [Dirs -> Process] /\ disk' \in SUBSET Dirs
        /\ UNCHANGED <<reg, call, disk, made, up>>
        BY <1>12 DEF Bind, Exit, IInv, TypeOK, Process
  <2> QED BY <2>1, CallStep DEF IInv, TypeOK, InFlight, Unregistered
<1>13. CASE UNCHANGED vars
  <2>1. TypeOK' /\ UNCHANGED <<reg, call, disk, made, up>> /\ proc' \in [Dirs -> Process]
        BY <1>13 DEF vars, IInv, TypeOK
  <2> QED BY <2>1, CallStep DEF IInv, TypeOK, InFlight, Unregistered
<1> QED BY <1>1, <1>2, <1>3, <1>4, <1>5, <1>6, <1>7, <1>8, <1>9, <1>10, <1>11,
           <1>12, <1>13 DEF Next, Advance

\* The invariant holds in every state.
THEOREM Invariance == Spec => []IInv
BY InitInv, StepInv, PTL DEF Spec

\* Tables, calls and processes keep their shape.
THEOREM TypeCorrect == Spec => []TypeOK
<1>1. IInv => TypeOK
      BY DEF IInv
<1> QED BY <1>1, Invariance, PTL

\* However starts, failures, stops and restarts interleave, allocate_port never
\* gives a slot to two sessions.
THEOREM SlotsAreDistinct == Spec => []PortsDistinct
<1>1. IInv => PortsDistinct
      BY DEF IInv
<1> QED BY <1>1, Invariance, PTL

\* However they interleave, stop_preview removes no directory that a session is
\* still served from.
THEOREM ServedIsOnDisk == Spec => []ServedDirExists
<1>1. IInv => ServedDirExists
      BY DEF IInv
<1> QED BY <1>1, Invariance, PTL

---------------------------------------------------------------------------
(* Calls that do not overlap for a session *)

\* A call of a session whose calls do not overlap.
Alone(c) == call[c].session \in Serialized

\* Such a session has one call in flight.
OneCall ==
    \A c, d \in Calls :
        Alone(c) /\ InFlight(c) /\ InFlight(d) /\ call[c].session = call[d].session => c = d

\* A registered process was spawned for the session's port.
PidHasPort ==
    \A s \in Serialized :
        reg[s].pid # 0 => reg[s].port # 0 /\ proc[reg[s].pid].port = reg[s].port

ServerHasPid == \A s \in Serialized : reg[s].mode = "server" => reg[s].pid # 0

\* The port a call is about to spawn for is still the session's.
SpawningHasPort ==
    \A c \in Calls :
        Alone(c) /\ call[c].pc = "spawning" => /\ call[c].port # 0
                                               /\ reg[call[c].session].port = call[c].port

SInv == OneCall /\ PidHasPort /\ ServerHasPid /\ SpawningHasPort /\ StartRegistered

\* What SInv says of one session and the calls for it.
SessionFits(s) ==
    /\ reg[s].pid # 0 => reg[s].port # 0 /\ proc[reg[s].pid].port = reg[s].port
    /\ reg[s].mode = "server" => reg[s].pid # 0

CallFits(c) ==
    LET r == reg[call[c].session] IN
    /\ call[c].pc = "spawning" => call[c].port # 0 /\ r.port = call[c].port
    /\ call[c].pc \in {"binding", "smoking"} =>
            /\ r.mode = "server" /\ r.port = call[c].port
            /\ r.pid = call[c].dir /\ r.dir = call[c].dir

\* SInv, session by session and call by call.
LEMMA SInvFits == SInv <=> /\ OneCall
                           /\ \A s \in Serialized : SessionFits(s)
                           /\ \A c \in Calls : Alone(c) => CallFits(c)
BY DEF SInv, PidHasPort, ServerHasPid, SpawningHasPort, StartRegistered,
       SessionFits, CallFits, Alone

\* A step for one session leaves the others, and their calls, alone.
LEMMA SessionStep ==
    ASSUME IInv, SInv, IInv', NEW s \in Sessions,
           \A t \in Sessions \ {s} :
               /\ reg'[t] = reg[t]
               /\ reg[t].pid # 0 => proc'[reg[t].pid].port = proc[reg[t].pid].port,
           \A d \in Calls : InFlight(d)' /\ call'[d].session # s => call'[d] = call[d],
           s \in Serialized =>
               /\ \A c, d \in Calls :
                    /\ InFlight(c)' /\ call'[c].session = s
                    /\ InFlight(d)' /\ call'[d].session = s
                    => c = d
               /\ SessionFits(s)'
               /\ \A c \in Calls : InFlight(c)' /\ call'[c].session = s => CallFits(c)'
    PROVE  SInv'
<1>1. \A t \in Serialized : SessionFits(t)'
  <2> SUFFICES ASSUME NEW t \in Serialized, t # s PROVE SessionFits(t)'
      OBVIOUS
  <2>1. SessionFits(t) /\ t \in Sessions
        BY SInvFits, PreviewAssumption
  <2> QED BY <2>1 DEF SessionFits
<1>2. \A c \in Calls : Alone(c)' => CallFits(c)'
  <2> SUFFICES ASSUME NEW c \in Calls, Alone(c)' PROVE CallFits(c)'
      OBVIOUS
  <2>1. CASE ~InFlight(c)'
        BY <2>1 DEF InFlight, CallFits
  <2>2. CASE InFlight(c)' /\ call'[c].session = s
        BY <2>2 DEF Alone
  <2>3. CASE InFlight(c)' /\ call'[c].session # s
    <3>1. CallFits(c) /\ call'[c] = call[c]
          BY <2>3, SInvFits DEF Alone
    <3>2. call[c].session \in Sessions \ {s}
          BY <2>3, <3>1 DEF IInv, Owned, CallsNamed
    <3> QED BY <3>1, <3>2 DEF CallFits
  <2> QED BY <2>1, <2>2, <2>3
<1>3. OneCall'
  <2> SUFFICES ASSUME NEW c \in Calls, NEW d \in Calls, Alone(c)', InFlight(c)', InFlight(d)',
                      call'[c].session = call'[d].session
               PROVE  c = d
      BY DEF OneCall
  <2>1. CASE call'[c].session = s
        BY <2>1 DEF Alone
  <2>2. CASE call'[c].session # s
        BY <2>2 DEF SInv, OneCall, InFlight, Alone
  <2> QED BY <2>1, <2>2
<1>4. SInv' <=> /\ OneCall'
                /\ \A t \in Serialized : SessionFits(t)'
                /\ \A c \in Calls : Alone(c)' => CallFits(c)'
      BY DEF SInv, PidHasPort, ServerHasPid, SpawningHasPort, StartRegistered,
             SessionFits, CallFits, Alone
<1> QED BY <1>1, <1>2, <1>3, <1>4

\* Every step keeps the invariant.
LEMMA SerialStep == IInv /\ SInv /\ [Next]_vars => SInv'
<1> SUFFICES ASSUME IInv, SInv, [Next]_vars PROVE SInv'
    OBVIOUS
<1>0. IInv' /\ TypeOK /\ TypeOK'
      BY StepInv DEF IInv
<1>1. ASSUME NEW c \in Calls, NEW s \in Sessions, NEW old \in {reg[s], NoPreview},
             NEW dirs, Begin(c, s, old, dirs),
             \A k \in Dirs : proc'[k].port = proc[k].port
      PROVE  SInv'
  <2>1. s \in Serialized => \A d \in Calls : InFlight(d) => call[d].session # s
        BY <1>1 DEF Begin, MayCall, Busy
  <2>2. /\ \A t \in Sessions \ {s} : reg'[t] = reg[t]
        /\ \A d \in Calls \ {c} : call'[d] = call[d]
        /\ call'[c].session = s
    <3>1. CASE StartStatic(c, s, old, dirs)
          BY <1>0, <3>1 DEF StartStatic, TypeOK, NoCall
    <3>2. CASE StartBuild(c, s, old, dirs)
          BY <1>0, <3>2 DEF StartBuild, TypeOK, NoCall
    <3>3. CASE StartServer(c, s, old, dirs)
      <4>1. PICK p \in Allocatable(s, old.port) :
                /\ reg' = [reg EXCEPT ![s] = [old EXCEPT !.port = p]]
                /\ call' = [call EXCEPT ![c] =
                       [NoCall EXCEPT !.pc = "spawning", !.session = s,
                                      !.port = p, !.dir = made']]
            BY <3>3 DEF StartServer
      <4> QED BY <1>0, <4>1 DEF TypeOK, NoCall
    <3> QED BY <1>1, <3>1, <3>2, <3>3 DEF Begin
  <2>3. s \in Serialized /\ old.pid # 0 => old.port # 0 /\ proc[old.pid].port = old.port
        BY SInvFits DEF SessionFits, NoPreview
  <2>4. s \in Serialized /\ old.mode = "server" => old.pid # 0
        BY SInvFits DEF SessionFits, NoPreview
  <2>5. old \in Registration
        BY <1>0 DEF TypeOK, NoPreview, Registration
  <2>6. ASSUME s \in Serialized
        PROVE  SessionFits(s)' /\ (InFlight(c)' => CallFits(c)')
    <3>1. CASE StartStatic(c, s, old, dirs)
          BY <1>0, <1>1, <2>3, <2>4, <2>5, <2>6, <3>1
             DEF StartStatic, SessionFits, InFlight, TypeOK, Registration, NoCall
    <3>2. CASE StartBuild(c, s, old, dirs)
          BY <1>0, <1>1, <2>3, <2>4, <2>5, <2>6, <3>2
             DEF StartBuild, SessionFits, CallFits, TypeOK, Registration, NoCall
    <3>3. CASE StartServer(c, s, old, dirs)
      <4>1. PICK p \in Allocatable(s, old.port) :
                /\ reg' = [reg EXCEPT ![s] = [old EXCEPT !.port = p]]
                /\ call' = [call EXCEPT ![c] =
                       [NoCall EXCEPT !.pc = "spawning", !.session = s,
                                      !.port = p, !.dir = made']]
            BY <3>3 DEF StartServer
      <4>2. p # 0 /\ (old.port # 0 => p = old.port)
            BY <2>5, AllocatableFact DEF Registration
      <4> QED BY <1>0, <1>1, <2>3, <2>4, <2>5, <2>6, <4>1, <4>2
                 DEF SessionFits, CallFits, TypeOK, Registration, NoCall
    <3> QED BY <1>1, <3>1, <3>2, <3>3 DEF Begin
  <2>7. \A t \in Sessions : reg[t].pid # 0 => reg[t].pid \in Dirs
        BY <1>0 DEF TypeOK, Registration
  <2>8. \A d \in Calls : InFlight(d)' /\ d # c => InFlight(d)
        BY <2>2 DEF InFlight
  <2> QED BY <1>0, <1>1, <2>1, <2>2, <2>6, <2>7, <2>8, SessionStep
<1>2. ASSUME NEW c \in Calls, NEW s \in Sessions, Start(c, s) PROVE SInv'
      BY <1>1, <1>2 DEF Start
<1>3. ASSUME NEW c \in Calls, NEW s \in Sessions, Restart(c, s) PROVE SInv'
      BY <1>0, <1>1, <1>3, TerminateFact DEF Restart
<1>4. ASSUME NEW c \in Calls, Advance(c) PROVE SInv'
  <2>1. PICK s \in Sessions : InFlight(c) /\ s = call[c].session
        BY <1>4
           DEF Advance, Built, BuildFails, Spawned, SpawnFails, Bound, Smoked, Fail,
               InFlight, IInv, Owned, CallsNamed
  <2>2. s \in Serialized => \A d \in Calls : InFlight(d) /\ call[d].session = s => d = c
        BY <2>1 DEF SInv, OneCall, Alone
  <2>3. /\ \A t \in Sessions \ {s} : reg'[t] = reg[t]
        /\ \A d \in Calls \ {c} : call'[d] = call[d]
        BY <1>0, <1>4, <2>1
           DEF Advance, Built, BuildFails, Spawned, SpawnFails, Bound, Smoked, Fail, TypeOK
  <2>4. \A t \in Sessions \ {s} :
            reg[t].pid # 0 => proc'[reg[t].pid].port = proc[reg[t].pid].port
    <3> SUFFICES ASSUME NEW t \in Sessions \ {s}, reg[t].pid # 0
                 PROVE  proc'[reg[t].pid].port = proc[reg[t].pid].port
        OBVIOUS
    <3>1. CASE Spawned(c)
      <4>1. call[c].dir # reg[t].pid
            BY <3>1 DEF Spawned, IInv, Owned, CallsFresh, Unregistered, Names
      <4> QED BY <1>0, <3>1, <4>1 DEF Spawned, TypeOK, Registration
    <3>2. CASE UNCHANGED proc
          BY <3>2
    <3> QED BY <1>4, <3>1, <3>2 DEF Advance, Built, BuildFails, SpawnFails, Bound, Smoked, Fail
  <2>5. s \in Serialized => SessionFits(s) /\ CallFits(c)
        BY <2>1, SInvFits DEF Alone
  <2>6. /\ s \in Serialized => SessionFits(s)' /\ (InFlight(c)' => CallFits(c)')
        /\ InFlight(c)' => call'[c].session = s
    <3>1. CASE Built(c)
          BY <1>0, <2>1, <2>5, <3>1 DEF Built, SessionFits, InFlight, TypeOK, Registration
    <3>2. CASE BuildFails(c) \/ SpawnFails(c)
          BY <1>0, <2>1, <2>5, <3>2
             DEF BuildFails, SpawnFails, SessionFits, InFlight, TypeOK, NoCall
    <3>3. CASE Spawned(c)
      <4>1. call[c].dir \in Dirs /\ call[c].dir # 0
            BY <2>1, PreviewAssumption DEF IInv, Owned, CallsNamed, TypeOK, Dirs
      <4>2. /\ reg'[s] = [reg[s] EXCEPT !.pid = call[c].dir, !.dir = call[c].dir,
                                        !.mode = "server"]
            /\ proc'[call[c].dir].port = call[c].port
            /\ call'[c] = [call[c] EXCEPT !.pc = "binding"]
            BY <1>0, <2>1, <3>3, <4>1 DEF Spawned, TypeOK
      <4> QED BY <1>0, <2>1, <2>5, <3>3, <4>1, <4>2
                 DEF Spawned, SessionFits, CallFits, TypeOK, Registration, CallState
    <3>4. CASE Bound(c)
          BY <1>0, <2>1, <2>5, <3>4 DEF Bound, SessionFits, CallFits, TypeOK, CallState
    <3>5. CASE Smoked(c)
          BY <1>0, <2>1, <2>5, <3>5 DEF Smoked, SessionFits, InFlight, TypeOK, CallState
    <3>6. CASE Fail(c)
          BY <1>0, <2>1, <3>6 DEF Fail, SessionFits, InFlight, TypeOK, NoPreview
    <3> QED BY <1>4, <3>1, <3>2, <3>3, <3>4, <3>5, <3>6 DEF Advance
  <2>7. \A d \in Calls : InFlight(d)' /\ d # c => InFlight(d)
        BY <2>3 DEF InFlight
  <2>8. /\ \A d \in Calls : InFlight(d)' /\ call'[d].session # s => call'[d] = call[d]
        /\ s \in Serialized => \A d \in Calls : InFlight(d)' /\ call'[d].session = s => d = c
        BY <2>2, <2>3, <2>6, <2>7
  <2> QED BY <1>0, <2>3, <2>4, <2>6, <2>8, SessionStep
<1>5. ASSUME NEW s \in Sessions, Stop(s) PROVE SInv'
  <2>1. /\ \A t \in Sessions \ {s} : reg'[t] = reg[t]
        /\ reg'[s] = NoPreview /\ call' = call
        BY <1>0, <1>5 DEF Stop, TypeOK
  <2>2. \A t \in Sessions \ {s} :
            reg[t].pid # 0 => proc'[reg[t].pid].port = proc[reg[t].pid].port
        BY <1>0, <1>5, TerminateFact DEF Stop, TypeOK, Registration
  <2>3. s \in Serialized => \A d \in Calls : InFlight(d)' => call'[d].session # s
        BY <1>5, <2>1 DEF Stop, MayCall, Busy, InFlight
  <2>4. SessionFits(s)'
        BY <2>1 DEF SessionFits, NoPreview
  <2> QED BY <1>0, <2>1, <2>2, <2>3, <2>4, SessionStep
<1>6. CASE Shutdown
      BY <1>6, PreviewAssumption
         DEF Shutdown, SInv, OneCall, PidHasPort, ServerHasPid, SpawningHasPort,
             StartRegistered, InFlight, NoPreview, NoCall, Alone
<1>7. ASSUME NEW k \in Dirs, Bind(k) \/ Exit(k) PROVE SInv'
  <2>1. UNCHANGED <<reg, call>> /\ \A j \in Dirs : proc'[j].port = proc[j].port
        BY <1>0, <1>7 DEF Bind, Exit, TypeOK, Process
  <2> QED BY <1>0, <2>1, PreviewAssumption
             DEF SInv, OneCall, PidHasPort, ServerHasPid, SpawningHasPort,
                 StartRegistered, InFlight, TypeOK, Registration, Alone
<1>8. CASE UNCHANGED vars
      BY <1>8 DEF vars, SInv, OneCall, PidHasPort, ServerHasPid, SpawningHasPort,
                  StartRegistered, InFlight, Alone
<1> QED BY <1>2, <1>3, <1>4, <1>5, <1>6, <1>7, <1>8 DEF Next

\* The invariant holds in every state.
LEMMA SerialInvariance == Spec => []SInv
<1>1. Init => SInv
      BY PreviewAssumption
         DEF Init, SInv, OneCall, PidHasPort, ServerHasPid, SpawningHasPort,
             StartRegistered, InFlight, NoPreview, NoCall, Alone
<1> QED BY <1>1, SerialStep, Invariance, PTL DEF Spec

\* A session whose calls do not overlap: serve finds a port for it whenever it
\* is in server mode, and the process registered there was spawned for that port,
\* though the calls of other sessions may overlap.
THEOREM ServersHavePorts == Spec => []ServerHasItsPort
<1>1. SInv => ServerHasItsPort
      BY DEF SInv, PidHasPort, ServerHasPid, ServerHasItsPort
<1> QED BY <1>1, SerialInvariance, PTL

\* Nothing takes the registration of a start that waits for its server, if the
\* calls of its session do not overlap.
THEOREM StartsKeepRegistration == Spec => []StartRegistered
<1>1. SInv => StartRegistered
      BY DEF SInv
<1> QED BY <1>1, SerialInvariance, PTL

\* The servers of two sessions whose calls do not overlap were never spawned
\* for the same port.
THEOREM PortsAreExclusive == Spec => []SerialServersApart
<1>1. IInv /\ SInv => SerialServersApart
      BY PreviewAssumption
         DEF IInv, SInv, PortsDistinct, PidHasPort, ServerHasPid, SerialServersApart,
             ServersApart
<1> QED BY <1>1, Invariance, SerialInvariance, PTL
===========================================================================
