--------------------------- MODULE PreviewServer ---------------------------
(***************************************************************************)
(* The preview lifecycle manager (sandbox/preview_server.py): its tables   *)
(* of ports, processes, directories and modes, the calls that start, stop  *)
(* and restart previews, and the processes they spawn.                     *)
(*                                                                         *)
(* An action is what happens between two awaits of a call.  Processes are  *)
(* the environment: they bind their port some time after they are spawned, *)
(* may crash, and keep their port for a while after SIGTERM.               *)
(***************************************************************************)
EXTENDS FiniteSets, Naturals

CONSTANTS
    Sessions,
    Calls,      \* start_preview calls that may be in flight
    MaxPort,    \* ports 1..MaxPort stand for _PORT_RANGE
    MaxDirs,    \* bound on the temporary directories ever made
    Serialized, \* the sessions whose clients wait for one call before the next
    NoSession   \* the session of a call not made yet

ASSUME PreviewAssumption ==
    /\ MaxPort \in Nat /\ MaxDirs \in Nat /\ Serialized \subseteq Sessions
    /\ NoSession \notin Sessions

VARIABLES
    reg,        \* _allocated_ports, _active_pids, _preview_dirs, _build_roots, _preview_mode
    call,       \* the calls of start_preview
    proc,       \* the spawned processes
    disk,       \* the temporary directories that exist
    made,       \* the number of temporary directories named so far
    up          \* the server runs

vars == <<reg, call, proc, disk, made, up>>

\* A server process is named by the directory it was spawned in; 0 is none.
Ports == 1..MaxPort
Dirs  == 1..MaxDirs

Registration ==
    [port : Ports \cup {0}, pid : Dirs \cup {0}, dir : Dirs \cup {0},
     root : Dirs \cup {0}, mode : {"none", "static", "server"}]

NoPreview == [port |-> 0, pid |-> 0, dir |-> 0, root |-> 0, mode |-> "none"]

\* source: of a call that returned, who answered its smoke check (or holds its
\* files); of one that failed, the directory whose log it reported.
CallState ==
    [pc      : {"idle", "building", "spawning", "binding", "smoking", "ready", "failed"},
     session : Sessions \cup {NoSession},
     port    : Ports \cup {0},
     dir     : Dirs \cup {0},
     source  : Dirs \cup {0}]

NoCall == [pc |-> "idle", session |-> NoSession, port |-> 0, dir |-> 0, source |-> 0]

Process ==
    [port : Ports \cup {0}, state : {"none", "booting", "serving", "dying", "dead"}]

TypeOK ==
    /\ reg \in [Sessions -> Registration]
    /\ call \in [Calls -> CallState]
    /\ proc \in [Dirs -> Process]
    /\ disk \subseteq Dirs
    /\ made \in 0..MaxDirs
    /\ up \in BOOLEAN

Init ==
    /\ reg = [s \in Sessions |-> NoPreview]
    /\ call = [c \in Calls |-> NoCall]
    /\ proc = [k \in Dirs |-> [port |-> 0, state |-> "none"]]
    /\ disk = {}
    /\ made = 0
    /\ up = TRUE

---------------------------------------------------------------------------
InFlight(c) == call[c].pc \in {"building", "spawning", "binding", "smoking"}
Busy(s)     == \E c \in Calls : InFlight(c) /\ call[c].session = s
MayCall(s)  == up /\ (s \in Serialized => ~Busy(s))

Listening(p) == {k \in Dirs : proc[k].port = p /\ proc[k].state \in {"serving", "dying"}}

\* SIGTERM: a process that is up takes a while to end.
Terminate(ks) ==
    proc' = [k \in Dirs |->
                IF k \in ks /\ proc[k].state = "serving" THEN [proc[k] EXCEPT !.state = "dying"]
                ELSE IF k \in ks /\ proc[k].state = "booting" THEN [proc[k] EXCEPT !.state = "dead"]
                ELSE proc[k]]

\* What stop_preview removes: the build root, if any, or the served directory.
Tracked(s) == (IF reg[s].root # 0 THEN {reg[s].root} ELSE {reg[s].dir}) \ {0}

\* Mutant: the first port is taken whoever has it.
AllocatableFirst(s, port) == IF port # 0 THEN {port} ELSE {1}

\* allocate_port: the port the session has, or the lowest that is free.
Free(s) == Ports \ {reg[t].port : t \in Sessions \ {s}}
Allocatable(s, port) ==
    IF port # 0 THEN {port} ELSE {p \in Free(s) : \A q \in Free(s) : p <= q}

---------------------------------------------------------------------------
(* start_preview up to its first await, for a session whose registration   *)
(* is "old", with the directories "dirs" on disk.  The directory the call  *)
(* will make gets its name here.                                           *)

StartStatic(c, s, old, dirs) ==
    /\ disk' = dirs \cup {made'}
    /\ reg' = [reg EXCEPT ![s] = [old EXCEPT !.dir = made', !.mode = "static"]]
    /\ call' = [call EXCEPT ![c] = [NoCall EXCEPT !.pc = "ready", !.session = s,
                                                  !.dir = made', !.source = made']]

StartBuild(c, s, old, dirs) ==
    /\ disk' = dirs
    /\ reg' = [reg EXCEPT ![s] = old]
    /\ call' = [call EXCEPT ![c] = [NoCall EXCEPT !.pc = "building", !.session = s,
                                                  !.dir = made']]

\* Without a free port the call raises and nothing changes.
StartServer(c, s, old, dirs) ==
    \E p \in Allocatable(s, old.port) :
        /\ disk' = dirs
        /\ reg' = [reg EXCEPT ![s] = [old EXCEPT !.port = p]]
        /\ call' = [call EXCEPT ![c] = [NoCall EXCEPT !.pc = "spawning", !.session = s,
                                                      !.port = p, !.dir = made']]

Begin(c, s, old, dirs) ==
    /\ MayCall(s)
    /\ ~InFlight(c)
    /\ made < MaxDirs
    /\ made' = made + 1
    /\ \/ StartStatic(c, s, old, dirs)
       \/ StartBuild(c, s, old, dirs)
       \/ StartServer(c, s, old, dirs)
    /\ UNCHANGED up

Start(c, s) == Begin(c, s, reg[s], disk) /\ UNCHANGED proc

\* An edit or a checkout stops an active preview and starts it again.
Restart(c, s) ==
    /\ reg[s].mode # "none"
    /\ Begin(c, s, NoPreview, disk \ Tracked(s))
    /\ Terminate({reg[s].pid})

---------------------------------------------------------------------------
(* The rest of the call *)

Built(c) ==
    LET s == call[c].session
        k == call[c].dir IN
    /\ call[c].pc = "building"
    /\ disk' = disk \cup {k}
    /\ reg' = [reg EXCEPT ![s].root = k, ![s].dir = k, ![s].mode = "static"]
    /\ call' = [call EXCEPT ![c].pc = "ready", ![c].source = k]
    /\ UNCHANGED <<proc, made, up>>

\* A failed build removes its directory.
BuildFails(c) ==
    /\ call[c].pc = "building"
    /\ call' = [call EXCEPT ![c] = NoCall]
    /\ UNCHANGED <<reg, proc, disk, made, up>>

\* Mutant: the directory is not registered.
SpawnedUntracked(c) ==
    LET s == call[c].session
        k == call[c].dir IN
    /\ call[c].pc = "spawning"
    /\ disk' = disk \cup {k}
    /\ proc' = [proc EXCEPT ![k] = [port |-> call[c].port, state |-> "booting"]]
    /\ reg' = [reg EXCEPT ![s].pid = k, ![s].mode = "server"]
    /\ call' = [call EXCEPT ![c].pc = "binding"]
    /\ UNCHANGED <<made, up>>

Spawned(c) ==
    LET s == call[c].session
        k == call[c].dir IN
    /\ call[c].pc = "spawning"
    /\ disk' = disk \cup {k}
    /\ proc' = [proc EXCEPT ![k] = [port |-> call[c].port, state |-> "booting"]]
    /\ reg' = [reg EXCEPT ![s].pid = k, ![s].dir = k, ![s].mode = "server"]
    /\ call' = [call EXCEPT ![c].pc = "binding"]
    /\ UNCHANGED <<made, up>>

\* The runner raises: nobody catches it, the port stays allocated.
SpawnFails(c) ==
    /\ call[c].pc = "spawning"
    /\ disk' = disk \cup {call[c].dir}
    /\ call' = [call EXCEPT ![c] = NoCall]
    /\ UNCHANGED <<reg, proc, made, up>>

\* _wait_for_port connects to whoever listens.
Bound(c) ==
    /\ call[c].pc = "binding"
    /\ Listening(call[c].port) # {}
    /\ call' = [call EXCEPT ![c].pc = "smoking"]
    /\ UNCHANGED <<reg, proc, disk, made, up>>

Smoked(c) ==
    /\ call[c].pc = "smoking"
    /\ \E k \in Listening(call[c].port) :
        call' = [call EXCEPT ![c].pc = "ready", ![c].source = k]
    /\ UNCHANGED <<reg, proc, disk, made, up>>

(* Mutants: only the port is released; waiting for the port has no limit. *)
FailKeepsMode(c) ==
    /\ call[c].pc \in {"binding", "smoking"}
    /\ reg' = [reg EXCEPT ![call[c].session].port = 0]
    /\ call' = [call EXCEPT ![c].pc = "failed"]
    /\ UNCHANGED <<proc, disk, made, up>>

FailSmokingOnly(c) ==
    /\ call[c].pc = "smoking"
    /\ reg' = [reg EXCEPT ![call[c].session] = NoPreview]
    /\ call' = [call EXCEPT ![c].pc = "failed"]
    /\ UNCHANGED <<proc, disk, made, up>>

\* _fail, after 20 s without a listener, or a bad answer to GET /: it drops
\* the registration, then reads the log of the directory registered.
Fail(c) ==
    LET s == call[c].session IN
    /\ call[c].pc \in {"binding", "smoking"}
    /\ reg' = [reg EXCEPT ![s] = [NoPreview EXCEPT !.root = reg[s].root]]
    /\ call' = [call EXCEPT ![c].pc = "failed", ![c].source = reg'[s].dir]
    /\ UNCHANGED <<proc, disk, made, up>>

---------------------------------------------------------------------------
\* Mutant: the mode is not forgotten.
StopKeepsMode(s) ==
    /\ MayCall(s)
    /\ reg' = [reg EXCEPT ![s] = [NoPreview EXCEPT !.mode = reg[s].mode]]
    /\ disk' = disk \ Tracked(s)
    /\ Terminate({reg[s].pid})
    /\ UNCHANGED <<call, made, up>>

\* stop_preview, also before an iteration.
Stop(s) ==
    /\ MayCall(s)
    /\ reg' = [reg EXCEPT ![s] = NoPreview]
    /\ disk' = disk \ Tracked(s)
    /\ Terminate({reg[s].pid})
    /\ UNCHANGED <<call, made, up>>

\* cleanup_all, when the server ends: it answers the calls in flight first.
Shutdown ==
    /\ up
    /\ \A c \in Calls : ~InFlight(c)
    /\ up' = FALSE
    /\ Terminate({reg[s].pid : s \in Sessions})
    /\ disk' = disk \ UNION {{reg[s].root, reg[s].dir} : s \in Sessions}
    /\ reg' = [s \in Sessions |-> NoPreview]
    /\ UNCHANGED <<call, made>>

---------------------------------------------------------------------------
(* The processes *)

Bind(k) ==
    /\ proc[k].state = "booting"
    /\ proc' = [proc EXCEPT ![k].state = IF Listening(proc[k].port) = {} THEN "serving"
                                         ELSE "dead"]
    /\ UNCHANGED <<reg, call, disk, made, up>>

Exit(k) ==
    /\ proc[k].state \in {"booting", "serving", "dying"}
    /\ proc' = [proc EXCEPT ![k].state = "dead"]
    /\ UNCHANGED <<reg, call, disk, made, up>>

Advance(c) == Built(c) \/ BuildFails(c) \/ Spawned(c) \/ SpawnFails(c)
              \/ Bound(c) \/ Smoked(c) \/ Fail(c)

Next ==
    \/ \E c \in Calls, s \in Sessions : Start(c, s) \/ Restart(c, s)
    \/ \E c \in Calls : Advance(c)
    \/ \E s \in Sessions : Stop(s)
    \/ Shutdown
    \/ \E k \in Dirs : Bind(k) \/ Exit(k)

Spec == Init /\ [][Next]_vars

\* Builds, spawns and polls are limited in time.
FairSpec == Spec /\ \A c \in Calls : WF_vars(Advance(c))

---------------------------------------------------------------------------
(* Properties *)

\* What serve relies on, when a session's calls do not overlap: if it is served
\* by proxy it has a port, and the process registered was spawned for that port,
\* whatever the calls of other sessions do in between.
ServerHasItsPort ==
    \A s \in Serialized :
        reg[s].mode = "server" => /\ reg[s].port # 0
                                  /\ reg[s].pid # 0
                                  /\ proc[reg[s].pid].port = reg[s].port

\* No two sessions hold the same slot, however starts, failures and stops
\* interleave.
PortsDistinct ==
    \A s, t \in Sessions : reg[s].port # 0 /\ reg[s].port = reg[t].port => s = t

\* Static files are served from a directory nobody has removed.
ServedDirExists ==
    \A s \in Sessions : reg[s].mode # "none" => reg[s].dir \in disk

\* A start that gets as far as waiting for its server has registered it, and
\* nothing else took its registration since.
StartRegistered ==
    \A c \in Calls :
        call[c].pc \in {"binding", "smoking"} /\ call[c].session \in Serialized =>
            LET r == reg[call[c].session] IN
            /\ r.mode = "server" /\ r.port = call[c].port
            /\ r.pid = call[c].dir /\ r.dir = call[c].dir

\* The servers of two sessions are not told to listen on one port.
ServersApart(S) ==
    \A s, t \in S :
        s # t /\ reg[s].mode = "server" /\ reg[t].mode = "server" =>
            proc[reg[s].pid].port # proc[reg[t].pid].port

\* allocate_port and stop_preview keep servers apart as long as the calls of
\* their sessions do not overlap.
SerialServersApart == ServersApart(Serialized)

\* Every start is answered.
StartEnds == \A c \in Calls : InFlight(c) ~> ~InFlight(c)

(* What the code says, and does not do. *)

\* preview_server.py:240 "Spawn a subprocess server, wait for it to bind AND
\* serve, then report."
ReportsItsServer == \A c \in Calls : call[c].pc = "ready" => call[c].source = call[c].dir

\* preview_server.py:355 "Kill all preview servers"
ShutdownKillsAll == ~up => \A k \in Dirs : proc[k].state \notin {"booting", "serving"}

\* preview_server.py:119 "Allocate a unique preview port for a session."
PortExclusive == ServersApart(Sessions)

\* preview_server.py:128 "No preview ports available — all 20 slots in use"
ExhaustedMeansInUse ==
    \A s \in Sessions :
        Free(s) = {} => \A t \in Sessions \ {s} :
                            reg[t].port # 0 => reg[t].mode = "server" \/ Busy(t)

\* main.py:1092 "Surface the real failure (captured stderr) so the UI can show it."
FailureExplained == \A c \in Calls : call[c].pc = "failed" => call[c].source = call[c].dir
===========================================================================
