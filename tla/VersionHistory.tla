-------------------------- MODULE VersionHistory --------------------------
(***************************************************************************)
(* The versions table of one session and the transactions that write it:   *)
(* the build task, the iteration tasks and the checkout handlers, each a   *)
(* writer that goes through versioning/store.py.                           *)
(*                                                                         *)
(* PostgreSQL runs them at its default level, READ COMMITTED.  A SELECT    *)
(* reads what is committed when it starts.  The UPDATE of create_version   *)
(* works on the session's rows committed when it starts, in whatever order *)
(* it comes upon them, locks one after the other, waiting for those that   *)
(* another transaction has updated, and keeps them locked until it ends.   *)
(* The table has no uniqueness constraint.                                 *)
(*                                                                         *)
(* An action is one statement, or several when nothing another writer does *)
(* can come between them; the UPDATE is one action for every row.  Rows    *)
(* are never removed: delete_session is left to SessionLifecycle.          *)
(***************************************************************************)
EXTENDS Naturals, Sequences

CONSTANTS
    Writers,        \* tasks and handlers that may be writing at the same time
    Files,          \* file snapshots
    MaxVersions     \* bound on the versions ever begun

ASSUME VersionsAssumption == MaxVersions \in Nat

VARIABLES
    table,      \* committed rows, in the order of their commits
    build,      \* the build task: "pending", or it has "ended" its pipeline
    writer,     \* the state of every writer
    overlapped  \* history: a writer began while another was at work

vars == <<table, build, writer, overlapped>>

VersionRow == [num : Nat \ {0}, files : Files, current : BOOLEAN]

\* files is what the writer will store (a set of at most one element), seen
\* the rows its UPDATE works on: those at the positions 1..seen.  It has held
\* of them and goes for want, or has them all (0).
WriterState ==
    [pc    : {"idle", "counting", "marking", "waiting", "inserting"},
     num   : Nat,
     files : SUBSET Files,
     seen  : Nat,
     held  : SUBSET Nat,
     want  : Nat]

NoWriter == [pc |-> "idle", num |-> 0, files |-> {}, seen |-> 0,
             held |-> {}, want |-> 0]

TypeOK ==
    /\ table \in Seq(VersionRow)
    /\ build \in {"pending", "ended"}
    /\ writer \in [Writers -> WriterState]
    /\ overlapped \in BOOLEAN

Init ==
    /\ table = <<>>
    /\ build = "pending"
    /\ writer = [w \in Writers |-> NoWriter]
    /\ overlapped = FALSE

---------------------------------------------------------------------------
Positions == 1..Len(table)
Numbers == {table[i].num : i \in Positions}
Numbered(n) == {i \in Positions : table[i].num = n}

Highest == CHOOSE n \in Numbers : \A m \in Numbers : m <= n

\* Mutant: it counts the rows.
NextNumberByRows == Len(table) + 1

\* get_next_version_number
NextNumber == IF table = <<>> THEN 1 ELSE Highest + 1

Idle(w) == writer[w].pc = "idle" /\ Len(table) < MaxVersions

Start(w, pc, num, f) ==
    /\ writer' = [writer EXCEPT ![w] =
                     [NoWriter EXCEPT !.pc = pc, !.num = num, !.files = {f}]]
    /\ overlapped' = (overlapped \/ \E v \in Writers : writer[v].pc # "idle")

\* The build returns and goes on to store version 1, without counting.
Build(w, f) ==
    /\ Idle(w)
    /\ build = "pending"
    /\ build' = "ended"
    /\ Start(w, "marking", 1, f)
    /\ UNCHANGED table

BuildFailed ==
    /\ build = "pending"
    /\ build' = "ended"
    /\ UNCHANGED <<table, writer, overlapped>>

\* An iteration, possible once the build has ended, returns.
Iterate(w, f) ==
    /\ Idle(w)
    /\ build = "ended"
    /\ Start(w, "counting", 0, f)
    /\ UNCHANGED <<table, build>>

\* Mutant: only the marks are moved, as the in-memory fallback does.
CheckoutFlips(w, n) ==
    /\ Idle(w)
    /\ table' = [i \in Positions |-> [table[i] EXCEPT !.current = table[i].num = n]]
    /\ UNCHANGED <<build, writer, overlapped>>

\* checkout_version looks its target up by number: with several rows of that
\* number the query raises, and the request fails.
Checkout(w, n) ==
    /\ Idle(w)
    /\ \E i \in Positions :
        /\ Numbered(n) = {i}
        /\ Start(w, "counting", 0, table[i].files)
    /\ UNCHANGED <<table, build>>

Count(w) ==
    /\ writer[w].pc = "counting"
    /\ writer' = [writer EXCEPT ![w].pc = "marking", ![w].num = NextNumber]
    /\ UNCHANGED <<table, build, overlapped>>

\* The row an UPDATE comes upon next when these are left.
NextRow(rows) == IF rows = {} THEN {0} ELSE rows

\* create_version: the UPDATE starts...
Mark(w) ==
    /\ writer[w].pc = "marking"
    /\ \E i \in NextRow(Positions) :
        writer' = [writer EXCEPT ![w].pc = "waiting", ![w].seen = Len(table),
                                 ![w].want = i]
    /\ UNCHANGED <<table, build, overlapped>>

\* ...takes a row no other transaction has...
Lock(w) ==
    /\ writer[w].pc = "waiting"
    /\ writer[w].want # 0
    /\ \A v \in Writers \ {w} : writer[w].want \notin writer[v].held
    /\ LET held == writer[w].held \cup {writer[w].want} IN
        \E i \in NextRow((1..writer[w].seen) \ held) :
            writer' = [writer EXCEPT ![w].held = held, ![w].want = i]
    /\ UNCHANGED <<table, build, overlapped>>

\* ...and ends when it has them all.
Marked(w) ==
    /\ writer[w].pc = "waiting"
    /\ writer[w].want = 0
    /\ writer' = [writer EXCEPT ![w].pc = "inserting"]
    /\ UNCHANGED <<table, build, overlapped>>

\* Mutant: the newest row is spared.
UnmarkBelow(n) == [i \in Positions |->
                      IF i < n THEN [table[i] EXCEPT !.current = FALSE] ELSE table[i]]

\* The rows an UPDATE that saw n of them leaves.
Unmark(n) == [i \in Positions |->
                 IF i <= n THEN [table[i] EXCEPT !.current = FALSE] ELSE table[i]]

\* Mutant: the INSERT comes before the UPDATE.
CommitUnmarked(w) ==
    /\ writer[w].pc = "inserting"
    /\ \E f \in writer[w].files :
        table' = Append(Unmark(writer[w].seen),
                        [num |-> writer[w].num, files |-> f, current |-> FALSE])
    /\ writer' = [writer EXCEPT ![w] = NoWriter]
    /\ UNCHANGED <<build, overlapped>>

\* INSERT and COMMIT.
Commit(w) ==
    /\ writer[w].pc = "inserting"
    /\ \E f \in writer[w].files :
        table' = Append(Unmark(writer[w].seen),
                        [num |-> writer[w].num, files |-> f, current |-> TRUE])
    /\ writer' = [writer EXCEPT ![w] = NoWriter]
    /\ UNCHANGED <<build, overlapped>>

\* Mutant: a failed transaction is left open, as without "async with".
AbortUnclosed(w) ==
    /\ writer[w].pc # "idle"
    /\ writer' = [writer EXCEPT ![w].pc = "idle"]
    /\ UNCHANGED <<table, build, overlapped>>

\* A database error or the end of the process rolls the transaction back, and
\* so its locks go: the session is closed on every way out.
Abort(w) ==
    /\ writer[w].pc # "idle"
    /\ writer' = [writer EXCEPT ![w] = NoWriter]
    /\ UNCHANGED <<table, build, overlapped>>

WaitsFor(w, v) == writer[w].pc = "waiting" /\ writer[w].want \in writer[v].held

\* PostgreSQL looks for transactions that wait for each other in a circle and
\* fails the statement of one of them.
BreakCircle(w) ==
    /\ \E circle \in SUBSET Writers :
        /\ w \in circle
        /\ \A v \in circle : \E u \in circle \ {v} : WaitsFor(v, u)
    /\ Abort(w)

Begin(w) ==
    \/ \E f \in Files : Build(w, f) \/ Iterate(w, f)
    \/ \E n \in Numbers : Checkout(w, n)
Advance(w) == Count(w) \/ Mark(w) \/ Lock(w) \/ Marked(w) \/ Commit(w)

Next ==
    \/ BuildFailed
    \/ \E w \in Writers : Begin(w) \/ Advance(w) \/ Abort(w)

Spec == Init /\ [][Next]_vars

(* The database executes the statements it is sent, serves those that wait *)
(* for a row in the order they came and breaks a circle of them.           *)
Fairness == \A w \in Writers :
    /\ WF_vars(Advance(w) \/ BreakCircle(w))
    /\ SF_vars(Lock(w))
FairSpec == Spec /\ Fairness

---------------------------------------------------------------------------
(* Properties *)

\* Whatever the writers do at the same time, the last committed version is
\* current: no concurrent UPDATE takes the mark away without giving it on.
LastIsCurrent == table # <<>> => table[Len(table)].current

\* Version numbers have no gaps, though writers count before they write,
\* several may count the same and any of them may fail.
NoGaps == \A n \in Numbers : 1..n \subseteq Numbers

\* History is never rewritten: a committed row stays, with its number and its
\* files, and a row that is not current any more never is again.
AppendOnly ==
    [][/\ Len(table') >= Len(table)
       /\ \A i \in Positions :
            /\ table'[i].num = table[i].num /\ table'[i].files = table[i].files
            /\ table'[i].current => table[i].current]_vars

\* A writer that began ends, with its version or without: whoever holds rows
\* of the session gives them back, even when the writer fails half way, or two
\* have come to wait for each other (store.py:26, main.py:600, 1189, 1285).
WritersEnd == \A w \in Writers : writer[w].pc # "idle" ~> writer[w].pc = "idle"

(* As long as no two writers overlap the table is the promised log. *)

\* The number restore_session shows: the highest one marked current.
CurrentNumber ==
    IF table = <<>> THEN 0
    ELSE CHOOSE n \in Numbers :
            /\ \E i \in Numbered(n) : table[i].current
            /\ \A i \in Positions : table[i].current => table[i].num <= n

\* The files get_version returns for every number.
FilesByNumber ==
    [n \in 1..Len(table) |-> table[CHOOSE i \in Positions : table[i].num = n].files]

Log == INSTANCE VersionLog WITH log <- FilesByNumber, current <- CurrentNumber

\* As long as no two writers have overlapped, whoever fails half way, the
\* store is the log it promises to be: every number finds its one snapshot,
\* the version shown is the last, and saving and rolling back both append
\* (store.py:15-67, 90-116).
ImplementsLog ==
    Log!Init /\ [][overlapped' \/ Log!Next]_<<FilesByNumber, CurrentNumber>>

(* What the store says, and overlapping writers break. *)

\* store.py:71 "Get the currently active version for a session."
OneCurrent ==
    \A i, j \in Positions : table[i].current /\ table[j].current => i = j

\* As long as no two writers have overlapped one version is active, though
\* they fail between the UPDATE, the INSERT and the COMMIT (store.py:25-45).
OneCurrentAlone == ~overlapped => OneCurrent

\* store.py:59 "Get a specific version by session and version number."
UniqueNumbers ==
    \A i, j \in Positions : table[i].num = table[j].num => i = j
===========================================================================
