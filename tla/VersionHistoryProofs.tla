----------------------- MODULE VersionHistoryProofs -----------------------
(***************************************************************************)
(* Theorems about VersionHistory for any number of concurrent writers, and *)
(* that the store is the log VersionLog promises until two of them overlap.*)
(***************************************************************************)
EXTENDS VersionHistory, SequenceTheorems, TLAPS

---------------------------------------------------------------------------
(* What a commit does to the table. *)

\* The UPDATE changes marks only, of the rows it saw.
LEMMA UnmarkLemma ==
  ASSUME table \in Seq(VersionRow), NEW n \in Nat
  PROVE  /\ Unmark(n) \in Seq(VersionRow)
         /\ Len(Unmark(n)) = Len(table)
         /\ \A i \in Positions :
              /\ Unmark(n)[i].num = table[i].num
              /\ Unmark(n)[i].files = table[i].files
              /\ Unmark(n)[i].current <=> (table[i].current /\ i > n)
  <1>1. Len(table) \in Nat /\ \A i \in Positions : table[i] \in VersionRow
    BY DEF Positions
  <1>2. ASSUME NEW i \in Positions
        PROVE  /\ Unmark(n)[i] \in VersionRow
               /\ Unmark(n)[i].num = table[i].num
               /\ Unmark(n)[i].files = table[i].files
               /\ Unmark(n)[i].current <=> (table[i].current /\ i > n)
    <2>1. i \in Nat /\ table[i] \in VersionRow
      BY <1>1 DEF Positions
    <2>2. CASE i <= n
      <3>1. Unmark(n)[i] = [table[i] EXCEPT !.current = FALSE]
        BY <2>2 DEF Unmark
      <3> DEFINE row == [table[i] EXCEPT !.current = FALSE]
      <3>2. /\ row \in VersionRow /\ row.num = table[i].num
            /\ row.files = table[i].files /\ ~row.current
        BY <2>1 DEF VersionRow
      <3>3. ~(i > n)
        BY <2>1, <2>2
      <3> HIDE DEF row
      <3> QED BY <3>1, <3>2, <3>3 DEF row
    <2>3. CASE i > n
      <3>1. Unmark(n)[i] = table[i]
        BY <2>1, <2>3 DEF Unmark
      <3> QED BY <2>1, <2>3, <3>1 DEF VersionRow
    <2> QED BY <2>1, <2>2, <2>3
  <1>3. Unmark(n) \in [1..Len(table) -> VersionRow]
    BY <1>2 DEF Unmark, Positions
  <1> QED BY <1>1, <1>2, <1>3, IsASeq, LenProperties

\* A commit appends the writer's row, current, and unmarks those it saw.
LEMMA CommitLemma ==
  ASSUME TypeOK, NEW w \in Writers, Commit(w), writer[w].num # 0
  PROVE  /\ table' \in Seq(VersionRow)
         /\ Len(table') = Len(table) + 1
         /\ table'[Len(table')].num = writer[w].num
         /\ table'[Len(table')].files \in writer[w].files
         /\ table'[Len(table')].current
         /\ \A i \in Positions :
              /\ table'[i].num = table[i].num
              /\ table'[i].files = table[i].files
              /\ table'[i].current <=> (table[i].current /\ i > writer[w].seen)
  <1>1. /\ writer[w].seen \in Nat /\ writer[w].num \in Nat \ {0}
        /\ writer[w].files \subseteq Files
    BY DEF TypeOK, WriterState
  <1>2. PICK f \in writer[w].files :
          table' = Append(Unmark(writer[w].seen),
                          [num |-> writer[w].num, files |-> f, current |-> TRUE])
    BY DEF Commit
  <1> DEFINE row == [num |-> writer[w].num, files |-> f, current |-> TRUE]
             old == Unmark(writer[w].seen)
  <1>3. row \in VersionRow
    BY <1>1 DEF VersionRow
  <1>4. old \in Seq(VersionRow) /\ Len(old) = Len(table) /\ Len(table) \in Nat
    BY <1>1, UnmarkLemma DEF TypeOK
  <1> HIDE DEF row, old
  <1>5. /\ table' \in Seq(VersionRow)
        /\ Len(table') = Len(table) + 1
        /\ table'[Len(table) + 1] = row
        /\ \A i \in Positions : table'[i] = old[i]
    <2>1. table' = Append(old, row)
      BY <1>2 DEF row, old
    <2> QED BY <1>3, <1>4, <2>1, AppendProperties DEF Positions
  <1>6. row.num = writer[w].num /\ row.files = f /\ row.current
    BY DEF row
  <1>7. \A i \in Positions :
           /\ old[i].num = table[i].num
           /\ old[i].files = table[i].files
           /\ old[i].current <=> (table[i].current /\ i > writer[w].seen)
    BY <1>1, UnmarkLemma DEF TypeOK, old
  <1> QED BY <1>5, <1>6, <1>7

---------------------------------------------------------------------------
(* Types and counting.  The numbers in the table are 1..k, and whoever has *)
(* counted holds one of 1..k+1, even if others have counted the same.      *)

Counted(w) == writer[w].pc \in {"marking", "waiting", "inserting"}

CountedTo(k) == /\ Numbers = 1..k
                /\ \A w \in Writers : Counted(w) => writer[w].num \in 1..(k + 1)

Inv == TypeOK /\ \E k \in Nat : CountedTo(k)

\* When the numbers are 1..k the next one is k + 1.
LEMMA NextNumberLemma ==
  ASSUME table \in Seq(VersionRow), NEW k \in Nat, Numbers = 1..k
  PROVE  NextNumber = k + 1
  <1>1. Len(table) \in Nat
    OBVIOUS
  <1>2. CASE table = <<>>
    <2>1. Numbers = {}
      BY <1>2 DEF Numbers, Positions
    <2>2. k = 0
      <3> SUFFICES ASSUME k # 0 PROVE FALSE
        OBVIOUS
      <3> QED BY <2>1, 1 \in 1..k
    <2> QED BY <1>2, <2>2 DEF NextNumber
  <1>3. CASE table # <<>>
    <2>1. 1 \in Positions
      BY <1>1, <1>3, EmptySeq DEF Positions
    <2>2. table[1].num \in 1..k
      BY <2>1 DEF Numbers
    <2>3. k \in Numbers /\ \A m \in Numbers : m <= k
      BY <2>2
    <2>4. Highest \in Numbers /\ \A m \in Numbers : m <= Highest
      BY <2>3 DEF Highest
    <2>5. Highest = k
      BY <2>3, <2>4
    <2> QED BY <1>3, <2>5 DEF NextNumber
  <1> QED BY <1>2, <1>3

\* The invariant holds for an empty table.
LEMMA InitInv == Init => Inv
  <1> SUFFICES ASSUME Init PROVE Inv
    OBVIOUS
  <1>1. NoWriter \in WriterState /\ NoWriter.pc = "idle"
    BY DEF NoWriter, WriterState
  <1>2. TypeOK
    <2>1. overlapped \in BOOLEAN
      BY Zenon DEF Init
    <2> QED BY <1>1, <2>1 DEF Init, TypeOK
  <1>3. CountedTo(0)
    BY <1>1 DEF Init, CountedTo, Counted, Numbers, Positions
  <1> QED BY <1>2, <1>3 DEF Inv

\* A step that leaves the table alone and gives w a number it may hold.
LEMMA CountedStill ==
  ASSUME NEW k \in Nat, CountedTo(k), NEW w \in Writers, table' = table,
         \A v \in Writers : v # w => writer'[v] = writer[v],
         Counted(w)' => writer'[w].num \in 1..(k + 1)
  PROVE  CountedTo(k)'
  BY DEF CountedTo, Counted, Numbers, Positions

\* A writer that begins keeps the invariant.
LEMMA BeginInv ==
  ASSUME Inv, NEW w \in Writers, Begin(w)
  PROVE  Inv'
  <1>1. PICK k \in Nat : CountedTo(k)
    BY DEF Inv
  <1>2. ASSUME NEW pc \in {"counting", "marking"}, NEW n \in Nat, NEW f \in Files,
               Start(w, pc, n, f), pc = "marking" => n = 1,
               build' \in {"pending", "ended"}, table' = table
        PROVE  Inv'
    <2> DEFINE s == [NoWriter EXCEPT !.pc = pc, !.num = n, !.files = {f}]
    <2>1. s \in WriterState /\ s.pc = pc /\ s.num = n
      BY DEF NoWriter, WriterState
    <2>2. writer' = [writer EXCEPT ![w] = s] /\ overlapped' \in BOOLEAN
      BY <1>2 DEF Start, Inv, TypeOK
    <2> HIDE DEF s
    <2>3. /\ writer' \in [Writers -> WriterState] /\ writer'[w] = s
          /\ \A v \in Writers : v # w => writer'[v] = writer[v]
      BY <2>1, <2>2 DEF Inv, TypeOK
    <2>4. CountedTo(k)'
      BY <1>1, <1>2, <2>1, <2>3, CountedStill DEF Counted
    <2> QED BY <1>2, <2>2, <2>3, <2>4 DEF Inv, TypeOK
  <1>3. ASSUME NEW f \in Files, Build(w, f) PROVE Inv'
    BY <1>2, <1>3 DEF Build
  <1>4. ASSUME NEW f \in Files, Iterate(w, f) PROVE Inv'
    BY <1>2, <1>4 DEF Iterate, Inv, TypeOK
  <1>5. ASSUME NEW n \in Numbers, Checkout(w, n) PROVE Inv'
    <2>1. PICK i \in Positions : Start(w, "counting", 0, table[i].files)
      BY <1>5 DEF Checkout
    <2>2. table[i] \in VersionRow
      BY ElementOfSeq DEF Inv, TypeOK, Positions
    <2>3. table[i].files \in Files
      BY <2>2 DEF VersionRow
    <2> QED BY <1>2, <1>5, <2>1, <2>3 DEF Checkout, Inv, TypeOK
  <1> QED BY <1>3, <1>4, <1>5 DEF Begin

\* A statement, or a roll-back, keeps the invariant.
LEMMA AdvanceInv ==
  ASSUME Inv, NEW w \in Writers, Advance(w) \/ Abort(w)
  PROVE  Inv'
  <1>1. PICK k \in Nat : CountedTo(k)
    BY DEF Inv
  <1>2. NoWriter \in WriterState /\ NoWriter.pc = "idle"
    BY DEF NoWriter, WriterState
  <1>3. writer[w] \in WriterState /\ Len(table) \in Nat
    BY DEF Inv, TypeOK
  <1>4. ASSUME NEW s \in WriterState, writer' = [writer EXCEPT ![w] = s],
               table' = table, build' = build, overlapped' = overlapped,
               s.pc \in {"marking", "waiting", "inserting"} => s.num \in 1..(k + 1)
        PROVE  Inv'
    <2>1. /\ writer' \in [Writers -> WriterState] /\ writer'[w] = s
          /\ \A v \in Writers : v # w => writer'[v] = writer[v]
      BY <1>4 DEF Inv, TypeOK
    <2>2. CountedTo(k)'
      BY <1>1, <1>4, <2>1, CountedStill DEF Counted
    <2> QED BY <1>4, <2>1, <2>2 DEF Inv, TypeOK
  <1>5. CASE Count(w)
    <2>1. NextNumber = k + 1
      BY <1>1, NextNumberLemma DEF Inv, TypeOK, CountedTo
    <2> DEFINE s == [writer[w] EXCEPT !.pc = "marking", !.num = k + 1]
    <2>2. k + 1 \in Nat /\ k + 1 \in 1..(k + 1)
      OBVIOUS
    <2>3. s \in WriterState
      BY <1>3, <2>2 DEF WriterState
    <2>4. s.num = k + 1
      BY <1>3 DEF WriterState
    <2>5. writer' = [writer EXCEPT ![w] = s]
      BY <1>5, <2>1 DEF Count, Inv, TypeOK
    <2> HIDE DEF s
    <2> QED BY <1>4, <1>5, <2>2, <2>3, <2>4, <2>5 DEF Count
  <1>6. CASE Mark(w) \/ Lock(w)
    <2>1. PICK seen \in Nat, held \in SUBSET Nat, i \in Nat :
            writer' = [writer EXCEPT ![w] =
              [writer[w] EXCEPT !.pc = "waiting", !.seen = seen, !.held = held, !.want = i]]
      <3>1. CASE Mark(w)
        <4>1. PICK i \in NextRow(Positions) :
                writer' = [writer EXCEPT ![w].pc = "waiting", ![w].seen = Len(table),
                                         ![w].want = i]
          BY <3>1 DEF Mark
        <4>2. i \in Nat
          BY DEF NextRow, Positions
        <4>3. writer[w].held \in SUBSET Nat
          BY <1>3 DEF WriterState
        <4>4. [writer[w] EXCEPT !.pc = "waiting", !.seen = Len(table), !.want = i]
                = [writer[w] EXCEPT !.pc = "waiting", !.seen = Len(table),
                                    !.held = writer[w].held, !.want = i]
          BY <1>3 DEF WriterState
        <4>5. writer' = [writer EXCEPT ![w] =
                [writer[w] EXCEPT !.pc = "waiting", !.seen = Len(table), !.want = i]]
          BY <4>1 DEF Inv, TypeOK
        <4> QED BY <1>3, <4>2, <4>3, <4>4, <4>5
      <3>2. CASE Lock(w)
        <4> DEFINE held == writer[w].held \cup {writer[w].want}
        <4>1. PICK i \in NextRow((1..writer[w].seen) \ held) :
                writer' = [writer EXCEPT ![w].held = held, ![w].want = i]
          BY <3>2 DEF Lock
        <4>2. i \in Nat /\ held \in SUBSET Nat /\ writer[w].seen \in Nat
          BY <1>3, <4>1 DEF NextRow, WriterState
        <4> HIDE DEF held
        <4>3. [writer[w] EXCEPT !.held = held, !.want = i]
                = [writer[w] EXCEPT !.pc = "waiting", !.seen = writer[w].seen,
                                    !.held = held, !.want = i]
          BY <1>3, <3>2 DEF Lock, WriterState
        <4>4. writer' = [writer EXCEPT ![w] = [writer[w] EXCEPT !.held = held, !.want = i]]
          BY <4>1 DEF Inv, TypeOK
        <4> QED BY <4>2, <4>3, <4>4
      <3> QED BY <1>6, <3>1, <3>2
    <2> DEFINE s == [writer[w] EXCEPT !.pc = "waiting", !.seen = seen, !.held = held, !.want = i]
    <2>2. s \in WriterState /\ s.num = writer[w].num
      BY <1>3 DEF WriterState
    <2>3. writer[w].num \in 1..(k + 1)
      BY <1>1, <1>6 DEF Mark, Lock, CountedTo, Counted
    <2>4. /\ writer' = [writer EXCEPT ![w] = s] /\ table' = table
          /\ build' = build /\ overlapped' = overlapped
      BY <1>6, <2>1 DEF Mark, Lock
    <2> HIDE DEF s
    <2> QED BY <1>4, <2>2, <2>3, <2>4
  <1>7. CASE Marked(w)
    <2> DEFINE s == [writer[w] EXCEPT !.pc = "inserting"]
    <2>1. s \in WriterState /\ s.num = writer[w].num
      BY <1>3 DEF WriterState
    <2>2. writer' = [writer EXCEPT ![w] = s]
      BY <1>7 DEF Marked, Inv, TypeOK
    <2>3. writer[w].num \in 1..(k + 1)
      BY <1>1, <1>7 DEF Marked, CountedTo, Counted
    <2> HIDE DEF s
    <2> QED BY <1>4, <1>7, <2>1, <2>2, <2>3 DEF Marked
  <1>8. CASE Abort(w)
    BY <1>2, <1>4, <1>8 DEF Abort
  <1>9. CASE Commit(w)
    <2>1. writer[w].num \in 1..(k + 1)
      BY <1>1, <1>9 DEF Commit, CountedTo, Counted
    <2>2. /\ table' \in Seq(VersionRow) /\ Len(table') = Len(table) + 1
          /\ table'[Len(table')].num = writer[w].num
          /\ \A i \in Positions : table'[i].num = table[i].num
      BY <1>9, <2>1, CommitLemma DEF Inv
    <2>3. Positions' = Positions \cup {Len(table')}
      BY <1>3, <2>2 DEF Positions
    <2>4. Numbers' = Numbers \cup {writer[w].num}
      BY <2>2, <2>3 DEF Numbers
    <2>5. /\ writer' \in [Writers -> WriterState] /\ writer'[w].pc = "idle"
          /\ \A v \in Writers : v # w => writer'[v] = writer[v]
      BY <1>2, <1>9 DEF Commit, Inv, TypeOK
    <2>6. CASE writer[w].num = k + 1
      <3>1. CountedTo(k + 1)'
        BY <1>1, <2>4, <2>5, <2>6 DEF CountedTo, Counted
      <3> QED BY <1>9, <2>2, <2>5, <3>1 DEF Commit, Inv, TypeOK
    <2>7. CASE writer[w].num # k + 1
      <3>1. CountedTo(k)'
        BY <1>1, <2>1, <2>4, <2>5, <2>7 DEF CountedTo, Counted
      <3> QED BY <1>9, <2>2, <2>5, <3>1 DEF Commit, Inv, TypeOK
    <2> QED BY <2>6, <2>7
  <1> QED BY <1>5, <1>6, <1>7, <1>8, <1>9 DEF Advance

\* Every step keeps the invariant.
LEMMA NextInv == Inv /\ [Next]_vars => Inv'
  <1> SUFFICES ASSUME Inv, [Next]_vars PROVE Inv'
    OBVIOUS
  <1>1. CASE BuildFailed
    BY <1>1 DEF BuildFailed, Inv, TypeOK, CountedTo, Counted, Numbers, Positions
  <1>2. CASE UNCHANGED vars
    BY <1>2 DEF vars, Inv, TypeOK, CountedTo, Counted, Numbers, Positions
  <1> QED BY <1>1, <1>2, BeginInv, AdvanceInv DEF Next

\* Rows, writers and their numbers keep their shape.
THEOREM TypeCorrect == Spec => []TypeOK
  <1>1. Inv => TypeOK
    BY DEF Inv
  <1> QED BY <1>1, InitInv, NextInv, PTL DEF Spec

\* However many writers count and commit at once, the numbers in the table
\* are those from 1 to the highest.
THEOREM NumbersHaveNoGaps == Spec => []NoGaps
  <1>1. Inv => NoGaps
    BY DEF Inv, CountedTo, NoGaps
  <1> QED BY <1>1, InitInv, NextInv, PTL DEF Spec

---------------------------------------------------------------------------
(* History, whoever writes it. *)

\* The table changes only by a commit.
LEMMA TableStep ==
  ASSUME Inv, [Next]_vars
  PROVE  \/ table' = table
         \/ \E w \in Writers : Commit(w) /\ writer[w].num # 0
  <1>1. ASSUME NEW w \in Writers, Commit(w) PROVE writer[w].num # 0
    <2>1. PICK k \in Nat : CountedTo(k)
      BY DEF Inv
    <2>2. writer[w].num \in 1..(k + 1)
      BY <1>1, <2>1 DEF Commit, CountedTo, Counted
    <2> QED BY <2>2
  <1>2. ASSUME NEW w \in Writers, Begin(w) PROVE table' = table
    BY <1>2 DEF Begin, Build, Iterate, Checkout
  <1>3. ASSUME NEW w \in Writers, Advance(w) \/ Abort(w), ~Commit(w)
        PROVE  table' = table
    BY <1>3 DEF Advance, Count, Mark, Lock, Marked, Abort
  <1>4. CASE BuildFailed
    BY <1>4 DEF BuildFailed
  <1>5. CASE UNCHANGED vars
    BY <1>5 DEF vars
  <1> QED BY <1>1, <1>2, <1>3, <1>4, <1>5 DEF Next

\* No concurrent UPDATE leaves the newest version unmarked.
THEOREM NewestIsCurrent == Spec => []LastIsCurrent
  <1>1. Init => LastIsCurrent
    BY DEF Init, LastIsCurrent
  <1>2. Inv /\ LastIsCurrent /\ [Next]_vars => LastIsCurrent'
    <2> SUFFICES ASSUME Inv, LastIsCurrent, [Next]_vars PROVE LastIsCurrent'
      OBVIOUS
    <2>1. CASE table' = table
      BY <2>1 DEF LastIsCurrent
    <2>2. CASE \E w \in Writers : Commit(w) /\ writer[w].num # 0
      BY <2>2, CommitLemma DEF Inv, LastIsCurrent
    <2> QED BY <2>1, <2>2, TableStep
  <1> QED BY <1>1, <1>2, InitInv, NextInv, PTL DEF Spec

\* A committed version is never lost, renumbered, rewritten or marked again.
THEOREM HistoryIsAppendOnly == Spec => AppendOnly
  <1> DEFINE Grows ==
        /\ Len(table') >= Len(table)
        /\ \A i \in Positions :
             /\ table'[i].num = table[i].num /\ table'[i].files = table[i].files
             /\ table'[i].current => table[i].current
  <1>1. Inv /\ [Next]_vars => [Grows]_vars
    <2> SUFFICES ASSUME Inv, [Next]_vars PROVE Grows
      OBVIOUS
    <2>1. Len(table) \in Nat
      BY DEF Inv, TypeOK
    <2>2. CASE table' = table
      BY <2>1, <2>2
    <2>3. CASE \E w \in Writers : Commit(w) /\ writer[w].num # 0
      BY <2>1, <2>3, CommitLemma DEF Inv
    <2> QED BY <2>2, <2>3, TableStep
  <1> QED BY <1>1, InitInv, NextInv, PTL DEF Spec, AppendOnly

---------------------------------------------------------------------------
(* Writers that do not overlap: whoever is at work is the only one. *)

Alone == \A v, w \in Writers : writer[v].pc # "idle" /\ writer[w].pc # "idle" => v = w

SerialInv ==
  /\ Alone
  /\ \A i \in Positions : table[i].num = i /\ (table[i].current <=> i = Len(table))
  /\ build = "pending" => table = <<>> /\ \A w \in Writers : writer[w].pc = "idle"
  /\ \A w \in Writers :
       /\ Counted(w) => writer[w].num = Len(table) + 1
       /\ writer[w].pc \in {"waiting", "inserting"} => writer[w].seen = Len(table)

ApartInv == ~overlapped => SerialInv

\* An empty table is a log.
LEMMA InitSerialInv == Init => SerialInv
  BY DEF Init, SerialInv, Alone, Positions, NoWriter, Counted

\* A commit appends the next number and leaves it the only current one.
LEMMA SerialCommit ==
  ASSUME Inv, SerialInv, NEW w \in Writers, Commit(w), writer[w].num # 0
  PROVE  SerialInv'
  <1>1. writer[w].num = Len(table) + 1 /\ writer[w].seen = Len(table)
    BY DEF Commit, SerialInv, Counted
  <1>2. Len(table) \in Nat
    BY DEF Inv, TypeOK
  <1>3. Positions' = Positions \cup {Len(table')} /\ Len(table') = Len(table) + 1
    BY <1>2, CommitLemma DEF Inv, Positions
  <1>4. table'[Len(table')].num = Len(table') /\ table'[Len(table')].current
    BY <1>1, <1>3, CommitLemma DEF Inv
  <1>5. ASSUME NEW i \in Positions
        PROVE  table'[i].num = i /\ ~table'[i].current /\ i # Len(table')
    BY <1>1, <1>2, <1>3, CommitLemma DEF Inv, SerialInv, Positions
  <1>6. \A v \in Writers : writer'[v].pc = "idle"
    BY DEF Commit, NoWriter, Inv, TypeOK, SerialInv, Alone
  <1>7. build # "pending"
    BY DEF Commit, SerialInv
  <1> QED BY <1>3, <1>4, <1>5, <1>6, <1>7 DEF SerialInv, Alone, Commit, Counted

\* The statement of the only writer at work, or its end, that changes no row.
LEMMA SerialStill ==
  ASSUME Inv, SerialInv, NEW w \in Writers,
         writer[w].pc # "idle" \/ \A v \in Writers : writer[v].pc = "idle",
         table' = table, build' = "ended" \/ (build' = build /\ writer[w].pc # "idle"),
         \A v \in Writers : v # w => writer'[v] = writer[v],
         Counted(w)' => writer'[w].num = Len(table) + 1,
         writer'[w].pc \in {"waiting", "inserting"} => writer'[w].seen = Len(table)
  PROVE  SerialInv'
  <1>1. \A v \in Writers : v # w => writer'[v].pc = "idle"
    BY DEF SerialInv, Alone
  <1>2. build' # "pending"
    BY DEF SerialInv
  <1>3. \A v \in Writers :
          /\ Counted(v)' => writer'[v].num = Len(table) + 1
          /\ writer'[v].pc \in {"waiting", "inserting"} => writer'[v].seen = Len(table)
    BY <1>1 DEF Counted
  <1> QED BY <1>1, <1>2, <1>3 DEF SerialInv, Alone, Positions

\* Beginning while nobody else is at work changes no row.
LEMMA SerialBegin ==
  ASSUME Inv, SerialInv, NEW w \in Writers, Begin(w), ~overlapped'
  PROVE  SerialInv'
  <1>1. ASSUME NEW pc \in {"counting", "marking"}, NEW n, NEW f,
               Start(w, pc, n, f), pc = "marking" => n = Len(table) + 1,
               build' = "ended", table' = table
        PROVE  SerialInv'
    <2>1. /\ writer'[w].pc = pc /\ writer'[w].num = n
          /\ \A v \in Writers : v # w => writer'[v] = writer[v]
      BY <1>1 DEF Start, Inv, TypeOK
    <2>2. \A v \in Writers : writer[v].pc = "idle"
      BY <1>1 DEF Start
    <2> QED BY <1>1, <2>1, <2>2, SerialStill DEF Counted
  <1>2. ASSUME NEW f \in Files, Build(w, f) PROVE SerialInv'
    <2>1. 1 = Len(table) + 1
      BY <1>2 DEF Build, SerialInv
    <2> QED BY <1>1, <1>2, <2>1 DEF Build
  <1>3. ASSUME NEW f \in Files, Iterate(w, f) PROVE SerialInv'
    BY <1>1, <1>3 DEF Iterate
  <1>4. ASSUME NEW n \in Numbers, Checkout(w, n) PROVE SerialInv'
    <2>1. build = "ended"
      BY <1>4 DEF Checkout, SerialInv, Positions, Inv, TypeOK
    <2> QED BY <1>1, <1>4, <2>1 DEF Checkout
  <1> QED BY <1>2, <1>3, <1>4 DEF Begin

\* Every step keeps the strengthening, until writers overlap.
LEMMA NextSerialInv ==
  ASSUME Inv, ApartInv, [Next]_vars
  PROVE  ApartInv'
  <1> SUFFICES ASSUME ~overlapped' PROVE SerialInv'
    BY DEF ApartInv
  <1>0. SerialInv
    <2>1. overlapped => overlapped'
      BY DEF Next, vars, Begin, Advance, Build, BuildFailed, Iterate, Checkout, Start,
             Count, Mark, Lock, Marked, Commit, Abort
    <2> QED BY <2>1 DEF ApartInv
  <1>1. ASSUME NEW w \in Writers, Advance(w) \/ Abort(w), ~Commit(w) PROVE SerialInv'
    <2>1. Numbers = 1..Len(table) /\ Len(table) \in Nat
      BY <1>0 DEF SerialInv, Numbers, Positions, Inv, TypeOK
    <2>2. NextNumber = Len(table) + 1
      BY <2>1, NextNumberLemma DEF Inv, TypeOK
    <2>3. /\ table' = table /\ build' = build /\ writer[w].pc # "idle"
          /\ \A v \in Writers : v # w => writer'[v] = writer[v]
      BY <1>1 DEF Advance, Count, Mark, Lock, Marked, Abort, Inv, TypeOK
    <2>4. CASE Count(w)
      <3>1. writer'[w].pc = "marking" /\ writer'[w].num = Len(table) + 1
        BY <2>2, <2>4 DEF Count, Inv, TypeOK, WriterState
      <3> QED BY <1>0, <2>3, <3>1, SerialStill DEF Counted
    <2>5. CASE Mark(w)
      <3>1. /\ writer'[w].pc = "waiting" /\ writer'[w].num = writer[w].num
            /\ writer'[w].seen = Len(table) /\ Counted(w)
        BY <2>5 DEF Mark, Inv, TypeOK, WriterState, Counted
      <3> QED BY <1>0, <2>3, <3>1, SerialStill DEF SerialInv
    <2>6. CASE Marked(w) \/ Lock(w)
      <3>1. /\ writer'[w].num = writer[w].num /\ writer'[w].seen = writer[w].seen
            /\ writer[w].pc = "waiting"
        BY <2>6 DEF Marked, Lock, Inv, TypeOK, WriterState
      <3> QED BY <1>0, <2>3, <3>1, SerialStill DEF SerialInv, Counted
    <2>7. CASE Abort(w)
      <3>1. writer'[w].pc = "idle"
        BY <2>7 DEF Abort, NoWriter, Inv, TypeOK
      <3> QED BY <1>0, <2>3, <3>1, SerialStill DEF Counted
    <2> QED BY <1>1, <2>4, <2>5, <2>6, <2>7 DEF Advance
  <1>2. CASE BuildFailed
    BY <1>0, <1>2 DEF BuildFailed, SerialInv, Alone, Positions, Counted
  <1>3. CASE UNCHANGED vars
    BY <1>0, <1>3 DEF vars, SerialInv, Alone, Positions, Counted
  <1>4. ASSUME NEW w \in Writers, Commit(w) PROVE SerialInv'
    <2>1. writer[w].num # 0
      BY <1>0, <1>4 DEF Commit, SerialInv, Counted, Inv, TypeOK
    <2> QED BY <1>0, <1>4, <2>1, SerialCommit
  <1> QED BY <1>0, <1>1, <1>2, <1>3, <1>4, SerialBegin DEF Next

\* Both invariants hold always.
LEMMA SerialSafe == Spec => [](Inv /\ ApartInv)
  <1>1. Init => ApartInv
    BY InitSerialInv DEF ApartInv
  <1> QED BY <1>1, InitInv, NextInv, NextSerialInv, PTL DEF Spec

\* As long as no two writers overlap, exactly the newest version is current.
THEOREM OneIsCurrent == Spec => []OneCurrentAlone
  <1>1. ApartInv => OneCurrentAlone
    BY DEF ApartInv, SerialInv, OneCurrentAlone, OneCurrent
  <1> QED BY <1>1, SerialSafe, PTL

\* As long as no two writers overlap, no number is given twice.
THEOREM NumbersAreUnique == Spec => [](~overlapped => UniqueNumbers)
  <1>1. ApartInv => (~overlapped => UniqueNumbers)
    BY DEF ApartInv, SerialInv, UniqueNumbers
  <1> QED BY <1>1, SerialSafe, PTL

---------------------------------------------------------------------------
(* Writers that do not overlap implement the log. *)

Mapped == /\ FilesByNumber \in Seq(Files)
          /\ Len(FilesByNumber) = Len(table)
          /\ \A n \in 1..Len(table) : FilesByNumber[n] = table[n].files
          /\ CurrentNumber = Len(table)

\* The invariants determine what the mapping to VersionLog yields.
LEMMA MappedLog == Inv /\ SerialInv => Mapped
  <1> SUFFICES ASSUME Inv, SerialInv PROVE Mapped
    OBVIOUS
  <1>1. Len(table) \in Nat /\ \A i \in Positions : table[i] \in VersionRow
    BY ElementOfSeq DEF Inv, TypeOK, Positions
  <1>2. ASSUME NEW n \in 1..Len(table)
        PROVE  FilesByNumber[n] = table[n].files /\ table[n].files \in Files
    <2>1. n \in Positions /\ table[n].num = n
      BY DEF Positions, SerialInv
    <2>2. (CHOOSE i \in Positions : table[i].num = n) = n
      BY <2>1 DEF SerialInv
    <2>3. table[n].files \in Files
      BY <1>1, <2>1 DEF VersionRow
    <2> QED BY <2>2, <2>3 DEF FilesByNumber
  <1>3. FilesByNumber \in [1..Len(table) -> Files]
    BY <1>2 DEF FilesByNumber
  <1>4. FilesByNumber \in Seq(Files) /\ Len(FilesByNumber) = Len(table)
    <2>1. FilesByNumber \in Seq(Files)
      BY <1>1, <1>3, SeqDef
    <2> QED BY <1>1, <1>3, <2>1, LenProperties
  <1>5. CurrentNumber = Len(table)
    <2>1. CASE table = <<>>
      BY <2>1 DEF CurrentNumber
    <2>2. CASE table # <<>>
      <3> DEFINE Good(n) == /\ \E i \in Numbered(n) : table[i].current
                            /\ \A i \in Positions : table[i].current => table[i].num <= n
      <3>1. Len(table) \in Positions
        BY <1>1, <2>2, EmptySeq DEF Positions, Inv, TypeOK
      <3>2. Len(table) \in Numbers /\ Good(Len(table))
        BY <1>1, <3>1 DEF SerialInv, Numbers, Numbered, Positions
      <3>3. \A n \in Numbers : Good(n) => n = Len(table)
        BY DEF SerialInv, Numbers, Numbered
      <3>4. (CHOOSE n \in Numbers : Good(n)) = Len(table)
        <4> HIDE DEF Good
        <4> QED BY <3>2, <3>3
      <3> QED BY <2>2, <3>4 DEF CurrentNumber
    <2> QED BY <2>1, <2>2
  <1> QED BY <1>2, <1>4, <1>5 DEF Mapped

\* A commit is a Save of the log.
LEMMA MappedCommit ==
  ASSUME Inv, SerialInv, Inv', SerialInv',
         NEW w \in Writers, Commit(w), writer[w].num # 0
  PROVE  \E f \in Files : Log!Save(f)
  <1>1. Len(table) \in Nat /\ Len(table') = Len(table) + 1
    BY CommitLemma DEF Inv, TypeOK
  <1>2. Mapped
    BY MappedLog
  <1>3. Mapped'
    BY MappedLog, PTL
  <1> DEFINE f == table'[Len(table')].files
  <1>4. f \in Files
    BY CommitLemma DEF Inv, TypeOK, WriterState
  <1>5. \A n \in 1..Len(table) : FilesByNumber'[n] = FilesByNumber[n]
    BY <1>1, <1>2, <1>3, CommitLemma DEF Inv, Positions, Mapped
  <1>6. FilesByNumber'[Len(table) + 1] = f
    BY <1>1, <1>3 DEF Mapped
  <1> HIDE DEF f
  <1> DEFINE old == FilesByNumber
             new == FilesByNumber'
  <1>7. new = Append(old, f)
    <2>1. old \in Seq(Files) /\ new \in Seq(Files) /\ Len(new) = Len(old) + 1
      BY <1>1, <1>2, <1>3 DEF Mapped
    <2>2. \A n \in 1..Len(old) : new[n] = old[n]
      BY <1>2, <1>5 DEF Mapped
    <2>3. new[Len(old) + 1] = f
      BY <1>2, <1>6 DEF Mapped
    <2> HIDE DEF old, new
    <2>4. /\ Append(old, f) \in Seq(Files)
          /\ Len(Append(old, f)) = Len(new)
          /\ \A n \in 1..Len(new) : Append(old, f)[n] = new[n]
      BY <1>4, <2>1, <2>2, <2>3, AppendProperties
    <2> QED BY <2>1, <2>4, SeqEqual
  <1> QED BY <1>1, <1>2, <1>3, <1>4, <1>7 DEF Log!Save, Mapped

\* As long as no two of any number of writers overlap, the store is the
\* promised log: every version is found under its number, the one shown is the
\* last, and saving and going back both append (store.py:15-67, 90-116).
THEOREM StoreImplementsLog == Spec => ImplementsLog
  <1>1. Init => Log!Init
    <2> SUFFICES ASSUME Init PROVE Log!Init
      OBVIOUS
    <2>1. FilesByNumber = <<>> /\ CurrentNumber = 0
      <3>1. Inv /\ SerialInv /\ Len(table) = 0
        BY InitInv, InitSerialInv DEF Init
      <3> QED BY <3>1, MappedLog, EmptySeq DEF Mapped
    <2> QED BY <2>1 DEF Log!Init
  <1>2. Inv /\ ApartInv /\ Inv' /\ ApartInv' /\ [Next]_vars
           => [overlapped' \/ Log!Next]_<<FilesByNumber, CurrentNumber>>
    <2> SUFFICES ASSUME Inv, ApartInv, Inv', ApartInv', [Next]_vars, ~overlapped'
                 PROVE  [Log!Next]_<<FilesByNumber, CurrentNumber>>
      OBVIOUS
    <2>1. CASE table' = table
      BY <2>1 DEF FilesByNumber, CurrentNumber, Positions, Numbers, Numbered
    <2>2. ASSUME NEW w \in Writers, Commit(w), writer[w].num # 0
          PROVE  Log!Next
      <3>1. ~overlapped
        BY <2>2 DEF Commit
      <3> QED BY <2>2, <3>1, MappedCommit DEF Log!Next, ApartInv
    <2> QED BY <2>1, <2>2, TableStep
  <1> QED BY <1>1, <1>2, SerialSafe, PTL DEF Spec, ImplementsLog
===========================================================================
