-------------------------- MODULE KeyedRowsProofs --------------------------
(***************************************************************************)
(* Proofs about KeyedRows, for any number of handlers, keys, values and    *)
(* rows: what holds of the tables however their transactions interleave.   *)
(***************************************************************************)
EXTENDS KeyedRows, TLAPS

Storing(h) == handler[h].op = "store"
Reading(h) == handler[h].op = "read"

\* Ids are never used again, and a row keeps its key.
IdsKnown ==
    /\ \A r \in rows : r.id \in used
    /\ \A h \in Handlers : Storing(h) \/ Reading(h) => \A f \in handler[h].found : f.id \in used

IdsDistinct == \A r, s \in rows : r.id = s.id => r = s

FoundKeepsKey ==
    \A h \in Handlers : Storing(h) \/ Reading(h) =>
        \A f \in handler[h].found, r \in rows : f.id = r.id => f.key = r.key

Shape == TypeOK /\ IdsKnown /\ IdsDistinct /\ FoundKeepsKey

\* A store found at most one row, of its key.
FoundOne ==
    \A h \in Handlers : Storing(h) =>
        /\ \A f, g \in handler[h].found : f = g
        /\ \A f \in handler[h].found : f.key = handler[h].key

\* Unless stores of the key overlapped, one is in progress at a time, and
\* nobody has inserted a row since it found none.
StoresAlone ==
    \A g, h \in Handlers : \A k \in Keys :
        Stores(g, k) /\ Stores(h, k) /\ ~overlapped[k] => g = h

NoneSince ==
    \A h \in Handlers : \A k \in Keys :
        Stores(h, k) /\ ~overlapped[k] /\ handler[h].found = {} => RowsOf(k) = {}

\* A row of the key holds what a rival stored, or what the store found.
RivalsKnown ==
    \A h \in Handlers : Storing(h) =>
        \A r \in RowsOf(handler[h].key) :
            \/ r.value \in handler[h].rivals
            \/ \E f \in handler[h].found : f.id = r.id /\ f.value = r.value

\* What a read will write back is not more than the reads there were, and
\* unless reads of the row overlapped it is the only one.
Reads(h, i) == Reading(h) /\ \E f \in handler[h].found : f.id = i

ReadsAlone ==
    \A g, h \in Handlers : \A i \in Ids : Reads(g, i) /\ Reads(h, i) /\ ~raced[i] => g = h

ReadsFresh ==
    \A h \in Handlers : Reading(h) =>
        \A f \in handler[h].found :
            /\ f.count <= reads[f.id]
            /\ ~raced[f.id] => f.count = reads[f.id]

NeverRead == \A i \in Ids \ used : reads[i] = 0

IInv ==
    /\ Shape
    /\ FoundOne /\ StoresAlone /\ NoneSince /\ OneRowPerKey
    /\ RivalsKnown /\ LatestIsStored
    /\ ReadsAlone /\ ReadsFresh /\ NeverRead /\ ReadsAreCounted

---------------------------------------------------------------------------
(* What the actions do to the rows *)

\* A store that updates keeps every row, but for the values of those it found.
LEMMA UpdateFact ==
    ASSUME TypeOK, NEW h \in Handlers, Storing(h), Update(h), ~Gone(h)
    PROVE  /\ \A q \in rows' : \E r \in rows :
                /\ q \in Row /\ q.id = r.id /\ q.key = r.key /\ q.count = r.count
                /\ \/ q = r /\ \A f \in handler[h].found : f.id # r.id
                   \/ q.value = Written(h, r) /\ \E f \in handler[h].found : f.id = r.id
           /\ \A r \in rows : \E q \in rows' : q.id = r.id /\ q.key = r.key
<1> DEFINE New(r) == [r EXCEPT !.value = Written(h, r)]
<1>1. rows' = (rows \ StillThere(handler[h].found)) \cup
                  {New(r) : r \in StillThere(handler[h].found)}
      BY DEF Update, Gone
<1>2. handler[h].value \in Values
      BY DEF TypeOK, Handler, Storing
<1>3. \A r \in rows : /\ New(r) \in Row /\ New(r).id = r.id /\ New(r).key = r.key
                      /\ New(r).count = r.count /\ New(r).value = Written(h, r)
      BY <1>2 DEF TypeOK, Row, Written
<1>4. ASSUME NEW q \in rows'
      PROVE  \E r \in rows :
                /\ q \in Row /\ q.id = r.id /\ q.key = r.key /\ q.count = r.count
                /\ \/ q = r /\ \A f \in handler[h].found : f.id # r.id
                   \/ q.value = Written(h, r) /\ \E f \in handler[h].found : f.id = r.id
  <2>1. CASE q \in rows \ StillThere(handler[h].found)
        BY <2>1 DEF StillThere, TypeOK
  <2>2. CASE \E r \in StillThere(handler[h].found) : q = New(r)
        BY <1>3, <2>2 DEF StillThere
  <2> QED BY <1>1, <2>1, <2>2
<1>5. ASSUME NEW r \in rows PROVE \E q \in rows' : q.id = r.id /\ q.key = r.key
      BY <1>1, <1>3
<1> QED BY <1>4, <1>5

\* A read that commits keeps every row, but for the counts of those it found.
LEMMA CountFact ==
    ASSUME TypeOK, NEW h \in Handlers, CountReads(h), ~Gone(h)
    PROVE  /\ \A q \in rows' : \E r \in rows :
                /\ q \in Row /\ q.id = r.id /\ q.key = r.key /\ q.value = r.value
                /\ \/ q = r /\ \A f \in handler[h].found : f.id # r.id
                   \/ \E f \in handler[h].found : f.id = r.id /\ q.count = f.count + 1
           /\ \A r \in rows : \E q \in rows' : q.id = r.id /\ q.key = r.key
<1> DEFINE New(r) == [r EXCEPT !.count = Counted(h, r)]
<1>1. rows' = (rows \ StillThere(handler[h].found)) \cup
                  {New(r) : r \in StillThere(handler[h].found)}
      BY DEF CountReads, Gone
<1>2. handler[h].found \subseteq Row
      BY DEF TypeOK, Handler, CountReads
<1>3. ASSUME NEW r \in StillThere(handler[h].found)
      PROVE  /\ r \in rows
             /\ New(r) \in Row /\ New(r).id = r.id /\ New(r).key = r.key /\ New(r).value = r.value
             /\ \E f \in handler[h].found : f.id = r.id /\ New(r).count = f.count + 1
  <2> DEFINE g == CHOOSE f \in handler[h].found : f.id = r.id
  <2>1. g \in handler[h].found /\ g.id = r.id /\ Counted(h, r) = g.count + 1
        BY DEF StillThere, Counted
  <2>2. g.count \in Nat /\ r \in Row /\ r \in rows
        BY <1>2, <2>1 DEF StillThere, TypeOK, Row
  <2>3. Counted(h, r) \in Nat
        BY <2>1, <2>2
  <2> HIDE DEF g
  <2> QED BY <2>1, <2>2, <2>3 DEF Row
<1>4. ASSUME NEW q \in rows'
      PROVE  \E r \in rows :
                /\ q \in Row /\ q.id = r.id /\ q.key = r.key /\ q.value = r.value
                /\ \/ q = r /\ \A f \in handler[h].found : f.id # r.id
                   \/ \E f \in handler[h].found : f.id = r.id /\ q.count = f.count + 1
  <2>1. CASE q \in rows \ StillThere(handler[h].found)
        BY <2>1 DEF StillThere, TypeOK
  <2>2. CASE \E r \in StillThere(handler[h].found) : q = New(r)
        BY <1>3, <2>2
  <2> QED BY <1>1, <2>1, <2>2
<1>5. ASSUME NEW r \in rows PROVE \E q \in rows' : q.id = r.id /\ q.key = r.key
      BY <1>1, <1>3
<1> QED BY <1>4, <1>5

\* An acknowledged store is over, and the others learn that it may be later.
LEMMA AcknowledgeFact ==
    ASSUME TypeOK, NEW h \in Handlers, Storing(h), Acknowledge(h)
    PROVE  /\ handler' \in [Handlers -> Handler]
           /\ handler'[h] = None
           /\ \A g \in Handlers : g # h =>
                /\ handler'[g].op = handler[g].op
                /\ ~Storing(g) => handler'[g] = handler[g]
                /\ Storing(g) => /\ handler'[g].key = handler[g].key
                                 /\ handler'[g].value = handler[g].value
                                 /\ handler'[g].found = handler[g].found
                                 /\ handler'[g].rivals =
                                      IF handler[g].key = handler[h].key
                                      THEN handler[g].rivals \cup {handler[h].value}
                                      ELSE handler[g].rivals
<1>1. handler[h].key \in Keys /\ handler[h].value \in Values
      BY DEF TypeOK, Handler, Storing
<1>2. handler'[h] = None
      BY DEF Acknowledge
<1>3. ASSUME NEW g \in Handlers \ {h}, ~Storing(g) PROVE handler'[g] = handler[g]
      BY <1>3 DEF Acknowledge, Stores, Storing
<1>4. ASSUME NEW g \in Handlers \ {h}, Storing(g)
      PROVE  /\ handler'[g] \in Handler /\ handler'[g].op = handler[g].op
             /\ handler'[g].key = handler[g].key
             /\ handler'[g].value = handler[g].value
             /\ handler'[g].found = handler[g].found
             /\ handler'[g].rivals = IF handler[g].key = handler[h].key
                                     THEN handler[g].rivals \cup {handler[h].value}
                                     ELSE handler[g].rivals
  <2>1. handler[g] \in [op : {"store"}, key : Keys, value : Values, found : SUBSET Row,
                        rivals : SUBSET Values]
        BY <1>4 DEF TypeOK, Handler, Storing
  <2>2. CASE handler[g].key = handler[h].key
    <3>1. handler'[g] = [handler[g] EXCEPT !.rivals = @ \cup {handler[h].value}]
          BY <1>4, <2>2 DEF Acknowledge, Stores, Storing
    <3> QED BY <1>1, <2>1, <2>2, <3>1 DEF Handler
  <2>3. CASE handler[g].key # handler[h].key
    <3>1. handler'[g] = handler[g]
          BY <1>4, <2>3 DEF Acknowledge, Stores, Storing
    <3> QED BY <2>1, <2>3, <3>1 DEF Handler
  <2> QED BY <2>2, <2>3
<1>5. ASSUME NEW g \in Handlers PROVE handler'[g] \in Handler
  <2>1. CASE g = h
        BY <1>2, <2>1 DEF Handler, None
  <2>2. CASE g # h /\ ~Storing(g)
        BY <1>3, <2>2 DEF TypeOK
  <2>3. CASE g # h /\ Storing(g)
        BY <1>4, <2>3
  <2> QED BY <2>1, <2>2, <2>3
<1>6. handler' = [g \in Handlers |-> handler'[g]]
      BY DEF Acknowledge
<1>7. handler' \in [Handlers -> Handler]
      BY <1>5, <1>6
<1> QED BY <1>2, <1>3, <1>4, <1>7

\* What the others found stays what they found.
LEMMA FoundStays ==
    ASSUME TypeOK, NEW h \in Handlers, Storing(h), Acknowledge(h),
           NEW g \in Handlers, (Storing(g) \/ Reading(g))'
    PROVE  /\ g # h /\ (Storing(g) \/ Reading(g))
           /\ handler'[g].found = handler[g].found
<1>1. handler'[h] = None
      BY AcknowledgeFact
<1>2. g # h
      BY <1>1 DEF Storing, Reading, None
<1>3. handler'[g].op = handler[g].op
      BY <1>2, AcknowledgeFact
<1> QED BY <1>2, <1>3, AcknowledgeFact DEF Storing, Reading

LEMMA StoreStays ==
    ASSUME TypeOK, NEW h \in Handlers, Storing(h), Acknowledge(h),
           NEW g \in Handlers, Storing(g)'
    PROVE  /\ g # h /\ Storing(g)
           /\ handler'[g].key = handler[g].key
           /\ handler'[g].found = handler[g].found
           /\ handler'[g].rivals = IF handler[g].key = handler[h].key
                                   THEN handler[g].rivals \cup {handler[h].value}
                                   ELSE handler[g].rivals
<1>1. handler'[h] = None
      BY AcknowledgeFact
<1>2. g # h
      BY <1>1 DEF Storing, None
<1>3. handler'[g].op = handler[g].op
      BY <1>2, AcknowledgeFact
<1>4. Storing(g)
      BY <1>3 DEF Storing
<1> QED BY <1>2, <1>4, AcknowledgeFact

\* The handler that raises is done, and nothing else changes.
LEMMA RaiseFact ==
    ASSUME TypeOK, NEW h \in Handlers, Raise(h)
    PROVE  /\ handler' \in [Handlers -> Handler]
           /\ handler'[h] = None /\ \A g \in Handlers \ {h} : handler'[g] = handler[g]
           /\ UNCHANGED <<rows, used, acked, latest, overlapped, reads, raced>>
BY DEF TypeOK, Raise, None, Handler, history

\* A step is one of these.
LEMMA Steps ==
    ASSUME TypeOK, [Next]_vars
    PROVE  \/ \E h \in Handlers, k \in Keys, v \in Values : Lookup(h, k, v)
           \/ \E h \in Handlers : Raise(h)
           \/ \E h \in Handlers : Storing(h) /\ Insert(h) /\ ~Taken(handler[h].key)
           \/ \E h \in Handlers : Storing(h) /\ Update(h) /\ ~Gone(h)
           \/ \E h \in Handlers, S \in SUBSET Memories : GetRelevant(h, S)
           \/ \E h \in Handlers : Reading(h) /\ CountReads(h) /\ ~Gone(h)
           \/ \E S \in SUBSET rows : Delete(S)
           \/ UNCHANGED vars
BY DEF Next, Insert, Update, CountReads, Storing, Reading, DeleteProviderKey,
       DeleteMemory, ClearAll, Memories, RowsOf

---------------------------------------------------------------------------
(* Ids and keys of the rows *)

LEMMA ShapeStep == Shape /\ [Next]_vars => Shape'
<1> SUFFICES ASSUME Shape, [Next]_vars PROVE Shape'
    OBVIOUS
<1>0. TypeOK
      BY DEF Shape
<1>1. ASSUME NEW h \in Handlers, NEW k \in Keys, NEW v \in Values, Lookup(h, k, v)
      PROVE  Shape'
  <2>1. /\ handler' \in [Handlers -> Handler]
        /\ handler'[h].found \subseteq rows
        /\ \A g \in Handlers \ {h} : handler'[g] = handler[g]
        BY <1>0, <1>1 DEF Lookup, TypeOK, RowsOf, Handler
  <2>2. TypeOK'
        BY <1>0, <1>1, <2>1 DEF Lookup, TypeOK
  <2> QED BY <1>1, <2>1, <2>2
          DEF Shape, IdsKnown, IdsDistinct, FoundKeepsKey, Lookup, Storing, Reading
<1>2. ASSUME NEW h \in Handlers, Raise(h) PROVE Shape'
  <2>1. TypeOK'
        BY <1>0, <1>2, RaiseFact DEF TypeOK
  <2> QED BY <1>0, <1>2, <2>1, RaiseFact
          DEF Shape, IdsKnown, IdsDistinct, FoundKeepsKey, Storing, Reading, None
<1>3. ASSUME NEW h \in Handlers, Storing(h), Insert(h), ~Taken(handler[h].key) PROVE Shape'
  <2>1. PICK i \in Ids \ used :
          /\ rows' = rows \cup {[id |-> i, key |-> handler[h].key,
                                 value |-> handler[h].value, count |-> 0]}
          /\ used' = used \cup {i}
        BY <1>3 DEF Insert
  <2>2. /\ Acknowledge(h) /\ UNCHANGED <<overlapped, reads, raced>>
        /\ handler[h].key \in Keys /\ handler[h].value \in Values
        BY <1>0, <1>3 DEF Insert, TypeOK, Handler, Storing
  <2>3. rows' \subseteq Row /\ used' \subseteq Ids
        BY <1>0, <2>1, <2>2 DEF TypeOK, Row
  <2>4. /\ acked' \in [Keys -> BOOLEAN]
        /\ latest' \in [Keys -> SUBSET Values]
    <3>1. {handler[h].value} \cup handler[h].rivals \in SUBSET Values
          BY <1>0, <1>3 DEF TypeOK, Handler, Storing
    <3> QED BY <1>0, <2>2, <3>1 DEF TypeOK, Acknowledge
  <2>5. TypeOK'
        BY <1>0, <1>3, <2>2, <2>3, <2>4, AcknowledgeFact DEF TypeOK
  <2>6. IdsKnown'
        BY <1>0, <1>3, <2>1, <2>2, FoundStays DEF Shape, IdsKnown
  <2>7. FoundKeepsKey'
    <3> SUFFICES ASSUME NEW g \in Handlers, (Storing(g) \/ Reading(g))',
                        NEW f \in handler'[g].found, NEW r \in rows', f.id = r.id
                 PROVE  f.key = r.key
        BY DEF FoundKeepsKey
    <3>1. f \in handler[g].found /\ (Storing(g) \/ Reading(g))
          BY <1>0, <1>3, <2>2, FoundStays
    <3>2. f.id \in used
          BY <3>1 DEF Shape, IdsKnown
    <3> QED BY <2>1, <3>1, <3>2 DEF Shape, FoundKeepsKey
  <2>8. IdsDistinct'
        BY <2>1 DEF Shape, IdsKnown, IdsDistinct
  <2> QED BY <2>5, <2>6, <2>7, <2>8 DEF Shape
<1>4. ASSUME NEW h \in Handlers, Storing(h), Update(h), ~Gone(h) PROVE Shape'
  <2>1. Acknowledge(h) /\ UNCHANGED <<used, overlapped, reads, raced>>
        BY <1>4 DEF Update
  <2>2. /\ acked' \in [Keys -> BOOLEAN]
        /\ latest' \in [Keys -> SUBSET Values]
    <3>1. /\ {handler[h].value} \cup handler[h].rivals \in SUBSET Values
          /\ handler[h].key \in Keys
          BY <1>0, <1>4 DEF TypeOK, Handler, Storing
    <3> QED BY <1>0, <2>1, <3>1 DEF TypeOK, Acknowledge
  <2>3. rows' \subseteq Row
        BY <1>0, <1>4, UpdateFact
  <2>4. TypeOK'
        BY <1>0, <1>4, <2>1, <2>2, <2>3, AcknowledgeFact DEF TypeOK
  <2>5. IdsKnown' /\ FoundKeepsKey'
    <3>1. \A q \in rows' : \E r \in rows : q.id = r.id /\ q.key = r.key
          BY <1>0, <1>4, UpdateFact
    <3> QED BY <1>0, <1>4, <2>1, <3>1, FoundStays DEF Shape, IdsKnown, FoundKeepsKey
  <2>6. IdsDistinct'
    <3> DEFINE New(r) == [r EXCEPT !.value = Written(h, r)]
    <3>1. rows' = (rows \ StillThere(handler[h].found)) \cup
                      {New(r) : r \in StillThere(handler[h].found)}
          BY <1>4 DEF Update, Gone
    <3>2. \A r \in rows : New(r).id = r.id
          BY <1>0 DEF TypeOK, Row
    <3>3. \A r \in StillThere(handler[h].found) : r \in rows
          BY DEF StillThere
    <3> HIDE DEF New
    <3> QED BY <3>1, <3>2, <3>3 DEF Shape, IdsDistinct
  <2> QED BY <2>4, <2>5, <2>6 DEF Shape
<1>5. ASSUME NEW h \in Handlers, NEW S \in SUBSET Memories, GetRelevant(h, S) PROVE Shape'
  <2>1. /\ handler' \in [Handlers -> Handler]
        /\ handler'[h].found \subseteq rows
        /\ \A g \in Handlers \ {h} : handler'[g] = handler[g]
        BY <1>0, <1>5 DEF GetRelevant, TypeOK, Memories, Handler
  <2>2. TypeOK'
    <3>1. raced' \in [Ids -> BOOLEAN]
          BY <1>0, <1>5 DEF GetRelevant, TypeOK
    <3> QED BY <1>0, <1>5, <2>1, <3>1 DEF GetRelevant, TypeOK
  <2> QED BY <1>5, <2>1, <2>2
          DEF Shape, IdsKnown, IdsDistinct, FoundKeepsKey, GetRelevant, Storing, Reading
<1>6. ASSUME NEW h \in Handlers, Reading(h), CountReads(h), ~Gone(h) PROVE Shape'
  <2>1. /\ handler' = [handler EXCEPT ![h] = None]
        /\ UNCHANGED <<used, acked, latest, overlapped, raced>>
        /\ reads' \in [Ids -> Nat]
        BY <1>0, <1>6 DEF CountReads, TypeOK
  <2>2. rows' \subseteq Row
        BY <1>0, <1>6, CountFact
  <2>3. handler' \in [Handlers -> Handler]
        BY <1>0, <2>1 DEF TypeOK, Handler, None
  <2>4. TypeOK'
        BY <1>0, <2>1, <2>2, <2>3 DEF TypeOK
  <2>5. IdsKnown' /\ FoundKeepsKey'
    <3>1. \A q \in rows' : \E r \in rows : q.id = r.id /\ q.key = r.key
          BY <1>0, <1>6, CountFact
    <3>2. handler'[h] = None /\ \A g \in Handlers \ {h} : handler'[g] = handler[g]
          BY <1>0, <2>1 DEF TypeOK
    <3> QED BY <2>1, <3>1, <3>2 DEF Shape, IdsKnown, FoundKeepsKey, Storing, Reading, None
  <2>6. IdsDistinct'
    <3> DEFINE New(r) == [r EXCEPT !.count = Counted(h, r)]
    <3>1. rows' = (rows \ StillThere(handler[h].found)) \cup
                      {New(r) : r \in StillThere(handler[h].found)}
          BY <1>6 DEF CountReads, Gone
    <3>2. \A r \in rows : New(r).id = r.id
          BY <1>0 DEF TypeOK, Row
    <3>3. \A r \in StillThere(handler[h].found) : r \in rows
          BY DEF StillThere
    <3> HIDE DEF New
    <3> QED BY <3>1, <3>2, <3>3 DEF Shape, IdsDistinct
  <2> QED BY <2>4, <2>5, <2>6 DEF Shape
<1>7. ASSUME NEW S \in SUBSET rows, Delete(S) PROVE Shape'
  <2>1. TypeOK'
        BY <1>0, <1>7 DEF Delete, TypeOK
  <2> QED BY <1>7, <2>1
          DEF Delete, Shape, IdsKnown, IdsDistinct, FoundKeepsKey, Storing, Reading
<1>8. CASE UNCHANGED vars
      BY <1>8 DEF vars, history, Shape, TypeOK, IdsKnown, IdsDistinct, FoundKeepsKey,
                  Storing, Reading
<1> QED BY <1>0, <1>1, <1>2, <1>3, <1>4, <1>5, <1>6, <1>7, <1>8, Steps

---------------------------------------------------------------------------
(* One row per key *)

KeysInv == FoundOne /\ StoresAlone /\ NoneSince /\ OneRowPerKey

\* Steps after which every row and every store in progress was there before.
LEMMA KeysKept ==
    ASSUME KeysInv, overlapped' = overlapped,
           \A q \in rows' : \E r \in rows : q.id = r.id /\ q.key = r.key,
           \A q, r \in rows' : q.id = r.id => q = r,
           \A g \in Handlers : Storing(g)' =>
               Storing(g) /\ handler'[g].key = handler[g].key
                          /\ handler'[g].found = handler[g].found
    PROVE  KeysInv'
<1>1. FoundOne' /\ StoresAlone'
      BY DEF KeysInv, FoundOne, StoresAlone, Stores, Storing
<1>2. NoneSince'
      BY DEF KeysInv, NoneSince, Stores, Storing, RowsOf
<1>3. OneRowPerKey'
  <2> SUFFICES ASSUME NEW q \in rows', NEW s \in rows', q.key = s.key,
                      q.key \in Constrained \/ ~overlapped[q.key]
               PROVE  q = s
      BY DEF OneRowPerKey
  <2>1. PICK a \in rows : q.id = a.id /\ q.key = a.key
        OBVIOUS
  <2>2. PICK b \in rows : s.id = b.id /\ s.key = b.key
        OBVIOUS
  <2>3. a.key = b.key /\ (a.key \in Constrained \/ ~overlapped[a.key])
        BY <2>1, <2>2
  <2>4. a = b
        BY <2>3 DEF KeysInv, OneRowPerKey
  <2> QED BY <2>1, <2>2, <2>4
<1> QED BY <1>1, <1>2, <1>3 DEF KeysInv

LEMMA KeysStep == Shape /\ KeysInv /\ [Next]_vars => KeysInv'
<1> SUFFICES ASSUME Shape, KeysInv, [Next]_vars PROVE KeysInv'
    OBVIOUS
<1>0. TypeOK /\ Shape'
      BY ShapeStep DEF Shape
<1>1. ASSUME NEW h \in Handlers, NEW k \in Keys, NEW v \in Values, Lookup(h, k, v)
      PROVE  KeysInv'
  <2>1. /\ handler'[h].op = "store" /\ handler'[h].key = k /\ handler'[h].found = RowsOf(k)
        /\ \A g \in Handlers : g # h => handler'[g] = handler[g]
        /\ rows' = rows
        /\ \A r, s \in RowsOf(k) : r = s
        BY <1>0, <1>1 DEF Lookup, TypeOK
  <2>2. \A j \in Keys :
            overlapped'[j] <=> overlapped[j] \/ (j = k /\ \E g \in Handlers : Stores(g, k))
        BY <1>0, <1>1 DEF Lookup, TypeOK
  <2>3. ~Storing(h)
        BY <1>1 DEF Lookup, None, Storing
  <2>4. FoundOne'
        BY <2>1 DEF KeysInv, FoundOne, Storing, RowsOf
  <2>5. StoresAlone'
        BY <2>1, <2>2, <2>3 DEF KeysInv, StoresAlone, Stores, Storing
  <2>6. NoneSince'
    <3> SUFFICES ASSUME NEW g \in Handlers, NEW j \in Keys, Stores(g, j)',
                        ~overlapped'[j], handler'[g].found = {}
                 PROVE  RowsOf(j) = {}
        BY <2>1 DEF NoneSince, RowsOf
    <3>1. CASE g = h
          BY <2>1, <3>1 DEF Stores
    <3>2. CASE g # h
          BY <2>1, <2>2, <3>2 DEF KeysInv, NoneSince, Stores
    <3> QED BY <3>1, <3>2
  <2>7. OneRowPerKey'
    <3>1. \A r \in rows : r.key \in Keys
          BY <1>0 DEF TypeOK, Row
    <3> QED BY <2>1, <2>2, <3>1 DEF KeysInv, OneRowPerKey
  <2> QED BY <2>4, <2>5, <2>6, <2>7 DEF KeysInv
<1>2. ASSUME NEW h \in Handlers, Raise(h) PROVE KeysInv'
  <2>1. /\ overlapped' = overlapped /\ rows' = rows
        /\ \A g \in Handlers : Storing(g)' => handler'[g] = handler[g]
        BY <1>0, <1>2, RaiseFact DEF Storing, None
  <2> QED BY <1>0, <2>1, KeysKept DEF Shape, IdsDistinct, Storing
<1>3. ASSUME NEW h \in Handlers, Storing(h), Insert(h), ~Taken(handler[h].key) PROVE KeysInv'
  <2>1. PICK i \in Ids \ used :
          rows' = rows \cup {[id |-> i, key |-> handler[h].key,
                              value |-> handler[h].value, count |-> 0]}
        BY <1>3 DEF Insert
  <2>2. /\ Acknowledge(h) /\ overlapped' = overlapped /\ handler[h].found = {}
        /\ handler[h].key \in Keys
        BY <1>0, <1>3 DEF Insert, TypeOK, Handler, Storing
  <2>3. \A g \in Handlers : Storing(g)' =>
            g # h /\ Storing(g) /\ handler'[g].key = handler[g].key
                                /\ handler'[g].found = handler[g].found
        BY <1>0, <1>3, <2>2, StoreStays
  <2>4. FoundOne' /\ StoresAlone'
        BY <2>2, <2>3 DEF KeysInv, FoundOne, StoresAlone, Stores, Storing
  <2>5. NoneSince'
    <3> SUFFICES ASSUME NEW g \in Handlers, NEW j \in Keys, Stores(g, j)',
                        ~overlapped[j], handler'[g].found = {}
                 PROVE  RowsOf(j)' = {}
        BY <2>2 DEF NoneSince
    <3>1. g # h /\ Stores(g, j) /\ handler[g].found = {}
          BY <2>3 DEF Stores, Storing
    <3>2. handler[h].key # j
          BY <1>3, <3>1 DEF KeysInv, StoresAlone, Stores, Storing
    <3>3. RowsOf(j) = {}
          BY <3>1 DEF KeysInv, NoneSince
    <3> QED BY <2>1, <3>2, <3>3 DEF RowsOf
  <2>6. OneRowPerKey'
    <3>1. handler[h].key \in Constrained \/ ~overlapped[handler[h].key]
                => RowsOf(handler[h].key) = {}
          BY <1>3, <2>2 DEF KeysInv, NoneSince, Stores, Storing, Taken
    <3> QED BY <2>1, <2>2, <3>1 DEF KeysInv, OneRowPerKey, RowsOf
  <2> QED BY <2>4, <2>5, <2>6 DEF KeysInv
<1>4. ASSUME NEW h \in Handlers, Storing(h), Update(h), ~Gone(h) PROVE KeysInv'
  <2>1. Acknowledge(h) /\ overlapped' = overlapped
        BY <1>4 DEF Update
  <2>2. \A g \in Handlers : Storing(g)' =>
            Storing(g) /\ handler'[g].key = handler[g].key
                       /\ handler'[g].found = handler[g].found
        BY <1>0, <1>4, <2>1, StoreStays
  <2>3. \A q \in rows' : \E r \in rows : q.id = r.id /\ q.key = r.key
        BY <1>0, <1>4, UpdateFact
  <2> QED BY <1>0, <2>1, <2>2, <2>3, KeysKept DEF Shape, IdsDistinct
<1>5. ASSUME NEW h \in Handlers, NEW S \in SUBSET Memories, GetRelevant(h, S) PROVE KeysInv'
  <2>1. /\ overlapped' = overlapped /\ rows' = rows
        /\ \A g \in Handlers : Storing(g)' => handler'[g] = handler[g]
        BY <1>0, <1>5 DEF GetRelevant, TypeOK, Storing
  <2> QED BY <1>0, <2>1, KeysKept DEF Shape, IdsDistinct, Storing
<1>6. ASSUME NEW h \in Handlers, Reading(h), CountReads(h), ~Gone(h) PROVE KeysInv'
  <2>1. /\ overlapped' = overlapped
        /\ \A g \in Handlers : Storing(g)' => handler'[g] = handler[g]
        BY <1>0, <1>6 DEF CountReads, TypeOK, Storing, None
  <2>2. \A q \in rows' : \E r \in rows : q.id = r.id /\ q.key = r.key
        BY <1>0, <1>6, CountFact
  <2> QED BY <1>0, <2>1, <2>2, KeysKept DEF Shape, IdsDistinct, Storing
<1>7. ASSUME NEW S \in SUBSET rows, Delete(S) PROVE KeysInv'
  <2>1. handler' = handler /\ overlapped' = overlapped /\ rows' = rows \ S
        BY <1>7 DEF Delete
  <2> QED BY <1>0, <2>1, KeysKept DEF Shape, IdsDistinct, Storing
<1>8. CASE UNCHANGED vars
      BY <1>0, <1>8, KeysKept DEF vars, history, Shape, IdsDistinct, Storing
<1> QED BY <1>0, <1>1, <1>2, <1>3, <1>4, <1>5, <1>6, <1>7, <1>8, Steps

---------------------------------------------------------------------------
(* What is stored last *)

ValuesInv == RivalsKnown /\ LatestIsStored

\* Steps that change neither the values of rows nor the stores in progress.
LEMMA ValuesKept ==
    ASSUME ValuesInv, UNCHANGED <<acked, latest>>,
           \A q \in rows' : \E r \in rows : q.id = r.id /\ q.key = r.key /\ q.value = r.value,
           \A r \in rows : \E q \in rows' : q.key = r.key,
           \A g \in Handlers : Storing(g)' => Storing(g) /\ handler'[g] = handler[g]
    PROVE  ValuesInv'
<1>1. RivalsKnown'
  <2> SUFFICES ASSUME NEW g \in Handlers, Storing(g)', NEW q \in rows',
                      q.key = handler'[g].key
               PROVE  \/ q.value \in handler'[g].rivals
                      \/ \E f \in handler'[g].found : f.id = q.id /\ f.value = q.value
      BY DEF RivalsKnown, RowsOf
  <2>1. PICK r \in rows : q.id = r.id /\ q.key = r.key /\ q.value = r.value
        OBVIOUS
  <2>2. Storing(g) /\ r \in RowsOf(handler[g].key) /\ handler'[g] = handler[g]
        BY <2>1 DEF RowsOf
  <2> QED BY <2>1, <2>2 DEF ValuesInv, RivalsKnown
<1>2. LatestIsStored'
  <2> SUFFICES ASSUME NEW k \in Keys
               PROVE  /\ acked[k] => RowsOf(k)' # {}
                      /\ \A q \in RowsOf(k)' : q.value \in latest[k]
      BY DEF LatestIsStored
  <2>1. acked[k] => RowsOf(k)' # {}
        BY DEF ValuesInv, LatestIsStored, RowsOf
  <2>2. ASSUME NEW q \in RowsOf(k)' PROVE q.value \in latest[k]
    <3>1. PICK r \in rows : q.id = r.id /\ q.key = r.key /\ q.value = r.value
          BY DEF RowsOf
    <3> QED BY <3>1 DEF ValuesInv, LatestIsStored, RowsOf
  <2> QED BY <2>1, <2>2
<1> QED BY <1>1, <1>2 DEF ValuesInv

\* An acknowledged store: the rows of its key hold its value or a rival's, and
\* there is one; rows of other keys stay.
LEMMA ValuesAcknowledged ==
    ASSUME TypeOK, ValuesInv, NEW h \in Handlers, Storing(h), Acknowledge(h),
           \E q \in rows' : q.key = handler[h].key,
           \A r \in rows : \E q \in rows' : q.key = r.key,
           \A q \in rows' :
               \/ q \in rows /\ q.key # handler[h].key
               \/ q \in rows /\ q.value \in handler[h].rivals
               \/ /\ q.key = handler[h].key
                  /\ q.value = handler[h].value
    PROVE  ValuesInv'
<1>1. handler[h].key \in Keys
      BY DEF TypeOK, Handler, Storing
<1>2. RivalsKnown'
  <2> SUFFICES ASSUME NEW g \in Handlers, Storing(g)', NEW q \in rows',
                      q.key = handler'[g].key
               PROVE  \/ q.value \in handler'[g].rivals
                      \/ \E f \in handler'[g].found : f.id = q.id /\ f.value = q.value
      BY DEF RivalsKnown, RowsOf
  <2>1. /\ Storing(g) /\ handler'[g].key = handler[g].key
        /\ handler'[g].found = handler[g].found
        /\ handler'[g].rivals = IF handler[g].key = handler[h].key
                                THEN handler[g].rivals \cup {handler[h].value}
                                ELSE handler[g].rivals
        BY StoreStays
  <2>2. CASE q \in rows
        BY <2>1, <2>2 DEF ValuesInv, RivalsKnown, RowsOf
  <2>3. CASE q.key = handler[h].key /\ q.value = handler[h].value
        BY <2>1, <2>3
  <2> QED BY <2>2, <2>3
<1>3. LatestIsStored'
  <2> SUFFICES ASSUME NEW k \in Keys
               PROVE  /\ acked'[k] => RowsOf(k)' # {}
                      /\ \A q \in RowsOf(k)' : q.value \in latest'[k]
      BY DEF LatestIsStored
  <2>1. CASE k = handler[h].key
    <3>1. latest'[k] = {handler[h].value} \cup handler[h].rivals
          BY <1>1, <2>1 DEF Acknowledge, TypeOK
    <3> QED BY <2>1, <3>1 DEF RowsOf
  <2>2. CASE k # handler[h].key
    <3>1. latest'[k] = latest[k] /\ acked'[k] = acked[k]
          BY <1>1, <2>2 DEF Acknowledge, TypeOK
    <3> QED BY <2>2, <3>1 DEF RowsOf, ValuesInv, LatestIsStored
  <2> QED BY <2>1, <2>2
<1> QED BY <1>2, <1>3 DEF ValuesInv

LEMMA ValuesStep == Shape /\ KeysInv /\ ValuesInv /\ [Next]_vars => ValuesInv'
<1> SUFFICES ASSUME Shape, KeysInv, ValuesInv, [Next]_vars PROVE ValuesInv'
    OBVIOUS
<1>0. TypeOK
      BY DEF Shape
<1>1. ASSUME NEW h \in Handlers, NEW k \in Keys, NEW v \in Values, Lookup(h, k, v)
      PROVE  ValuesInv'
  <2>1. /\ handler'[h].op = "store" /\ handler'[h].key = k /\ handler'[h].found = RowsOf(k)
        /\ \A g \in Handlers : g # h => handler'[g] = handler[g]
        /\ UNCHANGED <<rows, acked, latest>>
        BY <1>0, <1>1 DEF Lookup, TypeOK
  <2>2. RivalsKnown'
        BY <2>1 DEF ValuesInv, RivalsKnown, Storing, RowsOf
  <2> QED BY <2>1, <2>2 DEF ValuesInv, LatestIsStored, RowsOf
<1>2. ASSUME NEW h \in Handlers, Raise(h) PROVE ValuesInv'
  <2>1. /\ UNCHANGED <<rows, acked, latest>>
        /\ \A g \in Handlers : Storing(g)' => handler'[g] = handler[g]
        BY <1>0, <1>2, RaiseFact DEF Storing, None
  <2> QED BY <2>1, ValuesKept DEF Storing
<1>3. ASSUME NEW h \in Handlers, Storing(h), Insert(h), ~Taken(handler[h].key) PROVE ValuesInv'
  <2>1. PICK i \in Ids \ used :
          rows' = rows \cup {[id |-> i, key |-> handler[h].key,
                              value |-> handler[h].value, count |-> 0]}
        BY <1>3 DEF Insert
  <2>2. Acknowledge(h) /\ handler[h].found = {}
        BY <1>3 DEF Insert
  <2>3. \A q \in rows : q.key = handler[h].key => q.value \in handler[h].rivals
        BY <1>3, <2>2 DEF ValuesInv, RivalsKnown, RowsOf
  <2> DEFINE new == [id |-> i, key |-> handler[h].key, value |-> handler[h].value, count |-> 0]
  <2>4. new.key = handler[h].key /\ new.value = handler[h].value /\ rows' = rows \cup {new}
        BY <2>1
  <2> HIDE DEF new
  <2>5. ASSUME NEW q \in rows'
        PROVE  \/ q \in rows /\ q.key # handler[h].key
               \/ q \in rows /\ q.value \in handler[h].rivals
               \/ q.key = handler[h].key /\ q.value = handler[h].value
        BY <2>3, <2>4
  <2>6. /\ \E q \in rows' : q.key = handler[h].key
        /\ \A r \in rows : \E q \in rows' : q.key = r.key
        BY <2>4
  <2> QED BY <1>0, <1>3, <2>2, <2>5, <2>6, ValuesAcknowledged
<1>4. ASSUME NEW h \in Handlers, Storing(h), Update(h), ~Gone(h) PROVE ValuesInv'
  <2>1. Acknowledge(h)
        BY <1>4 DEF Update
  <2>2. PICK f \in handler[h].found : handler[h].found = {f}
        BY <1>4 DEF Update, KeysInv, FoundOne
  <2>3. f.key = handler[h].key /\ \A r \in rows : f.id = r.id => r.key = f.key
        BY <1>4, <2>2 DEF KeysInv, FoundOne, Shape, FoundKeepsKey, Storing, Reading
  <2>4. \E q \in rows' : q.key = handler[h].key
    <3>1. PICK r \in rows : f.id = r.id
          BY <1>4, <2>2 DEF Gone
    <3>2. \E q \in rows' : q.key = r.key
          BY <1>0, <1>4, UpdateFact
    <3> QED BY <2>3, <3>1, <3>2
  <2>5. ASSUME NEW q \in rows'
        PROVE  \/ q \in rows /\ q.key # handler[h].key
               \/ q \in rows /\ q.value \in handler[h].rivals
               \/ q.key = handler[h].key /\ q.value = handler[h].value
    <3>1. PICK r \in rows :
              /\ q \in Row /\ q.id = r.id /\ q.key = r.key /\ q.count = r.count
              /\ \/ q = r /\ \A g \in handler[h].found : g.id # r.id
                 \/ q.value = Written(h, r) /\ \E g \in handler[h].found : g.id = r.id
          BY <1>0, <1>4, UpdateFact
    <3>2. r.key = handler[h].key =>
              r.value \in handler[h].rivals \/ (f.id = r.id /\ f.value = r.value)
          BY <1>4, <2>2 DEF ValuesInv, RivalsKnown, RowsOf
    <3>3. CASE q = r /\ f.id # r.id
          BY <3>1, <3>2, <3>3
    <3>4. CASE q.value = Written(h, r) /\ f.id = r.id
      <4>1. q.key = handler[h].key
            BY <2>3, <3>1, <3>4
      <4>2. CASE q.value = handler[h].value
            BY <4>1, <4>2
      <4>3. CASE q.value # handler[h].value
        <5>1. q.value = r.value /\ f.value = handler[h].value
              BY <2>2, <3>4, <4>3 DEF Written
        <5>2. r.value \in handler[h].rivals
              BY <3>1, <3>2, <4>1, <4>3, <5>1
        <5>3. q = r
              BY <1>0, <3>1, <5>1 DEF TypeOK, Row
        <5> QED BY <5>1, <5>2, <5>3
      <4> QED BY <4>2, <4>3
    <3> QED BY <2>2, <3>1, <3>3, <3>4
  <2>6. \A r \in rows : \E q \in rows' : q.key = r.key
        BY <1>0, <1>4, UpdateFact
  <2> QED BY <1>0, <1>4, <2>1, <2>4, <2>5, <2>6, ValuesAcknowledged
<1>5. ASSUME NEW h \in Handlers, NEW S \in SUBSET Memories, GetRelevant(h, S) PROVE ValuesInv'
  <2>1. /\ UNCHANGED <<rows, acked, latest>>
        /\ \A g \in Handlers : Storing(g)' => handler'[g] = handler[g]
        BY <1>0, <1>5 DEF GetRelevant, TypeOK, Storing
  <2> QED BY <2>1, ValuesKept DEF Storing
<1>6. ASSUME NEW h \in Handlers, Reading(h), CountReads(h), ~Gone(h) PROVE ValuesInv'
  <2>1. /\ UNCHANGED <<acked, latest>>
        /\ \A g \in Handlers : Storing(g)' => Storing(g) /\ handler'[g] = handler[g]
        BY <1>0, <1>6 DEF CountReads, TypeOK, Storing, None
  <2>2. /\ \A q \in rows' : \E r \in rows : q.id = r.id /\ q.key = r.key /\ q.value = r.value
        /\ \A r \in rows : \E q \in rows' : q.key = r.key
        BY <1>0, <1>6, CountFact
  <2> QED BY <2>1, <2>2, ValuesKept
<1>7. ASSUME NEW S \in SUBSET rows, Delete(S) PROVE ValuesInv'
  <2>1. /\ rows' = rows \ S /\ handler' = handler /\ latest' = latest
        /\ \A k \in Keys : acked'[k] = (acked[k] /\ \A r \in S : r.key # k)
        BY <1>7 DEF Delete
  <2>2. RivalsKnown'
        BY <2>1 DEF ValuesInv, RivalsKnown, Storing, RowsOf
  <2>3. LatestIsStored'
        BY <2>1 DEF ValuesInv, LatestIsStored, RowsOf
  <2> QED BY <2>2, <2>3 DEF ValuesInv
<1>8. CASE UNCHANGED vars
      BY <1>8, ValuesKept DEF vars, history, Storing
<1> QED BY <1>0, <1>1, <1>2, <1>3, <1>4, <1>5, <1>6, <1>7, <1>8, Steps

---------------------------------------------------------------------------
(* Reads *)

ReadsInv == ReadsAlone /\ ReadsFresh /\ NeverRead /\ ReadsAreCounted

\* Steps that change no counts and no reads in progress.
LEMMA ReadsKept ==
    ASSUME TypeOK, IdsKnown, ReadsInv, UNCHANGED <<reads, raced>>, used \subseteq used',
           \A q \in rows' : \/ \E r \in rows : q.id = r.id /\ q.count = r.count
                            \/ q.id \in Ids \ used /\ q.count = 0,
           \A g \in Handlers : Reading(g)' => handler'[g] = handler[g]
    PROVE  ReadsInv'
<1>1. \A g \in Handlers : Reading(g)' => Reading(g) /\ handler'[g] = handler[g]
      BY DEF Reading
<1>2. ReadsAlone' /\ ReadsFresh' /\ NeverRead'
      BY <1>1 DEF ReadsInv, ReadsAlone, Reads, ReadsFresh, NeverRead
<1>3. ReadsAreCounted'
  <2> SUFFICES ASSUME NEW q \in rows'
               PROVE  q.count <= reads[q.id] /\ (~raced[q.id] => q.count = reads[q.id])
      BY DEF ReadsAreCounted
  <2>1. CASE \E r \in rows : q.id = r.id /\ q.count = r.count
        BY <2>1 DEF ReadsInv, ReadsAreCounted
  <2>2. CASE q.id \in Ids \ used /\ q.count = 0
        BY <2>2 DEF ReadsInv, NeverRead
  <2> QED BY <2>1, <2>2
<1> QED BY <1>2, <1>3 DEF ReadsInv

LEMMA ReadsStep == Shape /\ ReadsInv /\ [Next]_vars => ReadsInv'
<1> SUFFICES ASSUME Shape, ReadsInv, [Next]_vars PROVE ReadsInv'
    OBVIOUS
<1>0. TypeOK /\ IdsKnown /\ Shape'
      BY ShapeStep DEF Shape
<1>1. ASSUME NEW h \in Handlers, NEW k \in Keys, NEW v \in Values, Lookup(h, k, v)
      PROVE  ReadsInv'
  <2>1. /\ UNCHANGED <<rows, used, reads, raced>>
        /\ \A g \in Handlers : Reading(g)' => handler'[g] = handler[g]
        BY <1>0, <1>1 DEF Lookup, TypeOK, Reading
  <2> QED BY <1>0, <2>1, ReadsKept
<1>2. ASSUME NEW h \in Handlers, Raise(h) PROVE ReadsInv'
  <2>1. /\ UNCHANGED <<rows, used, reads, raced>>
        /\ \A g \in Handlers : Reading(g)' => handler'[g] = handler[g]
        BY <1>0, <1>2, RaiseFact DEF Reading, None
  <2> QED BY <1>0, <2>1, ReadsKept
<1>3. ASSUME NEW h \in Handlers, Storing(h), Insert(h), ~Taken(handler[h].key) PROVE ReadsInv'
  <2>1. PICK i \in Ids \ used :
          /\ rows' = rows \cup {[id |-> i, key |-> handler[h].key,
                                 value |-> handler[h].value, count |-> 0]}
          /\ used' = used \cup {i}
        BY <1>3 DEF Insert
  <2>2. Acknowledge(h) /\ UNCHANGED <<reads, raced>>
        BY <1>3 DEF Insert
  <2>3. \A g \in Handlers : Reading(g)' => handler'[g] = handler[g]
    <3> SUFFICES ASSUME NEW g \in Handlers, Reading(g)' PROVE handler'[g] = handler[g]
        OBVIOUS
    <3>1. g # h
          BY <1>0, <1>3, <2>2, AcknowledgeFact DEF Reading, None
    <3>2. ~Storing(g)
          BY <1>0, <1>3, <2>2, <3>1, AcknowledgeFact DEF Reading, Storing
    <3> QED BY <1>0, <1>3, <2>2, <3>1, <3>2, AcknowledgeFact
  <2>4. \A q \in rows' : \/ \E r \in rows : q.id = r.id /\ q.count = r.count
                         \/ q.id \in Ids \ used /\ q.count = 0
        BY <2>1
  <2> QED BY <1>0, <2>1, <2>2, <2>3, <2>4, ReadsKept
<1>4. ASSUME NEW h \in Handlers, Storing(h), Update(h), ~Gone(h) PROVE ReadsInv'
  <2>1. Acknowledge(h) /\ UNCHANGED <<used, reads, raced>>
        BY <1>4 DEF Update
  <2>2. \A g \in Handlers : Reading(g)' => handler'[g] = handler[g]
    <3> SUFFICES ASSUME NEW g \in Handlers, Reading(g)' PROVE handler'[g] = handler[g]
        OBVIOUS
    <3>1. g # h
          BY <1>0, <1>4, <2>1, AcknowledgeFact DEF Reading, None
    <3>2. ~Storing(g)
          BY <1>0, <1>4, <2>1, <3>1, AcknowledgeFact DEF Reading, Storing
    <3> QED BY <1>0, <1>4, <2>1, <3>1, <3>2, AcknowledgeFact
  <2>3. \A q \in rows' : \E r \in rows : q.id = r.id /\ q.count = r.count
        BY <1>0, <1>4, UpdateFact
  <2> QED BY <1>0, <2>1, <2>2, <2>3, ReadsKept
<1>5. ASSUME NEW h \in Handlers, NEW S \in SUBSET Memories, GetRelevant(h, S) PROVE ReadsInv'
  <2>1. /\ handler'[h] = [op |-> "read", found |-> S] /\ S \subseteq rows /\ ~Reading(h)
        /\ \A g \in Handlers : g # h => handler'[g] = handler[g]
        /\ UNCHANGED <<rows, used, reads>>
        BY <1>0, <1>5 DEF GetRelevant, TypeOK, Memories, Reading, None
  <2>2. \A i \in Ids : raced'[i] <=> \/ raced[i]
                                     \/ /\ \E r \in S : r.id = i
                                        /\ \E g \in Handlers : Reads(g, i)
        BY <1>0, <1>5 DEF GetRelevant, TypeOK, Reads, Reading
  <2>3. \A r \in rows : r.id \in Ids
        BY <1>0 DEF TypeOK, Row
  <2>4. ReadsAlone'
    <3> SUFFICES ASSUME NEW g \in Handlers, NEW j \in Handlers, NEW i \in Ids,
                        Reads(g, i)', Reads(j, i)', ~raced'[i]
                 PROVE  g = j
        BY DEF ReadsAlone
    <3>1. ~raced[i]
          BY <2>2
    <3>2. CASE g # h /\ j # h
          BY <2>1, <3>1, <3>2 DEF ReadsInv, ReadsAlone, Reads, Reading
    <3>3. CASE g = h /\ j # h
      <4>1. Reads(j, i) /\ \E r \in S : r.id = i
            BY <2>1, <3>3 DEF Reads, Reading
      <4> QED BY <2>2, <4>1
    <3>4. CASE g # h /\ j = h
      <4>1. Reads(g, i) /\ \E r \in S : r.id = i
            BY <2>1, <3>4 DEF Reads, Reading
      <4> QED BY <2>2, <4>1
    <3> QED BY <3>2, <3>3, <3>4
  <2>5. ReadsFresh'
    <3> SUFFICES ASSUME NEW g \in Handlers, Reading(g)', NEW f \in handler'[g].found
                 PROVE  /\ f.count <= reads[f.id]
                        /\ ~raced'[f.id] => f.count = reads[f.id]
        BY <2>1 DEF ReadsFresh
    <3>1. CASE g = h
      <4>1. f \in rows
            BY <2>1, <3>1
      <4> QED BY <2>2, <2>3, <4>1 DEF ReadsInv, ReadsAreCounted
    <3>2. CASE g # h
      <4>1. Reading(g) /\ f \in handler[g].found
            BY <2>1, <3>2 DEF Reading
      <4>2. f.id \in Ids
            BY <1>0, <4>1 DEF TypeOK, IdsKnown
      <4> QED BY <2>2, <4>1, <4>2 DEF ReadsInv, ReadsFresh
    <3> QED BY <3>1, <3>2
  <2>6. ReadsAreCounted' /\ NeverRead'
        BY <2>1, <2>2, <2>3 DEF ReadsInv, ReadsAreCounted, NeverRead
  <2> QED BY <2>4, <2>5, <2>6 DEF ReadsInv
<1>6. ASSUME NEW h \in Handlers, Reading(h), CountReads(h), ~Gone(h) PROVE ReadsInv'
  <2>1. /\ handler'[h] = None
        /\ \A g \in Handlers : g # h => handler'[g] = handler[g]
        /\ UNCHANGED <<used, raced>>
        /\ \A i \in Ids : reads'[i] = IF Reads(h, i) THEN reads[i] + 1 ELSE reads[i]
        BY <1>0, <1>6 DEF CountReads, TypeOK, Reads
  <2>2. /\ \A i \in Ids : reads[i] \in Nat /\ reads[i] <= reads'[i]
        BY <1>0, <2>1 DEF TypeOK
  <2>3. \A g \in Handlers : Reading(g)' => g # h /\ Reading(g) /\ handler'[g] = handler[g]
        BY <2>1 DEF Reading, None
  <2>4. \A g \in Handlers : Reading(g) => \A f \in handler[g].found : f.id \in Ids /\ f.count \in Nat
        BY <1>0 DEF TypeOK, Handler, Reading, Row
  <2>5. ReadsAlone'
        BY <2>1, <2>3 DEF ReadsInv, ReadsAlone, Reads
  <2>6. ReadsFresh'
    <3> SUFFICES ASSUME NEW g \in Handlers, Reading(g)', NEW f \in handler'[g].found
                 PROVE  /\ f.count <= reads'[f.id]
                        /\ ~raced[f.id] => f.count = reads'[f.id]
        BY <2>1 DEF ReadsFresh
    <3>1. g # h /\ Reading(g) /\ f \in handler[g].found /\ f.id \in Ids /\ f.count \in Nat
          BY <2>3, <2>4
    <3>2. f.count <= reads[f.id] /\ (~raced[f.id] => f.count = reads[f.id])
          BY <3>1 DEF ReadsInv, ReadsFresh
    <3>3. ~raced[f.id] => ~Reads(h, f.id)
          BY <3>1 DEF ReadsInv, ReadsAlone, Reads
    <3> QED BY <2>1, <2>2, <3>1, <3>2, <3>3
  <2>7. NeverRead'
    <3>1. \A i \in Ids \ used : ~Reads(h, i)
          BY <1>0 DEF IdsKnown, Reads
    <3> QED BY <2>1, <3>1 DEF ReadsInv, NeverRead
  <2>8. ReadsAreCounted'
    <3> SUFFICES ASSUME NEW q \in rows'
                 PROVE  /\ q.count <= reads'[q.id]
                        /\ ~raced[q.id] => q.count = reads'[q.id]
        BY <2>1 DEF ReadsAreCounted
    <3>1. PICK r \in rows :
              /\ q \in Row /\ q.id = r.id
              /\ \/ q = r /\ \A f \in handler[h].found : f.id # r.id
                 \/ \E f \in handler[h].found : f.id = r.id /\ q.count = f.count + 1
          BY <1>0, <1>6, CountFact
    <3>2. r.id \in Ids /\ r.count \in Nat
          BY <1>0 DEF TypeOK, Row
    <3>3. CASE q = r /\ \A f \in handler[h].found : f.id # r.id
      <4>1. ~Reads(h, r.id)
            BY <3>3 DEF Reads
      <4> QED BY <2>1, <3>2, <3>3, <4>1 DEF ReadsInv, ReadsAreCounted
    <3>4. CASE \E f \in handler[h].found : f.id = r.id /\ q.count = f.count + 1
      <4>1. PICK f \in handler[h].found : f.id = r.id /\ q.count = f.count + 1
            BY <3>4
      <4>2. reads'[q.id] = reads[f.id] + 1 /\ f.count \in Nat /\ reads[f.id] \in Nat
            BY <1>6, <2>1, <2>2, <2>4, <3>1, <3>2, <4>1 DEF Reads
      <4>3. f.count <= reads[f.id] /\ (~raced[f.id] => f.count = reads[f.id])
            BY <1>6 DEF ReadsInv, ReadsFresh
      <4> QED BY <3>1, <4>1, <4>2, <4>3
    <3> QED BY <3>1, <3>3, <3>4
  <2> QED BY <2>5, <2>6, <2>7, <2>8 DEF ReadsInv
<1>7. ASSUME NEW S \in SUBSET rows, Delete(S) PROVE ReadsInv'
  <2>1. rows' = rows \ S /\ UNCHANGED <<used, handler, reads, raced>>
        BY <1>7 DEF Delete
  <2> QED BY <1>0, <2>1, ReadsKept
<1>8. CASE UNCHANGED vars
      BY <1>0, <1>8, ReadsKept DEF vars, history
<1> QED BY <1>0, <1>1, <1>2, <1>3, <1>4, <1>5, <1>6, <1>7, <1>8, Steps

---------------------------------------------------------------------------
(* The theorems *)

LEMMA Invariance == Spec => []IInv
<1>1. Init => IInv
      BY DEF Init, IInv, Shape, TypeOK, IdsKnown, IdsDistinct, FoundKeepsKey, FoundOne,
             StoresAlone, NoneSince, OneRowPerKey, RivalsKnown, LatestIsStored, ReadsAlone,
             ReadsFresh, NeverRead, ReadsAreCounted, Storing, Reading, Reads, Stores, RowsOf,
             None, Handler
<1>2. IInv <=> Shape /\ KeysInv /\ ValuesInv /\ ReadsInv
      BY DEF IInv, KeysInv, ValuesInv, ReadsInv
<1>3. IInv' <=> Shape' /\ KeysInv' /\ ValuesInv' /\ ReadsInv'
      BY DEF IInv, KeysInv, ValuesInv, ReadsInv
<1>4. IInv /\ [Next]_vars => IInv'
      BY <1>2, <1>3, ShapeStep, KeysStep, ValuesStep, ReadsStep
<1> QED BY <1>1, <1>4, PTL DEF Spec

\* Rows, handlers and histories keep their shape.
THEOREM TypeCorrect == Spec => []TypeOK
<1>1. IInv => TypeOK
      BY DEF IInv, Shape
<1> QED BY <1>1, Invariance, PTL

\* A store that was acknowledged is in the table until its key is deleted, with
\* a value that no later store has replaced.
THEOREM StoredAndLatest == Spec => []LatestIsStored
<1>1. IInv => LatestIsStored
      BY DEF IInv
<1> QED BY <1>1, Invariance, PTL

\* A key has one row, unless its table has no constraint and stores overlapped.
THEOREM KeysAreUnique == Spec => []OneRowPerKey
<1>1. IInv => OneRowPerKey
      BY DEF IInv
<1> QED BY <1>1, Invariance, PTL

\* Access counts are exact, unless reads of the memory overlapped, and never
\* too high.
THEOREM CountsAreExact == Spec => []ReadsAreCounted
<1>1. IInv => ReadsAreCounted
      BY DEF IInv
<1> QED BY <1>1, Invariance, PTL
=============================================================================
