----------------------------- MODULE KeyedRows -----------------------------
(***************************************************************************)
(* The tables that hold one row per key: cross-session memories            *)
(* (memory/memory_store.py, by category and key) and provider keys         *)
(* (db/keys_store.py, by client and provider).  Both store a value alike:  *)
(* look the key up, then update the row found or insert one.  Provider     *)
(* keys have a unique constraint, memories have none.  (The table of users *)
(* is not among them: a user that is found is left as it is.)              *)
(*                                                                         *)
(* Each handler has a database session of its own, and PostgreSQL runs     *)
(* them at READ COMMITTED: other transactions commit between a handler's   *)
(* SELECT and its flush.  The flush and the commit that follows it are one *)
(* step: a row lock keeps others away from the row in between.             *)
(***************************************************************************)
EXTENDS Naturals

CONSTANTS
    Handlers,       \* handlers that may be at work at the same time
    Keys,
    Constrained,    \* the keys of the tables with a unique constraint
    Values,
    Ids,            \* bound: row ids (uuid4, never used twice)
    MaxReads        \* bound on access_count

ASSUME RowsAssumption == Constrained \subseteq Keys /\ MaxReads \in Nat

VARIABLES
    rows,       \* the committed rows
    used,       \* ids used so far
    handler,    \* what each handler is doing
    acked,      \* history: a store was acknowledged and nothing deleted since
    latest,     \* history: values no acknowledged store wholly followed
    overlapped, \* history: stores of the key were in progress together
    reads,      \* history: acknowledged reads of the row
    raced       \* history: reads of the row were in progress together

history == <<acked, latest, overlapped, reads, raced>>
vars == <<rows, used, handler, history>>

Row == [id : Ids, key : Keys, value : Values, count : Nat]

Handler ==
    [op : {"none"}]
    \cup [op : {"store"}, key : Keys, value : Values, found : SUBSET Row,
          rivals : SUBSET Values]
    \cup [op : {"read"}, found : SUBSET Row]

TypeOK ==
    /\ rows \subseteq Row
    /\ used \subseteq Ids
    /\ handler \in [Handlers -> Handler]
    /\ acked \in [Keys -> BOOLEAN]
    /\ latest \in [Keys -> SUBSET Values]
    /\ overlapped \in [Keys -> BOOLEAN]
    /\ reads \in [Ids -> Nat]
    /\ raced \in [Ids -> BOOLEAN]

None == [op |-> "none"]

Init ==
    /\ rows = {} /\ used = {}
    /\ handler = [h \in Handlers |-> None]
    /\ acked = [k \in Keys |-> FALSE]
    /\ latest = [k \in Keys |-> {}]
    /\ overlapped = [k \in Keys |-> FALSE]
    /\ reads = [i \in Ids |-> 0]
    /\ raced = [i \in Ids |-> FALSE]

RowsOf(k) == {r \in rows : r.key = k}

Stores(h, k) == handler[h].op = "store" /\ handler[h].key = k

---------------------------------------------------------------------------
(* Storing a value *)

\* The SELECT of a store; scalar_one_or_none raises when it finds two rows.
Lookup(h, k, v) ==
    /\ handler[h] = None
    /\ \A r, s \in RowsOf(k) : r = s
    /\ handler' = [handler EXCEPT ![h] =
                     [op |-> "store", key |-> k, value |-> v, found |-> RowsOf(k),
                      rivals |-> {}]]
    /\ overlapped' = [overlapped EXCEPT ![k] = @ \/ \E g \in Handlers : Stores(g, k)]
    /\ UNCHANGED <<rows, used, acked, latest, reads, raced>>

\* The session that raised is closed, its handler answers with an error.
Raise(h) ==
    /\ handler' = [handler EXCEPT ![h] = None]
    /\ UNCHANGED <<rows, used, history>>

\* The store is acknowledged; others of the same key in progress may still
\* come before it.
Acknowledge(h) ==
    LET k == handler[h].key
        v == handler[h].value
    IN  /\ handler' = [g \in Handlers |->
                         IF g = h THEN None
                         ELSE IF Stores(g, k) THEN [handler[g] EXCEPT !.rivals = @ \cup {v}]
                         ELSE handler[g]]
        /\ acked' = [acked EXCEPT ![k] = TRUE]
        /\ latest' = [latest EXCEPT ![k] = {v} \cup handler[h].rivals]

\* Mutant: the constraint is not there.
NeverTaken(k) == FALSE

\* The unique constraint refuses a second row of the key.
Taken(k) == k \in Constrained /\ RowsOf(k) # {}

Insert(h) ==
    /\ handler[h].op = "store" /\ handler[h].found = {}
    /\ \/ Taken(handler[h].key) /\ Raise(h)
       \/ /\ ~Taken(handler[h].key)
          /\ \E i \in Ids \ used :
               /\ rows' = rows \cup {[id |-> i, key |-> handler[h].key,
                                      value |-> handler[h].value, count |-> 0]}
               /\ used' = used \cup {i}
          /\ Acknowledge(h)
          /\ UNCHANGED <<overlapped, reads, raced>>

\* The rows as they are now, of those that were found.
StillThere(found) == {r \in rows : \E f \in found : f.id = r.id}

\* Mutant: an UPDATE that matches no row is a success.
NeverGone(h) == FALSE

\* A row found has been deleted since: StaleDataError, nothing is written.
Gone(h) == \E f \in handler[h].found : \A r \in rows : r.id # f.id

\* The flush writes columns that differ from what was loaded: a value equal to
\* it stays as others left it.  An encrypted key always differs.
Written(h, r) ==
    IF r.key \in Constrained \/ \A f \in handler[h].found : f.value # handler[h].value
    THEN handler[h].value
    ELSE r.value

Update(h) ==
    /\ handler[h].op = "store" /\ handler[h].found # {}
    /\ \/ Gone(h) /\ Raise(h)
       \/ /\ ~Gone(h)
          /\ rows' = (rows \ StillThere(handler[h].found)) \cup
                     {[r EXCEPT !.value = Written(h, r)] : r \in StillThere(handler[h].found)}
          /\ Acknowledge(h)
          /\ UNCHANGED <<used, overlapped, reads, raced>>

---------------------------------------------------------------------------
(* Reading memories for a prompt: the most relevant ones, their access     *)
(* counts written back one higher than they were read.                     *)

Memories == {r \in rows : r.key \notin Constrained}

GetRelevant(h, S) ==
    /\ handler[h] = None
    /\ \A r \in S : reads[r.id] < MaxReads
    /\ handler' = [handler EXCEPT ![h] = [op |-> "read", found |-> S]]
    /\ raced' = [i \in Ids |->
                   raced[i] \/ /\ \E r \in S : r.id = i
                               /\ \E g \in Handlers : /\ handler[g].op = "read"
                                                      /\ \E r \in handler[g].found : r.id = i]
    /\ UNCHANGED <<rows, used, acked, latest, overlapped, reads>>

\* Mutant: a read counts when it starts and again when it commits.
CountedTwice(h, r) == (CHOOSE f \in handler[h].found : f.id = r.id).count + 2

Counted(h, r) == (CHOOSE f \in handler[h].found : f.id = r.id).count + 1

CountReads(h) ==
    /\ handler[h].op = "read"
    /\ \/ Gone(h) /\ Raise(h)
       \/ /\ ~Gone(h)
          /\ rows' = (rows \ StillThere(handler[h].found)) \cup
                     {[r EXCEPT !.count = Counted(h, r)] : r \in StillThere(handler[h].found)}
          /\ reads' = [i \in Ids |->
                         IF \E f \in handler[h].found : f.id = i THEN reads[i] + 1 ELSE reads[i]]
          /\ handler' = [handler EXCEPT ![h] = None]
          /\ UNCHANGED <<used, acked, latest, overlapped, raced>>

---------------------------------------------------------------------------
(* Deleting: a provider's key, one memory by its id, all memories *)

Delete(S) ==
    /\ S # {}
    /\ rows' = rows \ S
    /\ acked' = [k \in Keys |-> acked[k] /\ \A r \in S : r.key # k]
    /\ UNCHANGED <<used, handler, latest, overlapped, reads, raced>>

DeleteProviderKey(k) == k \in Constrained /\ Delete(RowsOf(k))

DeleteMemory(r) == r \in Memories /\ Delete({r})

ClearAll == Delete(Memories)

Next ==
    \/ \E h \in Handlers :
         \/ \E k \in Keys, v \in Values : Lookup(h, k, v)
         \/ Insert(h) \/ Update(h)
         \/ \E S \in SUBSET Memories : GetRelevant(h, S)
         \/ CountReads(h)
    \/ \E k \in Keys : DeleteProviderKey(k)
    \/ \E r \in rows : DeleteMemory(r)
    \/ ClearAll

Spec == Init /\ [][Next]_vars

---------------------------------------------------------------------------
(* Properties *)

\* A store that was acknowledged is in the table until something of its key is
\* deleted, though others update, insert and delete between its SELECT and its
\* commit; and what a row holds was stored last: no acknowledged store of its
\* key began after the one of this value had ended (memory_store.py:29-34,
\* keys_store.py:33-44).
LatestIsStored ==
    \A k \in Keys : /\ acked[k] => RowsOf(k) # {}
                    /\ \A r \in RowsOf(k) : r.value \in latest[k]

\* One row per key, even where no constraint says so, unless two stores of the
\* key overlapped; with the constraint, always (memory_store.py:24-44,
\* models.py:105).
OneRowPerKey ==
    \A r, s \in rows :
      r.key = s.key /\ (r.key \in Constrained \/ ~overlapped[r.key]) => r = s

\* No read of a memory is counted twice, and none is missed unless two reads
\* of the memory overlapped (memory_store.py:78-81).
ReadsAreCounted ==
    \A r \in rows : r.count <= reads[r.id] /\ (~raced[r.id] => r.count = reads[r.id])
=============================================================================
