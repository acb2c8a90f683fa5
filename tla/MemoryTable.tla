---------------------------- MODULE MemoryTable ----------------------------
(***************************************************************************)
(* store/memory.go: the records of the in-memory store with their index of *)
(* idempotency keys, which stands in for MySQL's unique index.  Whoever    *)
(* calls it works on copies and writes them back later; the archiver's two *)
(* statements and the store's own reaper run in between.                   *)
(***************************************************************************)
EXTENDS Integers, FiniteSets

CONSTANTS
  Ids,              \* records; ids are never given twice
  Keys,             \* idempotency keys
  Callers,          \* goroutines that hold a copy of a record
  NoKey,            \* the empty key
  Nobody,           \* no record
  Cutoff,           \* age from which the archiver takes a finished record
  Ttl,              \* ttl of the reaper
  Batch             \* limit of the archiver's statements

VARIABLES
  records,    \* records
  idx,        \* idempotencyIdx
  born,       \* time since created_at, or Unborn
  held        \* per caller: the copy in its hands

vars == <<records, idx, born, held>>

Unborn == -1
Statuses == {"open", "terminal"}
Recs == [key : Keys \cup {NoKey}, status : Statuses, age : 0 .. Cutoff]
Copies == [id : Ids, key : Keys \cup {NoKey}]

\* What the theorems assume of the constants.
MemoryAssumption ==
  /\ NoKey \notin Keys
  /\ Nobody \notin Ids \cup Recs \cup Copies
  /\ Cutoff \in Nat \ {0} /\ Ttl \in Nat \ {0} /\ Batch \in Nat \ {0}

TypeOK ==
  /\ records \in [Ids -> Recs \cup {Nobody}]
  /\ idx \in [Keys -> Ids \cup {Nobody}]
  /\ born \in [Ids -> {Unborn} \cup 0 .. Ttl]
  /\ held \in [Callers -> Copies \cup {Nobody}]

Init ==
  /\ records = [r \in Ids |-> Nobody]
  /\ idx = [k \in Keys |-> Nobody]
  /\ born = [r \in Ids |-> Unborn]
  /\ held = [c \in Callers |-> Nobody]

-----------------------------------------------------------------------------
Stored == {r \in Ids : records[r] # Nobody}

\* The key may go to record r: it is empty, or no other record owns it.
Free(k, r) == \A j \in Keys : j = k => idx[j] \in {Nobody, r}

\* The index once record r has changed its key.
Reindexed(old, new, r) ==
  [k \in Keys |-> IF k = new THEN r ELSE IF k = old THEN Nobody ELSE idx[k]]

\* The index without the keys of the records that go.
Unindexed(S) ==
  [k \in Keys |-> IF \E r \in S : records[r].key = k THEN Nobody ELSE idx[k]]

Create(r, k) ==
  /\ born[r] = Unborn
  /\ Free(k, r)
  /\ records' = [records EXCEPT ![r] = [key |-> k, status |-> "open", age |-> 0]]
  /\ idx' = Reindexed(NoKey, k, r)
  /\ born' = [born EXCEPT ![r] = 0]
  /\ UNCHANGED held

\* Get, and the listings: clones go out.
Read(c, r) ==
  /\ r \in Stored
  /\ held' = [held EXCEPT ![c] = [id |-> r, key |-> records[r].key]]
  /\ UNCHANGED <<records, idx, born>>

Known(r) == r \in Stored

\* The copy of c goes back with a status; its key and created_at were read.
Put(c, status) ==
  LET r == held[c].id
      k == held[c].key
      old == IF r \in Stored THEN records[r].key ELSE NoKey
  IN  /\ Free(k, r)
      /\ records' = [records EXCEPT ![r] = [key |-> k, status |-> status, age |-> 0]]
      /\ idx' = Reindexed(old, k, r)
      /\ UNCHANGED <<born, held>>

Update(c, status) ==
  /\ held[c] # Nobody
  /\ Known(held[c].id)
  /\ Put(c, status)

UpdateIfStatus(c, expected, status) ==
  /\ held[c] # Nobody
  /\ Known(held[c].id)
  /\ records[held[c].id].status = expected
  /\ Put(c, status)

\* A batch of some of the records in S, in the order of a Go map: any.
Batches(S) ==
  {T \in SUBSET S : Cardinality(T) = IF Cardinality(S) < Batch THEN Cardinality(S) ELSE Batch}

Archivable == {r \in Stored : records[r].status = "terminal" /\ records[r].age = Cutoff}

\* ClearIdempotencyOlderThan: UpdatedAt is left as it is.
Clear ==
  /\ \E S \in Batches({r \in Archivable : records[r].key # NoKey}) :
       /\ records' = [r \in Ids |-> IF r \in S THEN [records[r] EXCEPT !.key = NoKey]
                                               ELSE records[r]]
       /\ idx' = Unindexed(S)
  /\ UNCHANGED <<born, held>>

Remove(S) ==
  /\ records' = [r \in Ids |-> IF r \in S THEN Nobody ELSE records[r]]
  /\ idx' = Unindexed(S)
  /\ UNCHANGED <<born, held>>

\* PurgeTerminalOlderThan, and the reaper's evict.
Purge == \E S \in Batches(Archivable) : Remove(S)
Evict == Remove({r \in Stored : born[r] = Ttl})

Older(age, limit) == IF age < limit THEN age + 1 ELSE limit

Tick ==
  /\ records' = [r \in Ids |-> IF r \in Stored
                   THEN [records[r] EXCEPT !.age = Older(@, Cutoff)] ELSE Nobody]
  /\ born' = [r \in Ids |-> IF born[r] = Unborn THEN Unborn ELSE Older(born[r], Ttl)]
  /\ UNCHANGED <<idx, held>>

Next ==
  \/ \E r \in Ids, k \in Keys \cup {NoKey} : Create(r, k)
  \/ \E c \in Callers :
       \/ \E r \in Ids : Read(c, r)
       \/ \E s \in Statuses : Update(c, s)
       \/ \E s, expected \in Statuses : UpdateIfStatus(c, expected, s)
  \/ Clear \/ Purge \/ Evict \/ Tick

Spec == Init /\ [][Next]_vars

-----------------------------------------------------------------------------
(* Properties.                                                             *)

\* The index answers as MySQL's unique index would: a key is taken exactly as
\* long as some record holds it, and by that record alone, whatever stale copy
\* was written back over a record whose key the archiver had freed.
IndexExact ==
  \A k \in Keys, r \in Ids : idx[k] = r <=> r \in Stored /\ records[r].key = k

\* A record that was purged or evicted stays gone: no caller brings it back
\* with the copy it still holds.
StaysGone ==
  [][\A r \in Ids \ Stored : born[r] # Unborn => r \notin Stored']_vars

\* The inductive invariant: a record that is there has been created.
Inv ==
  /\ TypeOK
  /\ IndexExact
  /\ \A r \in Stored : born[r] # Unborn

=============================================================================
