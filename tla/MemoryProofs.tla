---------------------------- MODULE MemoryProofs ----------------------------
(* Proofs about MemoryTable: the index of keys is exact, and what is gone   *)
(* stays gone, for every set of records, keys and callers.                  *)
EXTENDS MemoryTable, TLAPS

USE DEF MemoryAssumption

\* A step that leaves the variables keeps the invariant.
LEMMA StutterKeeps ==
  ASSUME MemoryAssumption, Inv, UNCHANGED vars
  PROVE  Inv'
  BY DEF Inv, TypeOK, IndexExact, Stored, vars

\* Removing a set of stored records with their keys keeps the invariant.
LEMMA RemoveKeeps ==
  ASSUME MemoryAssumption, Inv, NEW S \in SUBSET Stored, Remove(S)
  PROVE  Inv'
<1>1. TypeOK'
  BY DEF Inv, TypeOK, Remove, Unindexed
<1>2. Stored' = Stored \ S
  BY DEF Stored, Remove
<1>3. IndexExact'
  <2> SUFFICES ASSUME NEW k \in Keys, NEW r \in Ids
               PROVE  (idx[k])' = r <=> r \in Stored' /\ (records[r].key)' = k
    BY DEF IndexExact
  <2>1. CASE r \in S
    BY <2>1, <1>2 DEF Inv, TypeOK, IndexExact, Remove, Unindexed, Stored
  <2>2. CASE r \notin S
    BY <2>2, <1>2 DEF Inv, TypeOK, IndexExact, Remove, Unindexed, Stored
  <2>3. QED BY <2>1, <2>2
<1>4. QED
  BY <1>1, <1>2, <1>3 DEF Inv, Remove

\* The archiver's freeing of keys keeps the invariant.
LEMMA ClearKeeps ==
  ASSUME MemoryAssumption, Inv, Clear
  PROVE  Inv'
<1>1. PICK S \in Batches({r \in Archivable : records[r].key # NoKey}) :
        /\ records' = [r \in Ids |-> IF r \in S THEN [records[r] EXCEPT !.key = NoKey]
                                                ELSE records[r]]
        /\ idx' = Unindexed(S)
  BY DEF Clear
<1>2. S \subseteq Stored
  BY DEF Batches, Archivable
<1>3. UNCHANGED <<born, held>>
  BY DEF Clear
<1>4. \A r \in S : records[r] \in Recs /\ [records[r] EXCEPT !.key = NoKey] \in Recs
  BY <1>2 DEF Inv, TypeOK, Stored, Recs
<1>5. TypeOK'
  BY <1>1, <1>3, <1>4 DEF Inv, TypeOK, Unindexed
<1>6. Stored' = Stored
  BY <1>1, <1>2, <1>4 DEF Stored
<1>7. \A r \in Stored : records'[r].key = IF r \in S THEN NoKey ELSE records[r].key
  BY <1>1, <1>2, <1>4 DEF Stored, Recs
<1>8. IndexExact'
  <2> SUFFICES ASSUME NEW k \in Keys, NEW r \in Ids
               PROVE  idx'[k] = r <=> r \in Stored /\ records'[r].key = k
    BY <1>6 DEF IndexExact
  <2>1. idx[k] = r <=> r \in Stored /\ records[r].key = k
    BY DEF Inv, IndexExact
  <2>2. idx'[k] = IF \E q \in S : records[q].key = k THEN Nobody ELSE idx[k]
    BY <1>1 DEF Unindexed
  <2>3. ASSUME NEW q \in S, records[q].key = k PROVE idx[k] = q
    BY <1>2, <2>3 DEF Inv, IndexExact, Stored
  <2>4. QED BY <1>2, <1>7, <2>1, <2>2, <2>3 DEF Stored
<1>9. QED
  BY <1>3, <1>5, <1>6, <1>8 DEF Inv

\* A record r that takes key k, free or its own, keeps the index exact.
LEMMA PlacedKeeps ==
  ASSUME MemoryAssumption, Inv, NEW r \in Ids, NEW k \in Keys \cup {NoKey},
         NEW old, NEW status \in Statuses, Free(k, r),
         old = IF r \in Stored THEN records[r].key ELSE NoKey,
         records' = [records EXCEPT ![r] = [key |-> k, status |-> status, age |-> 0]],
         idx' = Reindexed(old, k, r),
         held' = held,
         born' \in [Ids -> {Unborn} \cup 0 .. Ttl],
         \A q \in Ids : born'[q] = Unborn => born[q] = Unborn,
         born'[r] # Unborn
  PROVE  Inv'
<1> DEFINE new == [key |-> k, status |-> status, age |-> 0]
<1>1. new \in Recs /\ new # Nobody
  BY DEF Recs
<1>2. records' \in [Ids -> Recs \cup {Nobody}]
  BY <1>1 DEF Inv, TypeOK
<1>3. idx' \in [Keys -> Ids \cup {Nobody}]
  BY DEF Inv, TypeOK, Reindexed
<1>4. TypeOK'
  BY <1>2, <1>3 DEF Inv, TypeOK
<1>5. \A q \in Ids : records'[q] = IF q = r THEN new ELSE records[q]
  BY DEF Inv, TypeOK
<1>6. Stored' = Stored \cup {r}
  BY <1>1, <1>5 DEF Stored
<1>7. IndexExact'
  <2> SUFFICES ASSUME NEW j \in Keys, NEW q \in Ids
               PROVE  idx'[j] = q <=> q \in Stored' /\ records'[q].key = j
    BY DEF IndexExact
  <2>1. idx'[j] = IF j = k THEN r ELSE IF j = old THEN Nobody ELSE idx[j]
    BY DEF Reindexed
  <2>2. idx[j] = q <=> q \in Stored /\ records[q].key = j
    BY DEF Inv, IndexExact
  <2>3. records'[r].key = k
    BY <1>5
  <2>4. CASE q = r
    <3>1. q \in Stored' /\ (records'[q].key = j <=> k = j)
      BY <1>6, <2>3, <2>4
    <3>2. CASE j = k
      BY <2>1, <2>4, <3>1, <3>2
    <3>3. CASE j # k /\ j = old
      BY <2>1, <3>1, <3>3
    <3>4. CASE j # k /\ j # old
      <4>1. idx[j] # q
        BY <2>2, <2>4, <3>4
      <4>2. QED BY <2>1, <3>1, <3>4, <4>1
    <3>5. QED BY <3>2, <3>3, <3>4
  <2>5. CASE q # r
    <3>1. q \in Stored' /\ records'[q].key = j <=> idx[j] = q
      BY <1>5, <1>6, <2>2, <2>5
    <3>2. CASE j = k
      BY <2>1, <2>5, <3>1, <3>2 DEF Free
    <3>3. CASE j # k /\ j = old
      <4>1. idx[j] = r
        BY <3>3 DEF Inv, IndexExact, Stored
      <4>2. QED BY <2>1, <2>5, <3>1, <3>3, <4>1
    <3>4. CASE j # k /\ j # old
      BY <2>1, <3>1, <3>4
    <3>5. QED BY <3>2, <3>3, <3>4
  <2>6. QED BY <2>4, <2>5
<1>8. QED
  BY <1>4, <1>6, <1>7 DEF Inv, Stored

\* A new record keeps the invariant.
LEMMA CreateKeeps ==
  ASSUME MemoryAssumption, Inv, NEW r \in Ids, NEW k \in Keys \cup {NoKey}, Create(r, k)
  PROVE  Inv'
<1>1. r \notin Stored
  BY DEF Inv, Create
<1>2. /\ born' \in [Ids -> {Unborn} \cup 0 .. Ttl]
      /\ \A q \in Ids : born'[q] = Unborn => born[q] = Unborn
      /\ born'[r] # Unborn
  BY DEF Inv, TypeOK, Create, Unborn
<1>3. QED
  BY <1>1, <1>2, PlacedKeeps DEF Create, Statuses

\* A copy written back keeps the invariant, stale as it may be.
LEMMA PutKeeps ==
  ASSUME MemoryAssumption, Inv, NEW c \in Callers, NEW s \in Statuses,
         held[c] # Nobody, Known(held[c].id), Put(c, s)
  PROVE  Inv'
<1> DEFINE r == held[c].id
           k == held[c].key
           old == IF r \in Stored THEN records[r].key ELSE NoKey
<1>1. r \in Ids /\ k \in Keys \cup {NoKey} /\ r \in Stored
  BY DEF Inv, TypeOK, Copies, Known
<1>2. /\ born' = born /\ held' = held
      /\ Free(k, r)
      /\ records' = [records EXCEPT ![r] = [key |-> k, status |-> s, age |-> 0]]
      /\ idx' = Reindexed(old, k, r)
  BY DEF Put
<1>3. /\ born' \in [Ids -> {Unborn} \cup 0 .. Ttl]
      /\ \A q \in Ids : born'[q] = Unborn => born[q] = Unborn
      /\ born'[r] # Unborn
  BY <1>1, <1>2 DEF Inv, TypeOK
<1> HIDE DEF r, k, old
<1>4. old = IF r \in Stored THEN records[r].key ELSE NoKey
  BY DEF old
<1>5. QED
  BY <1>1, <1>2, <1>3, <1>4, PlacedKeeps

\* A clone that is handed out is a copy of a stored record.
LEMMA ReadKeeps ==
  ASSUME MemoryAssumption, Inv, NEW c \in Callers, NEW r \in Ids, Read(c, r)
  PROVE  Inv'
<1>1. records[r] \in Recs
  BY DEF Inv, TypeOK, Read, Stored
<1>2. [id |-> r, key |-> records[r].key] \in Copies
  BY <1>1 DEF Recs, Copies
<1>3. TypeOK'
  BY <1>2 DEF Inv, TypeOK, Read
<1>4. QED
  BY <1>3 DEF Inv, IndexExact, Stored, Read

\* Time passes: only ages change.
LEMMA TickKeeps ==
  ASSUME MemoryAssumption, Inv, Tick
  PROVE  Inv'
<1>1. \A r \in Stored : /\ records[r] \in Recs
                        /\ records'[r] = [records[r] EXCEPT !.age = Older(@, Cutoff)]
  BY DEF Inv, TypeOK, Tick, Stored
<1>2. \A r \in Stored : records'[r] \in Recs /\ records'[r].key = records[r].key
  <2> TAKE r \in Stored
  <2>1. records[r].age \in 0 .. Cutoff /\ records[r] \in Recs
    BY <1>1 DEF Recs
  <2>2. Older(records[r].age, Cutoff) \in 0 .. Cutoff
    BY <2>1 DEF Older
  <2>3. records'[r] = [key |-> records[r].key, status |-> records[r].status,
                       age |-> Older(records[r].age, Cutoff)]
    BY <1>1, <2>1 DEF Recs
  <2>4. QED BY <2>1, <2>2, <2>3 DEF Recs
<1>3. \A r \in Ids \ Stored : records'[r] = Nobody
  BY DEF Tick
<1>4. records' \in [Ids -> Recs \cup {Nobody}]
  BY <1>2, <1>3 DEF Tick
<1>5. /\ born' \in [Ids -> {Unborn} \cup 0 .. Ttl]
      /\ \A r \in Ids : born'[r] = Unborn => born[r] = Unborn
  <2>1. \A r \in Ids : born[r] = Unborn \/ born[r] \in 0 .. Ttl
    BY DEF Inv, TypeOK
  <2>2. \A n \in 0 .. Ttl : Older(n, Ttl) \in 0 .. Ttl
    BY DEF Older
  <2>3. QED BY <2>1, <2>2 DEF Tick, Unborn
<1>6. TypeOK'
  BY <1>4, <1>5 DEF Inv, TypeOK, Tick
<1>7. Stored' = Stored
  BY <1>2, <1>3 DEF Stored
<1>8. IndexExact'
  <2> SUFFICES ASSUME NEW k \in Keys, NEW r \in Ids
               PROVE  idx'[k] = r <=> r \in Stored /\ records'[r].key = k
    BY <1>7 DEF IndexExact
  <2>1. idx'[k] = idx[k]
    BY DEF Tick
  <2>2. QED BY <1>2, <2>1 DEF Inv, IndexExact
<1>9. QED
  BY <1>5, <1>6, <1>7, <1>8 DEF Inv, Stored

LEMMA InitInv == MemoryAssumption /\ Init => Inv
<1> SUFFICES ASSUME MemoryAssumption, Init PROVE Inv OBVIOUS
<1>1. TypeOK
  BY DEF Init, TypeOK
<1>2. Stored = {}
  BY DEF Init, Stored
<1>3. QED
  BY <1>1, <1>2 DEF Inv, Init, IndexExact

LEMMA NextInv == MemoryAssumption /\ Inv /\ [Next]_vars => Inv'
<1> SUFFICES ASSUME MemoryAssumption, Inv, [Next]_vars PROVE Inv' OBVIOUS
<1>1. ASSUME NEW r \in Ids, NEW k \in Keys \cup {NoKey}, Create(r, k) PROVE Inv'
  BY <1>1, CreateKeeps
<1>2. ASSUME NEW c \in Callers, NEW r \in Ids, Read(c, r) PROVE Inv'
  BY <1>2, ReadKeeps
<1>3. ASSUME NEW c \in Callers, NEW s \in Statuses, Update(c, s) PROVE Inv'
  BY <1>3, PutKeeps DEF Update
<1>4. ASSUME NEW c \in Callers, NEW s \in Statuses, NEW expected \in Statuses,
             UpdateIfStatus(c, expected, s)
      PROVE  Inv'
  BY <1>4, PutKeeps DEF UpdateIfStatus
<1>5. CASE Clear
  BY <1>5, ClearKeeps
<1>6. CASE Purge
  <2>1. PICK S \in Batches(Archivable) : Remove(S)
    BY <1>6 DEF Purge
  <2>2. S \in SUBSET Stored
    BY DEF Batches, Archivable
  <2>3. QED BY <2>1, <2>2, RemoveKeeps
<1>7. CASE Evict
  BY <1>7, RemoveKeeps DEF Evict
<1>8. CASE Tick
  BY <1>8, TickKeeps
<1>9. CASE UNCHANGED vars
  BY <1>9, StutterKeeps
<1>10. QED
  BY <1>1, <1>2, <1>3, <1>4, <1>5, <1>6, <1>7, <1>8, <1>9 DEF Next

\* The invariant holds in every state, for every set of records, of keys and
\* of callers of store/memory.go.
THEOREM MemoryInv == ASSUME MemoryAssumption PROVE Spec => []Inv
<1>1. QED BY InitInv, NextInv, PTL DEF Spec

\* The index of keys of store/memory.go answers as a unique index would.
THEOREM IndexExactHolds == ASSUME MemoryAssumption PROVE Spec => []IndexExact
<1>1. Inv => IndexExact
  BY DEF Inv
<1>2. QED BY <1>1, MemoryInv, PTL

\* Types, from the same invariant.
THEOREM TypeCorrect == ASSUME MemoryAssumption PROVE Spec => []TypeOK
<1>1. Inv => TypeOK
  BY DEF Inv
<1>2. QED BY <1>1, MemoryInv, PTL

\* No step brings back a record that was purged or evicted: Create is refused
\* for its id, and the updates ask for the record first.
LEMMA GoneNext ==
  ASSUME MemoryAssumption, Inv, [Next]_vars, NEW r \in Ids \ Stored, born[r] # Unborn
  PROVE  r \notin Stored'
<1>1. records[r] = Nobody
  BY DEF Stored
<1>2. ASSUME NEW c \in Callers, NEW s \in Statuses, Known(held[c].id), Put(c, s)
      PROVE  records'[r] = Nobody
  BY <1>1, <1>2 DEF Inv, TypeOK, Put, Known
<1>3. ASSUME NEW S \in SUBSET Stored, Remove(S) PROVE records'[r] = Nobody
  BY <1>1, <1>3 DEF Remove
<1>4. CASE \E q \in Ids, k \in Keys \cup {NoKey} : Create(q, k)
  BY <1>1, <1>4 DEF Create, Inv, TypeOK, Stored
<1>5. CASE \E c \in Callers, q \in Ids : Read(c, q)
  BY <1>1, <1>5 DEF Read, Stored
<1>6. CASE \E c \in Callers, s \in Statuses : Update(c, s)
  BY <1>2, <1>6 DEF Update, Stored
<1>7. CASE \E c \in Callers : \E s, expected \in Statuses : UpdateIfStatus(c, expected, s)
  BY <1>2, <1>7 DEF UpdateIfStatus, Stored
<1>8. CASE Clear
  <2>1. \E S \in SUBSET Stored :
          records' = [q \in Ids |-> IF q \in S THEN [records[q] EXCEPT !.key = NoKey]
                                                ELSE records[q]]
    BY <1>8 DEF Clear, Batches, Archivable
  <2>2. QED BY <1>1, <2>1 DEF Stored
<1>9. CASE Purge
  <2>1. \E S \in SUBSET Stored : Remove(S)
    BY <1>9 DEF Purge, Batches, Archivable
  <2>2. QED BY <1>3, <2>1 DEF Stored
<1>10. CASE Evict
  BY <1>3, <1>10 DEF Evict, Stored
<1>11. CASE Tick
  BY <1>11 DEF Tick, Stored
<1>12. CASE UNCHANGED vars
  BY <1>1, <1>12 DEF vars, Stored
<1>13. QED
  BY <1>4, <1>5, <1>6, <1>7, <1>8, <1>9, <1>10, <1>11, <1>12 DEF Next

\* What the archiver or the reaper of store/memory.go removed, no stale copy
\* brings back.
THEOREM StaysGoneHolds == ASSUME MemoryAssumption PROVE Spec => StaysGone
<1>1. MemoryAssumption /\ Inv /\ [Next]_vars
        => [\A r \in Ids \ Stored : born[r] # Unborn => r \notin Stored']_vars
  BY GoneNext
<1>2. QED BY <1>1, MemoryInv, PTL DEF Spec, StaysGone

=============================================================================
