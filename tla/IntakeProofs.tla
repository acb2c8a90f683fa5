---------------------------- MODULE IntakeProofs ----------------------------
(***************************************************************************)
(* Proofs about Intake, for any number of clients, keys, rows and hosts,   *)
(* any batch size and any retention times.                                 *)
(***************************************************************************)
EXTENDS Intake, TLAPS

\* The initial state: no row, no answer, every archiver at rest.
LEMMA InvInit == Init => Inv
BY DEF Init, Inv, TypeOK, KeysUnique, RepliesNamed, Rows, NoRow, Keys, Ids, Oldest

\* An answer names a row that exists and, if the client sent a key, holds it.
LEMMA AnswerKept ==
  ASSUME Inv, NEW c \in Clients, NEW i \in Ids, Answer(c, i),
         UNCHANGED <<table, sweep, faults>>,
         i \in WithKey(KeyOf[c])
  PROVE  Inv'
<1>1. i \in Ids /\ table[i].status # "absent" /\ table[i].key = KeyOf[c]
  BY DEF WithKey, InStatus
<1>2. TypeOK'
  BY DEF Inv, TypeOK, Answer
<1>3. KeysUnique'
  BY DEF Inv, KeysUnique
<1>4. RepliesNamed'
  BY <1>1 DEF Inv, TypeOK, RepliesNamed, Freed, Answer
<1> QED
  BY <1>2, <1>3, <1>4 DEF Inv

\* A step that changes neither a row nor an answer.
LEMMA NothingKept ==
  ASSUME Inv, UNCHANGED <<table, replies>>,
         request' \in [Clients -> {"idle", "check", "create", "conflict"}],
         sweep' \in [Hosts -> {"rest", "clear", "purge"}],
         faults' \in Nat
  PROVE  Inv'
BY DEF Inv, TypeOK, KeysUnique, RepliesNamed, Freed

\* Create: the row that is inserted is the only one with its key.
LEMMA InsertKept ==
  ASSUME Inv, NEW c \in Clients, NEW i \in Ids, Insert(c, i), Answer(c, i),
         UNCHANGED <<sweep, faults>>
  PROVE  Inv'
<1>1. table' = [table EXCEPT ![i].status = "unfinished", ![i].key = KeyOf[c]]
  BY DEF Insert
<1>2. KeyOf[c] \in Keys
  BY DEF Keys
<1>3. table' \in [Ids -> Rows]
  BY <1>1, <1>2 DEF Inv, TypeOK, Rows
<1>4. /\ table'[i].status = "unfinished" /\ table'[i].key = KeyOf[c]
      /\ \A j \in Ids \ {i} : table'[j] = table[j]
  BY <1>1 DEF Inv, TypeOK, Rows
<1>5. TypeOK'
  BY <1>3 DEF Inv, TypeOK, Answer
<1>6. \A j \in Ids : table[j].key # None => table[j].status \in {"unfinished", "finished"}
  BY DEF Inv, TypeOK, KeysUnique, Rows
<1>7. \A j \in Ids : KeyOf[c] # None => table[j].key # KeyOf[c]
  BY <1>6 DEF Insert, WithKey, InStatus
<1>8. KeysUnique'
  BY <1>4, <1>7 DEF Inv, KeysUnique
<1>9. \A d \in Clients : \A j \in replies[d] : j # i
  BY DEF Inv, RepliesNamed, Insert
<1>10. \A d \in Clients : \A j \in replies'[d] : j \in replies[d] \/ (d = c /\ j = i)
  BY DEF Inv, TypeOK, Answer
<1>11. RepliesNamed'
  <2>1. ASSUME NEW d \in Clients, NEW j \in replies'[d]
        PROVE  /\ table'[j].status # "absent"
               /\ KeyOf[d] # None => table'[j].key = KeyOf[d] \/ Freed(j)'
    <3>1. CASE d = c /\ j = i
      BY <3>1, <1>4
    <3>2. CASE j \in replies[d]
      <4>1. j \in Ids \ {i}
        BY <3>2, <1>9 DEF Inv, TypeOK
      <4> QED
        BY <3>2, <4>1, <1>4 DEF Inv, RepliesNamed, Freed
    <3> QED
      BY <2>1, <1>10, <3>1, <3>2
  <2> QED
    BY <2>1 DEF RepliesNamed
<1> QED
  BY <1>5, <1>8, <1>11 DEF Inv

\* A step of the pipeline, of time or of an archiver: rows that exist go on
\* existing, and lose their key only when they are finished or deleted.
LEMMA RowsKept ==
  ASSUME Inv, table' \in [Ids -> Rows],
         UNCHANGED <<request, replies>>,
         sweep' \in [Hosts -> {"rest", "clear", "purge"}],
         faults' \in Nat,
         \A i \in Ids :
           \/ table'[i] = table[i]
           \/ /\ table[i].status \in {"unfinished", "finished"}
              /\ table'[i].status \in {"unfinished", "finished"}
              /\ table'[i].key = table[i].key
              /\ table[i].status = "finished" => table'[i].status = "finished"
           \/ /\ table[i].status = "finished"
              /\ table'[i].status \in {"finished", "deleted"}
              /\ table'[i].key = None
  PROVE  Inv'
<1>1. TypeOK'
  BY DEF Inv, TypeOK
<1>2. \A i \in Ids : table'[i].key = table[i].key \/ table'[i].key = None
  OBVIOUS
<1>3. KeysUnique'
  <2>1. \A i, j \in Ids : table'[i].key # None /\ table'[i].key = table'[j].key => i = j
    BY <1>2 DEF Inv, KeysUnique
  <2>2. \A i \in Ids : table'[i].status \in {"absent", "deleted"} => table'[i].key = None
    BY DEF Inv, KeysUnique
  <2> QED
    BY <2>1, <2>2 DEF KeysUnique
<1>4. RepliesNamed'
  <2>1. \A c \in Clients : replies[c] \subseteq Ids
    BY DEF Inv, TypeOK
  <2>2. \A i \in Ids : table[i].status # "absent" => table'[i].status # "absent"
    OBVIOUS
  <2>3. \A i \in Ids : Freed(i) => Freed(i)'
    BY DEF Freed
  <2>4. \A i \in Ids : table'[i].key = table[i].key \/ Freed(i)'
    BY DEF Freed
  <2> QED
    BY <2>1, <2>2, <2>3, <2>4 DEF Inv, RepliesNamed
<1> QED
  BY <1>1, <1>3, <1>4 DEF Inv

\* One statement of an archiver.
LEMMA StageKept ==
  ASSUME Inv, NEW h \in Hosts, NEW stage, NEW next \in {"rest", "clear", "purge"},
         NEW S \in SUBSET InStatus("finished"),
         NEW row \in [Ids -> Rows],
         \A i \in S : row[i].status \in {"finished", "deleted"} /\ row[i].key = None,
         Stage(h, stage, next, S, row)
  PROVE  Inv'
<1>1. UNCHANGED <<request, replies>>
  BY DEF Stage
<1>2. sweep' \in [Hosts -> {"rest", "clear", "purge"}]
  <2>1. \/ \E B \in Batches(S) :
             sweep' = [sweep EXCEPT ![h] = IF Cardinality(B) < Batch THEN next ELSE @]
        \/ sweep' = [sweep EXCEPT ![h] = next]
    BY DEF Stage
  <2>2. \E pc : sweep' = [sweep EXCEPT ![h] = pc] /\ pc \in {"rest", "clear", "purge"}
    <3>1. sweep[h] \in {"rest", "clear", "purge"}
      BY DEF Inv, TypeOK
    <3> QED
      BY <2>1, <3>1
  <2> QED
    BY <2>2 DEF Inv, TypeOK
<1>3. faults' \in Nat
  BY DEF Stage, Inv, TypeOK
<1>4. CASE UNCHANGED table
  BY <1>1, <1>2, <1>3, <1>4, RowsKept DEF Inv, TypeOK
<1>5. CASE \E B \in Batches(S) :
             table' = [i \in Ids |-> IF i \in B THEN row[i] ELSE table[i]]
  <2>1. PICK B \in SUBSET S :
          table' = [i \in Ids |-> IF i \in B THEN row[i] ELSE table[i]]
    BY <1>5 DEF Batches
  <2>2. table' \in [Ids -> Rows]
    BY <2>1 DEF Inv, TypeOK
  <2>3. \A i \in Ids :
          \/ table'[i] = table[i]
          \/ /\ table[i].status = "finished"
             /\ table'[i].status \in {"finished", "deleted"}
             /\ table'[i].key = None
    BY <2>1 DEF InStatus
  <2> QED
    BY <1>1, <1>2, <1>3, <2>2, <2>3, RowsKept
<1> QED
  BY <1>4, <1>5 DEF Stage

\* One step of a client, of the pipeline, of time or of an archiver keeps
\* the invariant.
LEMMA InvNext == Inv /\ [Next]_vars => Inv'
<1> SUFFICES ASSUME Inv, [Next]_vars PROVE Inv'
  OBVIOUS
<1> DEFINE States == {"idle", "check", "create", "conflict"}
           Stages == {"rest", "clear", "purge"}
<1>1. /\ request \in [Clients -> States] /\ sweep \in [Hosts -> Stages]
      /\ faults \in Nat /\ table \in [Ids -> Rows]
  BY DEF Inv, TypeOK
<1>2. ASSUME NEW c \in Clients, NEW pc \in States, request' = [request EXCEPT ![c] = pc],
             UNCHANGED <<table, replies, sweep, faults>>
      PROVE  Inv'
  BY <1>1, <1>2, NothingKept
<1>3. ASSUME NEW c \in Clients, Refuse(c) PROVE Inv'
  BY <1>2, <1>3 DEF Refuse
<1>4. ASSUME NEW c \in Clients, Receive(c) PROVE Inv'
  BY <1>2, <1>4 DEF Receive
<1>5. ASSUME NEW c \in Clients, Check(c) PROVE Inv'
  <2>1. CASE \E i \in WithKey(KeyOf[c]) : Answer(c, i) /\ UNCHANGED <<table, sweep, faults>>
    BY <2>1, AnswerKept DEF WithKey, InStatus
  <2>2. CASE request' = [request EXCEPT ![c] = "create"]
             /\ UNCHANGED <<table, replies, sweep, faults>>
    BY <2>2, <1>2
  <2> QED
    BY <1>5, <1>3, <2>1, <2>2 DEF Check
<1>6. ASSUME NEW c \in Clients, Create(c) PROVE Inv'
  <2>1. CASE \E i \in Ids : Insert(c, i) /\ Answer(c, i) /\ UNCHANGED <<sweep, faults>>
    BY <2>1, InsertKept
  <2>2. CASE request' = [request EXCEPT ![c] = "conflict"]
             /\ UNCHANGED <<table, replies, sweep, faults>>
    BY <2>2, <1>2
  <2> QED
    BY <1>6, <1>3, <2>1, <2>2 DEF Create
<1>7. ASSUME NEW c \in Clients, Replay(c) PROVE Inv'
  <2>1. CASE \E i \in WithKey(KeyOf[c]) : Answer(c, i) /\ UNCHANGED <<table, sweep, faults>>
    BY <2>1, AnswerKept DEF WithKey, InStatus
  <2> QED
    BY <1>7, <1>3, <2>1 DEF Replay
<1>8. ASSUME NEW i \in Ids, Finish(i) PROVE Inv'
  <2>1. table' = [table EXCEPT ![i].status = "finished", ![i].age = 0]
    BY <1>8 DEF Finish
  <2>2. table' \in [Ids -> Rows]
    <3>1. 0 \in 0 .. Oldest
      BY DEF Oldest
    <3>2. [table[i] EXCEPT !.status = "finished", !.age = 0] \in Rows
      BY <1>1, <3>1 DEF Rows
    <3>3. table' = [j \in Ids |-> IF j = i
                      THEN [table[i] EXCEPT !.status = "finished", !.age = 0]
                      ELSE table[j]]
      BY <2>1, <1>1
    <3> QED
      BY <3>2, <3>3, <1>1
  <2>3. \A j \in Ids : table'[j] = table[j] \/
          (/\ j = i /\ table'[j].status = "finished" /\ table'[j].key = table[j].key)
    BY <2>1, <1>1 DEF Rows
  <2> QED
    BY <1>1, <1>8, <2>2, <2>3, RowsKept DEF Finish
<1>9. ASSUME NEW i \in Ids, Pass(i) PROVE Inv'
  <2>1. PICK a \in 0 .. Oldest, k \in 0 .. Oldest :
          table' = [table EXCEPT ![i].age = a, ![i].kept = k]
    <3>1. table[i].age \in 0 .. Oldest /\ table[i].kept \in 0 .. Oldest
      BY <1>1 DEF Rows
    <3>2. \A n \in 0 .. Oldest : Older(n) \in 0 .. Oldest
      BY DEF Older, Oldest
    <3> QED
      BY <1>9, <3>1, <3>2 DEF Pass
  <2>2. table' \in [Ids -> Rows]
    <3>1. [table[i] EXCEPT !.age = a, !.kept = k] \in Rows
      BY <1>1 DEF Rows
    <3>2. table' = [j \in Ids |-> IF j = i THEN [table[i] EXCEPT !.age = a, !.kept = k]
                                  ELSE table[j]]
      BY <2>1, <1>1
    <3> QED
      BY <3>1, <3>2, <1>1
  <2>3. \A j \in Ids : table'[j] = table[j] \/
          (/\ j = i /\ table'[j].status = table[j].status /\ table'[j].key = table[j].key)
    BY <2>1, <1>1 DEF Rows
  <2> QED
    BY <1>1, <1>9, <2>2, <2>3, RowsKept DEF Pass
<1>10. ASSUME NEW h \in Hosts, Sweep(h) PROVE Inv'
  BY <1>1, <1>10, NothingKept DEF Sweep
<1>11. ASSUME NEW h \in Hosts, ClearKeys(h) PROVE Inv'
  <2> DEFINE row == [i \in Ids |-> [table[i] EXCEPT !.key = None, !.age = 0]]
  <2>1. row \in [Ids -> Rows]
    <3>1. None \in Keys /\ 0 \in 0 .. Oldest
      BY DEF Keys, Oldest
    <3>2. \A i \in Ids : [table[i] EXCEPT !.key = None, !.age = 0] \in Rows
      BY <1>1, <3>1 DEF Rows
    <3> QED
      BY <3>2
  <2>2. Clearable \in SUBSET InStatus("finished")
    BY DEF Clearable
  <2>3. \A i \in Clearable : row[i].status = "finished" /\ row[i].key = None
    BY <1>1 DEF Clearable, InStatus, Rows
  <2>4. Stage(h, "clear", "purge", Clearable, row)
    BY <1>11 DEF ClearKeys
  <2> HIDE DEF row
  <2> QED
    BY <2>1, <2>2, <2>3, <2>4, StageKept
<1>12. ASSUME NEW h \in Hosts, Purge(h) PROVE Inv'
  <2> DEFINE row == [i \in Ids |-> [NoRow EXCEPT !.status = "deleted"]]
  <2>1. row \in [Ids -> Rows]
    BY DEF NoRow, Rows, Keys, Oldest
  <2>2. Purgeable \in SUBSET InStatus("finished")
    BY DEF Purgeable
  <2>3. \A i \in Purgeable : row[i].status = "deleted" /\ row[i].key = None
    BY DEF Purgeable, InStatus, NoRow
  <2>4. Stage(h, "purge", "rest", Purgeable, row)
    BY <1>12 DEF Purge
  <2> HIDE DEF row
  <2> QED
    BY <2>1, <2>2, <2>3, <2>4, StageKept
<1>13. CASE UNCHANGED vars
  BY <1>1, <1>13, NothingKept DEF vars
<1> QED
  BY <1>4, <1>5, <1>6, <1>7, <1>8, <1>9, <1>10, <1>11, <1>12, <1>13 DEF Next

\* Inv holds in every behaviour: no two rows ever hold one key, and every
\* answer names a row that holds the key it was asked with or has been freed.
THEOREM IntakeInv == Spec => []Inv
<1> QED
  BY InvInit, InvNext, PTL DEF Spec

\* Two unfinished requests never share a key (OneUnfinished).
THEOREM OneUnfinishedHolds == Spec => []OneUnfinished
<1>1. Inv => OneUnfinished
  BY DEF Inv, KeysUnique, OneUnfinished, InStatus
<1> QED
  BY <1>1, IntakeInv, PTL

\* The answers to one key name one request (AnswersAgree).
THEOREM AnswersAgreeHolds == Spec => []AnswersAgree
<1>1. Inv => AnswersAgree
  BY DEF Inv, TypeOK, KeysUnique, RepliesNamed, AnswersAgree
<1> QED
  BY <1>1, IntakeInv, PTL

=============================================================================
