--------------------------- MODULE PipelineProofs ---------------------------
(***************************************************************************)
(* Inv is an invariant of the pipeline for any number of requests, hosts,  *)
(* crashes, faults, foreign transactions and mempool losses, and with it   *)
(* TypeOK, NumberedInFlight and AnnouncedIsOnChain.  The proof goes up the *)
(* modules: what the SQL statements do to the rows, what the node does to  *)
(* its log, then one lemma per group of actions.                           *)
(***************************************************************************)
EXTENDS Pipeline, FiniteSetTheorems, SequenceTheorems, TLAPS

StoreInv == StoreTypeOK /\ RowsSound
ActorInv == actor \in [Actors -> ActorStates] /\ HandsSound
ChanInv == chan \in [Hosts -> Seq(Items)] /\ ChansSound
RestOK ==
  /\ age \in [Txns -> 0 .. 2]
  /\ signed \in [Txns -> Nat]
  /\ told \in [Txns -> SUBSET Terminal]
  /\ cancelled \in [Hosts -> BOOLEAN]
  /\ faults \in Nat
WorkInv == StoreInv /\ NodeTypeOK /\ ActorInv /\ ChanInv /\ RestOK
PollerInv == PollerTypeOK /\ PollsSound

-----------------------------------------------------------------------------
(* The store.                                                              *)

LEMMA FiniteRequests ==
  ASSUME NEW S \in SUBSET Txns
  PROVE  Cardinality(S) \in Nat
<1>1. IsFiniteSet(Txns)
  BY NAssumption, FS_Interval DEF Txns
<1> QED
  BY <1>1, FS_Subset, FS_CardinalityType

\* Writing back a sound record leaves sound rows.
LEMMA UpdateSound ==
  ASSUME StoreInv, NEW rec, Sound(rec), Update(rec)
  PROVE  StoreInv'
<1>1. rec \in Records
  BY DEF Sound
<1>2. StoreTypeOK'
  BY <1>1 DEF StoreInv, StoreTypeOK, Update, Records
<1>3. ASSUME NEW t \in Txns PROVE Sound(Row(t))'
  <2>1. CASE t = rec.txn
    <3>1. Row(t)' = rec
      BY <1>1, <2>1 DEF StoreInv, StoreTypeOK, Update, Row, Records
    <3> QED BY <3>1 DEF Sound, Numbered
  <2>2. CASE t # rec.txn
    <3>1. Row(t)' = Row(t)
      BY <1>1, <2>2 DEF StoreInv, StoreTypeOK, Update, Row, Records
    <3> QED BY <3>1 DEF StoreInv, RowsSound, Sound, Numbered
  <2> QED BY <2>1, <2>2
<1> QED BY <1>2, <1>3 DEF StoreInv, RowsSound

LEMMA CreateSound ==
  ASSUME StoreInv, NEW t \in Txns, Create(t)
  PROVE  StoreInv'
<1>1. StoreTypeOK'
  BY DEF StoreInv, StoreTypeOK, Create, Statuses
<1>2. ASSUME NEW u \in Txns PROVE Sound(Row(u))'
  <2>1. Sound(Row(u)) /\ rows[t].status = "absent"
    BY DEF StoreInv, RowsSound, Create
  <2>2. CASE u = t
    <3>1. Row(u)' = [Row(u) EXCEPT !.status = "queued"] /\ Row(u).status = "absent"
      BY <2>1, <2>2 DEF StoreInv, StoreTypeOK, Create, Row
    <3> QED BY <2>1, <3>1 DEF Sound, Numbered, Records, Statuses
  <2>3. CASE u # t
    <3>1. Row(u)' = Row(u)
      BY <2>3 DEF StoreInv, StoreTypeOK, Create, Row
    <3> QED BY <2>1, <3>1 DEF Sound, Numbered
  <2> QED BY <2>2, <2>3
<1> QED BY <1>1, <1>2 DEF StoreInv, RowsSound

LEMMA ClaimSound ==
  ASSUME StoreInv, NEW t \in Txns, ClaimOldest(t)
  PROVE  StoreInv'
<1>0. nextSeq \in Nat /\ None \notin Nat
  BY NoneAssumption DEF StoreInv, StoreTypeOK
<1>1. StoreTypeOK'
  <2>1. [rows[t] EXCEPT !.status = "processing", !.seq = nextSeq]
          \in [status : Statuses, seq : Nat \cup {None}, hash : Hashes \cup {None}]
    BY <1>0 DEF StoreInv, StoreTypeOK, Statuses
  <2> QED BY <1>0, <2>1 DEF StoreInv, StoreTypeOK, ClaimOldest
<1>2. ASSUME NEW u \in Txns PROVE Sound(Row(u))'
  <2>1. Sound(Row(u))
    BY DEF StoreInv, RowsSound
  <2>2. CASE u = t
    <3>1. Row(u)' = [txn |-> u, status |-> "processing", seq |-> nextSeq,
                     hash |-> Row(u).hash]
      BY <2>2 DEF StoreInv, StoreTypeOK, ClaimOldest, Row
    <3> QED BY <1>0, <2>1, <3>1 DEF Sound, Numbered, Records, Statuses, Row
  <2>3. CASE u # t
    <3>1. Row(u)' = Row(u)
      BY <2>3 DEF StoreInv, StoreTypeOK, ClaimOldest, Row
    <3> QED BY <2>1, <3>1 DEF Sound, Numbered
  <2> QED BY <2>2, <2>3
<1> QED BY <1>1, <1>2 DEF StoreInv, RowsSound

\* The counter never leaves the natural numbers, whatever is taken from it.
LEMMA LoweredType ==
  ASSUME nextSeq \in Nat, NEW n \in Nat
  PROVE  Lowered(n) \in Nat
BY DEF Lowered

LEMMA GiveBackSound ==
  ASSUME StoreInv, NEW S, NEW burned \in Nat, GiveBack(S, burned)
  PROVE  StoreInv'
<1>1. CASE UNCHANGED storeVars
  BY <1>1 DEF StoreInv, StoreTypeOK, RowsSound, Row, Sound, Numbered, storeVars
<1>2. CASE ~UNCHANGED storeVars
  <2>1. /\ rows' = [t \in Txns |-> IF t \in S
                      THEN [rows[t] EXCEPT !.status = "queued", !.seq = None]
                      ELSE rows[t]]
        /\ nextSeq' = Lowered(burned)
    BY <1>2 DEF GiveBack
  <2>2. StoreTypeOK'
    <3>1. nextSeq' \in Nat
      BY <2>1, LoweredType DEF StoreInv, StoreTypeOK
    <3>2. ASSUME NEW t \in Txns
          PROVE  [rows[t] EXCEPT !.status = "queued", !.seq = None]
                   \in [status : Statuses, seq : Nat \cup {None}, hash : Hashes \cup {None}]
      BY DEF StoreInv, StoreTypeOK, Statuses
    <3>3. rows' \in [Txns -> [status : Statuses, seq : Nat \cup {None},
                              hash : Hashes \cup {None}]]
      BY <2>1, <3>2 DEF StoreInv, StoreTypeOK
    <3> QED BY <3>1, <3>3 DEF StoreTypeOK
  <2>3. ASSUME NEW t \in Txns PROVE Sound(Row(t))'
    <3>1. Sound(Row(t))
      BY DEF StoreInv, RowsSound
    <3>2. CASE t \in S
      <4>1. Row(t)' = [txn |-> t, status |-> "queued", seq |-> None,
                       hash |-> Row(t).hash]
        BY <2>1, <3>2 DEF StoreInv, StoreTypeOK, Row
      <4> QED BY <3>1, <4>1 DEF Sound, Numbered, Records, Statuses, Row
    <3>3. CASE t \notin S
      <4>1. Row(t)' = Row(t)
        BY <2>1, <3>3 DEF StoreInv, StoreTypeOK, Row
      <4> QED BY <3>1, <4>1 DEF Sound, Numbered
    <3> QED BY <3>2, <3>3
  <2> QED BY <2>2, <2>3 DEF StoreInv, RowsSound
<1> QED BY <1>1, <1>2

LEMMA StoreFrame ==
  ASSUME StoreInv, rows' = rows, nextSeq' \in Nat
  PROVE  StoreInv'
BY DEF StoreInv, StoreTypeOK, RowsSound, Row, Sound, Numbered

\* The statements that only move the counter, and the two that give rows back.
LEMMA CounterSound ==
  ASSUME StoreInv, NEW n \in Nat,
         ReleaseSequence \/ ReconcileSequence(n) \/ ForceResetSequenceToChain(n)
  PROVE  StoreInv'
<1>1. rows' = rows
  BY DEF ReleaseSequence, ReconcileSequence, ForceResetSequenceToChain
<1>2. nextSeq \in Nat
  BY DEF StoreInv, StoreTypeOK
<1>3. Cardinality(SubmittedFrom(n)) \in Nat
  BY FiniteRequests DEF SubmittedFrom, InStatus
<1>4. nextSeq' \in Nat
  BY <1>2, <1>3, LoweredType
     DEF ReleaseSequence, ReconcileSequence, ForceResetSequenceToChain
<1> QED BY <1>1, <1>4, StoreFrame

LEMMA ShiftSound ==
  ASSUME StoreInv, NEW n, ShiftSenderSequences(n)
  PROVE  StoreInv'
<1>1. Cardinality(Above(n)) \in Nat
  BY FiniteRequests DEF Above, InStatus
<1> QED BY <1>1, GiveBackSound DEF ShiftSenderSequences

LEMMA RecoverSound ==
  ASSUME StoreInv, NEW S \in SUBSET Txns, RecoverStaleProcessing(S)
  PROVE  StoreInv'
<1>1. Cardinality({t \in S : rows[t].seq # None}) \in Nat
  BY FiniteRequests
<1> QED BY <1>1, GiveBackSound DEF RecoverStaleProcessing

-----------------------------------------------------------------------------
(* The node.                                                               *)

\* What is on chain stays on chain.
Grows ==
  /\ committed' \in Nat /\ committed <= committed'
  /\ \A i \in 1 .. committed : log'[i] = log[i]

LEMMA NodeFrame ==
  ASSUME NodeTypeOK, UNCHANGED nodeVars
  PROVE  NodeTypeOK' /\ Grows
BY DEF NodeTypeOK, nodeVars, Grows

LEMMA AcceptSound ==
  ASSUME NodeTypeOK, NEW hash \in Hashes, NEW ok \in BOOLEAN, Accept(hash, ok)
  PROVE  NodeTypeOK' /\ Grows
<1>1. [hash |-> hash, ok |-> ok] \in [hash : Hashes \cup {None}, ok : BOOLEAN]
  OBVIOUS
<1>2. log' \in Seq([hash : Hashes \cup {None}, ok : BOOLEAN]) /\ Len(log') = Len(log) + 1
  BY <1>1 DEF NodeTypeOK, Accept
<1>3. \A i \in 1 .. Len(log) : log'[i] = log[i]
  BY <1>1 DEF NodeTypeOK, Accept
<1> QED BY <1>2, <1>3 DEF NodeTypeOK, Accept, Grows

LEMMA CommitSound ==
  ASSUME NodeTypeOK, CommitNext
  PROVE  NodeTypeOK' /\ Grows
BY DEF NodeTypeOK, CommitNext, Grows

LEMMA AbandonSound ==
  ASSUME NodeTypeOK, NEW hash \in Hashes, Abandon(hash)
  PROVE  NodeTypeOK' /\ Grows
BY DEF NodeTypeOK, Abandon, Grows

LEMMA LandSound ==
  ASSUME NodeTypeOK, Land
  PROVE  NodeTypeOK' /\ Grows
<1>1. PICK hash \in underway : Accept(hash, Executes(hash))
  BY DEF Land
<1>2. hash \in Hashes /\ Executes(hash) \in BOOLEAN
  BY DEF NodeTypeOK, Executes
<1> QED BY <1>1, <1>2, AcceptSound

\* The mempool loses nothing but the last entry.
LEMMA DropLog ==
  ASSUME NodeTypeOK, DropLast
  PROVE  /\ log' \in Seq([hash : Hashes \cup {None}, ok : BOOLEAN])
         /\ Len(log') = Len(log) - 1 /\ Len(log) \in Nat
         /\ \A i \in 1 .. Len(log) - 1 : log'[i] = log[i]
<1> DEFINE Entries == [hash : Hashes \cup {None}, ok : BOOLEAN]
           n == Len(log) - 1
<1>1. log \in Seq(Entries) /\ committed \in 0 .. Len(log) /\ committed < Len(log)
  BY DEF NodeTypeOK, DropLast
<1>2. log' = SubSeq(log, 1, Len(log) - 1)
  BY DEF DropLast
<1> HIDE DEF Entries
<1>3. Len(log) - 1 \in Nat /\ \A i \in 1 .. Len(log) - 1 : log[i] \in Entries
  BY <1>1
<1>4. n \in Int /\ n >= 0
  BY <1>3
<1>5. /\ SubSeq(log, 1, n) \in Seq(Entries)
      /\ Len(SubSeq(log, 1, n)) = IF 1 <= n THEN n - 1 + 1 ELSE 0
      /\ \A i \in 1 .. n - 1 + 1 : SubSeq(log, 1, n)[i] = log[1 + i - 1]
  BY <1>3, <1>4, SubSeqProperties
<1>6. /\ log' \in Seq(Entries)
      /\ Len(log') = Len(log) - 1
      /\ \A i \in 1 .. Len(log) - 1 : log'[i] = log[i]
  <2>1. log' = SubSeq(log, 1, n)
    BY <1>2
  <2> HIDE DEF n
  <2>2. n - 1 + 1 = n /\ (~(1 <= n) => n = 0)
    BY <1>4
  <2>3. \A i \in 1 .. n : 1 + i - 1 = i
    BY <1>4
  <2>4. Len(log') = n /\ \A i \in 1 .. n : log'[i] = log[i]
    BY <1>5, <2>1, <2>2, <2>3
  <2> QED BY <1>5, <2>1, <2>4 DEF n
<1>7. Len(log) \in Nat
  BY <1>1
<1> QED BY <1>6, <1>7 DEF Entries

LEMMA DropSound ==
  ASSUME NodeTypeOK, DropLast
  PROVE  NodeTypeOK' /\ Grows
BY DropLog DEF NodeTypeOK, DropLast, Grows

LEMMA ExternalSound ==
  ASSUME NodeTypeOK, External
  PROVE  NodeTypeOK' /\ Grows
<1> DEFINE e == [hash |-> None, ok |-> TRUE]
<1>1. e \in [hash : Hashes \cup {None}, ok : BOOLEAN]
  OBVIOUS
<1>2. log' = Append(log, e) /\ UNCHANGED <<committed, accepted, underway, drops>>
  BY DEF External
<1>3. log' \in Seq([hash : Hashes \cup {None}, ok : BOOLEAN]) /\ Len(log') = Len(log) + 1
  BY <1>1, <1>2 DEF NodeTypeOK
<1>4. \A i \in 1 .. Len(log) : log'[i] = log[i]
  BY <1>1, <1>2 DEF NodeTypeOK
<1> QED BY <1>2, <1>3, <1>4 DEF NodeTypeOK, Grows

LEMMA GrowsKeeps ==
  ASSUME NodeTypeOK, Grows
  PROVE  /\ \A hash : Succeeded(hash) => Succeeded(hash)'
         /\ \A t : Executed(t) => Executed(t)'
<1>1. \A i \in 1 .. committed : i \in 1 .. committed' /\ log'[i] = log[i]
  BY DEF NodeTypeOK, Grows
<1> QED BY <1>1 DEF Succeeded, Executed, Is, Own

-----------------------------------------------------------------------------
(* What an actor holds.                                                    *)

\* It is enough to look at the one actor that moves.
LEMMA ActorMoves ==
  ASSUME ActorInv, NEW a \in Actors, actor' \in [Actors -> ActorStates],
         \A b \in Actors : b # a => actor'[b] = actor[b],
         HandSound(actor'[a])
  PROVE  ActorInv'
BY DEF ActorInv, HandsSound

Plain == {"off", "claim", "receive", "stop", "drain", "sweepList", "sweep"}

LEMMA PCsOf ==
  /\ Procedures \subseteq PCs
  /\ Plain \subseteq PCs
  /\ Returns \subseteq Plain
  /\ Plain \cap (Procedures \cup {"load", "prepare", "push", "persist", "submit",
                                  "mark", "counter", "drainReconcile"}) = {}
BY DEF Procedures, Plain, PCs, Returns

LEMMA OffState ==
  ASSUME NEW pc \in Plain
  PROVE  /\ [Off EXCEPT !.pc = pc] \in ActorStates
         /\ HandSound([Off EXCEPT !.pc = pc])
<1>1. pc \in PCs /\ pc \notin Procedures \cup {"load", "prepare", "push", "persist",
                                 "submit", "mark", "counter", "drainReconcile"}
  BY PCsOf
<1> DEFINE x == [Off EXCEPT !.pc = pc]
<1>2. /\ x = [pc |-> pc, rec |-> None, hash |-> None, todo |-> {},
              chainSeq |-> None, ret |-> "off"]
  BY DEF Off
<1> QED BY <1>1, <1>2 DEF ActorStates, HandSound, Returns

LEMMA LeaveSound ==
  ASSUME ActorInv, NEW a \in Actors, NEW pc \in Plain, Leave(a, pc)
  PROVE  ActorInv'
<1>1. /\ actor' \in [Actors -> ActorStates]
      /\ \A b \in Actors : b # a => actor'[b] = actor[b]
      /\ actor'[a] = [Off EXCEPT !.pc = pc]
  BY OffState DEF ActorInv, Leave
<1> QED BY <1>1, OffState, ActorMoves

LEMMA ReturnSound ==
  ASSUME ActorInv, NEW a \in Actors, Return(a)
  PROVE  ActorInv'
<1>1. actor[a] \in ActorStates /\ HandSound(actor[a])
  BY DEF ActorInv, HandsSound
<1>2. actor[a].ret \in Plain /\ actor[a].ret \in PCs
  BY <1>1, PCsOf DEF ActorStates
<1>3. Off \in ActorStates
  BY DEF Off, ActorStates, PCs, Returns
<1>4. /\ actor' \in [Actors -> ActorStates]
      /\ \A b \in Actors : b # a => actor'[b] = actor[b]
      /\ actor'[a].pc = actor[a].ret /\ actor'[a].todo = actor[a].todo
  BY <1>1, <1>2, <1>3 DEF ActorInv, Return, ActorStates
<1>5. HandSound(actor'[a])
  <2>1. actor[a].ret \notin Procedures \cup {"load", "prepare", "push", "persist",
                              "submit", "mark", "counter", "drainReconcile"}
    BY <1>2, PCsOf
  <2> QED BY <1>1, <1>4, <2>1 DEF HandSound
<1> QED BY <1>4, <1>5, ActorMoves

LEMMA GotoSound ==
  ASSUME ActorInv, NEW a \in Actors, NEW pc \in PCs \ {"counter", "drainReconcile"},
         Goto(a, pc),
         pc \in Procedures \cup {"load", "prepare"} => Sound(Rec(a)),
         pc \in {"push", "persist", "submit", "mark"} => Signed(Rec(a), actor[a].hash)
  PROVE  ActorInv'
<1>1. actor[a] \in ActorStates /\ HandSound(actor[a])
  BY DEF ActorInv, HandsSound
<1>2. /\ actor' \in [Actors -> ActorStates]
      /\ \A b \in Actors : b # a => actor'[b] = actor[b]
      /\ actor'[a].pc = pc /\ actor'[a].rec = actor[a].rec
      /\ actor'[a].hash = actor[a].hash /\ actor'[a].todo = actor[a].todo
  BY <1>1 DEF ActorInv, Goto, ActorStates
<1>3. HandSound(actor'[a])
  BY <1>1, <1>2 DEF HandSound, Rec
<1> QED BY <1>2, <1>3, ActorMoves

LEMMA CallSound ==
  ASSUME ActorInv, NEW a \in Actors, NEW pc \in Procedures \ {"counter"},
         NEW rec, Sound(rec), NEW ret \in Returns, Call(a, pc, rec, ret)
  PROVE  ActorInv'
<1>1. actor[a] \in ActorStates /\ HandSound(actor[a]) /\ pc \in PCs /\ rec \in Records
  BY PCsOf DEF ActorInv, HandsSound, Sound
<1>2. /\ actor' \in [Actors -> ActorStates]
      /\ \A b \in Actors : b # a => actor'[b] = actor[b]
      /\ actor'[a].pc = pc /\ actor'[a].rec = rec
      /\ actor'[a].todo = actor[a].todo
  BY <1>1 DEF ActorInv, Call, ActorStates
<1>3. HandSound(actor'[a])
  BY <1>1, <1>2 DEF HandSound, Procedures
<1> QED BY <1>2, <1>3, ActorMoves

-----------------------------------------------------------------------------
(* The failure procedures.                                                 *)

\* No step of a worker announces a confirmation, and none undoes the chain.
Quiet ==
  /\ Grows
  /\ \A t \in Txns : "confirmed" \in told'[t] => "confirmed" \in told[t]

LEMMA Held ==
  ASSUME WorkInv, NEW a \in Actors, NEW pc, At(a, pc)
  PROVE  /\ actor[a] \in ActorStates
         /\ pc \in Procedures \cup {"load", "prepare"} => Sound(Rec(a))
         /\ pc \in {"push", "persist", "submit", "mark"} => Signed(Rec(a), actor[a].hash)
         /\ pc \in {"counter", "drainReconcile"} => actor[a].chainSeq \in Nat
         /\ \A rec \in actor[a].todo : Sound(rec)
BY DEF WorkInv, ActorInv, HandsSound, HandSound, At, Rec

LEMMA Derived ==
  ASSUME NEW rec, Sound(rec)
  PROVE  /\ Sound(Requeued(rec))
         /\ Sound([rec EXCEPT !.hash = None])
         /\ Sound([rec EXCEPT !.status = "failed"])
         /\ rec.seq # None => Sound([rec EXCEPT !.status = "submitted"])
BY DEF Sound, Requeued, Records, Numbered, Statuses, Terminal

LEMMA Read ==
  ASSUME WorkInv
  PROVE  /\ \A t \in Txns : Sound(Row(t)) /\ Row(t) \in Records
         /\ Recoverable \subseteq Txns
BY DEF WorkInv, StoreInv, RowsSound, Sound, Recoverable, InStatus

LEMMA Statement ==
  ASSUME WorkInv, NEW a \in Actors, Succeeds(a) \/ Fails(a)
  PROVE  faults' \in Nat
BY DEF WorkInv, RestOK, Succeeds, Fails

LEMMA ProcedureFrame ==
  ASSUME WorkInv, StoreInv', ActorInv', faults' \in Nat,
         UNCHANGED <<nodeVars, age, signed, told, chan, cancelled>>
  PROVE  WorkInv' /\ Quiet
<1>1. NodeTypeOK' /\ Grows
  BY NodeFrame DEF WorkInv
<1>2. ChanInv'
  BY DEF WorkInv, ChanInv, ChansSound, Signed, Sound, Numbered
<1> QED BY <1>1, <1>2 DEF WorkInv, RestOK, Quiet

LEMMA StoreStays ==
  ASSUME WorkInv, UNCHANGED storeVars
  PROVE  StoreInv'
BY StoreFrame DEF WorkInv, StoreInv, StoreTypeOK, storeVars

LEMMA RequeueSound ==
  ASSUME WorkInv, NEW a \in Actors, Requeue(a)
  PROVE  WorkInv' /\ Quiet
<1>1. Sound(Rec(a)) /\ "requeue" \in Procedures /\ "release" \in PCs
  BY Held DEF Requeue, Procedures, PCs
<1>2. StoreInv'
  BY <1>1, Derived, UpdateSound, StoreStays DEF Requeue, WorkInv
<1>3. ActorInv'
  BY <1>1, ReturnSound, GotoSound DEF Requeue, WorkInv
<1>4. faults' \in Nat
  BY Statement DEF Requeue
<1> QED BY <1>2, <1>3, <1>4, ProcedureFrame DEF Requeue

LEMMA ReleaseSound ==
  ASSUME WorkInv, NEW a \in Actors, Release(a)
  PROVE  WorkInv' /\ Quiet
<1>1. StoreInv'
  BY CounterSound, StoreStays DEF Release, WorkInv
<1>2. ActorInv'
  BY ReturnSound DEF Release, WorkInv
<1>3. faults' \in Nat
  BY Statement DEF Release
<1> QED BY <1>1, <1>2, <1>3, ProcedureFrame DEF Release

LEMMA FailSound ==
  ASSUME WorkInv, NEW a \in Actors, Fail(a)
  PROVE  WorkInv' /\ Quiet
<1>1. Sound(Rec(a)) /\ {"notify", "shift"} \subseteq PCs
  BY Held DEF Fail, Procedures, PCs
<1>2. StoreInv'
  BY <1>1, Derived, UpdateSound, StoreStays DEF Fail, WorkInv
<1>3. ActorInv'
  BY <1>1, GotoSound DEF Fail, WorkInv
<1>4. faults' \in Nat
  BY Statement DEF Fail
<1> QED BY <1>2, <1>3, <1>4, ProcedureFrame DEF Fail

LEMMA ShiftStepSound ==
  ASSUME WorkInv, NEW a \in Actors, Shift(a)
  PROVE  WorkInv' /\ Quiet
<1>1. Sound(Rec(a)) /\ "notify" \in PCs
  BY Held DEF Shift, Procedures, PCs
<1>2. StoreInv'
  BY ShiftSound, StoreStays DEF Shift, WorkInv
<1>3. ActorInv'
  BY <1>1, GotoSound DEF Shift, WorkInv
<1>4. faults' \in Nat
  BY Statement DEF Shift
<1> QED BY <1>2, <1>3, <1>4, ProcedureFrame DEF Shift

LEMMA NotifyFailedSound ==
  ASSUME WorkInv, NEW a \in Actors, NotifyFailed(a)
  PROVE  WorkInv' /\ Quiet
<1>1. Sound(Rec(a))
  BY Held DEF NotifyFailed, Procedures
<1>2. StoreInv'
  BY StoreStays DEF NotifyFailed
<1>3. ActorInv'
  BY ReturnSound DEF NotifyFailed, WorkInv
<1>4. faults' \in Nat
  BY Statement DEF NotifyFailed
<1>5. /\ told' \in [Txns -> SUBSET Terminal]
      /\ \A t \in Txns : "confirmed" \in told'[t] => "confirmed" \in told[t]
  BY DEF NotifyFailed, WorkInv, RestOK, Terminal
<1>6. NodeTypeOK' /\ Grows
  BY NodeFrame DEF WorkInv, NotifyFailed
<1>7. ChanInv'
  BY DEF NotifyFailed, WorkInv, ChanInv, ChansSound, Signed, Sound, Numbered
<1> QED BY <1>2, <1>3, <1>4, <1>5, <1>6, <1>7 DEF NotifyFailed, WorkInv, RestOK, Quiet

LEMMA FetchAccountSound ==
  ASSUME WorkInv, NEW a \in Actors, FetchAccount(a)
  PROVE  WorkInv' /\ Quiet
<1>1. /\ actor[a] \in ActorStates /\ Sound(Rec(a))
      /\ \A rec \in actor[a].todo : Sound(rec)
  BY Held DEF FetchAccount, Procedures
<1>2. ActorInv'
  <2>1. CASE Goto(a, "requeue")
    <3>1. "requeue" \in PCs
      BY DEF PCs, Procedures
    <3> QED BY <1>1, <2>1, <3>1, GotoSound DEF WorkInv
  <2>2. CASE actor' = [actor EXCEPT ![a].pc = "counter", ![a].chainSeq = ChainSequence]
    <3>1. "counter" \in PCs /\ ChainSequence \in Nat
      BY DEF PCs, Procedures, ChainSequence, WorkInv, NodeTypeOK
    <3>2. /\ actor' \in [Actors -> ActorStates]
          /\ \A b \in Actors : b # a => actor'[b] = actor[b]
          /\ actor'[a].pc = "counter" /\ actor'[a].rec = Rec(a)
          /\ actor'[a].chainSeq \in Nat /\ actor'[a].todo = actor[a].todo
      BY <1>1, <2>2, <3>1 DEF WorkInv, ActorInv, ActorStates, Rec
    <3>3. HandSound(actor'[a])
      BY <1>1, <3>2 DEF HandSound
    <3> QED BY <3>2, <3>3, ActorMoves DEF WorkInv
  <2> QED BY <2>1, <2>2 DEF FetchAccount
<1>3. StoreInv' /\ faults' \in Nat
  BY StoreStays DEF FetchAccount, WorkInv, RestOK
<1> QED BY <1>2, <1>3, ProcedureFrame DEF FetchAccount

LEMMA AdjustCounterSound ==
  ASSUME WorkInv, NEW a \in Actors, AdjustCounter(a)
  PROVE  WorkInv' /\ Quiet
<1>1. Sound(Rec(a)) /\ actor[a].chainSeq \in Nat /\ "list" \in PCs
  BY Held DEF AdjustCounter, Procedures, PCs
<1>2. StoreInv'
  BY <1>1, CounterSound, StoreStays DEF AdjustCounter, WorkInv
<1>3. ActorInv'
  BY <1>1, GotoSound DEF AdjustCounter, WorkInv
<1>4. faults' \in Nat
  BY Statement DEF AdjustCounter
<1> QED BY <1>2, <1>3, <1>4, ProcedureFrame DEF AdjustCounter

\* Taking a list of rows into the actor's memory.
LEMMA ListingSound ==
  ASSUME WorkInv, NEW a \in Actors, NEW S \in SUBSET Txns, NEW pc \in {"sibling", "sweep"},
         actor' = [actor EXCEPT ![a].pc = pc, ![a].todo = {Row(t) : t \in S}],
         pc = "sibling" => Sound(Rec(a))
  PROVE  ActorInv'
<1> DEFINE rs == {Row(t) : t \in S}
<1>1. rs \in SUBSET Records /\ \A rec \in rs : Sound(rec)
  BY Read
<1>2. actor[a] \in ActorStates /\ HandSound(actor[a]) /\ pc \in PCs
  BY DEF WorkInv, ActorInv, HandsSound, PCs, Procedures
<1> HIDE DEF rs
<1>3. /\ actor' \in [Actors -> ActorStates]
      /\ \A b \in Actors : b # a => actor'[b] = actor[b]
      /\ actor'[a].pc = pc /\ actor'[a].rec = Rec(a) /\ actor'[a].todo = rs
  BY <1>1, <1>2 DEF WorkInv, ActorInv, ActorStates, Rec, rs
<1>4. HandSound(actor'[a])
  BY <1>1, <1>3 DEF HandSound, Procedures
<1> QED BY <1>3, <1>4, ActorMoves DEF WorkInv

LEMMA ListSiblingsSound ==
  ASSUME WorkInv, NEW a \in Actors, ListSiblings(a)
  PROVE  WorkInv' /\ Quiet
<1>1. Sound(Rec(a)) /\ "sibling" \in PCs
  BY Held DEF ListSiblings, Procedures, PCs
<1>2. ActorInv'
  <2>1. CASE Goto(a, "sibling")
    BY <1>1, <2>1, GotoSound DEF WorkInv
  <2>2. CASE actor' = [actor EXCEPT ![a].pc = "sibling",
                 ![a].todo = {Row(t) : t \in Recoverable \ {Rec(a).txn}}]
    <3>1. Recoverable \ {Rec(a).txn} \in SUBSET Txns
      BY Read
    <3> QED BY <1>1, <2>2, <3>1, ListingSound
  <2> QED BY <2>1, <2>2 DEF ListSiblings
<1>3. StoreInv' /\ faults' \in Nat
  BY StoreStays, Statement DEF ListSiblings
<1> QED BY <1>2, <1>3, ProcedureFrame DEF ListSiblings

LEMMA RequeueSiblingSound ==
  ASSUME WorkInv, NEW a \in Actors, RequeueSibling(a)
  PROVE  WorkInv' /\ Quiet
<1>1. PICK rec \in actor[a].todo :
        /\ \/ Succeeds(a) /\ Update(Requeued(rec))
           \/ Fails(a) /\ UNCHANGED storeVars
        /\ actor' = [actor EXCEPT ![a].todo = @ \ {rec}]
  BY DEF RequeueSibling
<1>2. /\ actor[a] \in ActorStates /\ Sound(Rec(a)) /\ actor[a].pc = "sibling"
      /\ \A r \in actor[a].todo : Sound(r)
  BY Held DEF RequeueSibling, Procedures, At
<1>3. StoreInv'
  BY <1>1, <1>2, Derived, UpdateSound, StoreStays DEF WorkInv
<1>4. ActorInv'
  <2>1. /\ actor' \in [Actors -> ActorStates]
        /\ \A b \in Actors : b # a => actor'[b] = actor[b]
        /\ actor'[a].pc = "sibling" /\ actor'[a].rec = Rec(a)
        /\ actor'[a].todo \subseteq actor[a].todo
    BY <1>1, <1>2 DEF WorkInv, ActorInv, ActorStates, Rec
  <2>2. HandSound(actor'[a])
    BY <1>2, <2>1 DEF HandSound
  <2> QED BY <2>1, <2>2, ActorMoves DEF WorkInv
<1>5. faults' \in Nat
  BY <1>1, Statement
<1> QED BY <1>3, <1>4, <1>5, ProcedureFrame DEF RequeueSibling

LEMMA RequeueReconciledSound ==
  ASSUME WorkInv, NEW a \in Actors, RequeueReconciled(a)
  PROVE  WorkInv' /\ Quiet
<1>1. Sound(Rec(a))
  BY Held DEF RequeueReconciled, Procedures
<1>2. StoreInv'
  BY <1>1, Derived, UpdateSound, StoreStays DEF RequeueReconciled, WorkInv
<1>3. ActorInv'
  BY ReturnSound DEF RequeueReconciled, WorkInv
<1>4. faults' \in Nat
  BY Statement DEF RequeueReconciled
<1> QED BY <1>2, <1>3, <1>4, ProcedureFrame DEF RequeueReconciled

LEMMA ProcedureSound ==
  ASSUME WorkInv, NEW a \in Actors, Procedure(a)
  PROVE  WorkInv' /\ Quiet
BY RequeueSound, ReleaseSound, FailSound, ShiftStepSound, NotifyFailedSound,
   FetchAccountSound, AdjustCounterSound, ListSiblingsSound, RequeueSiblingSound,
   RequeueReconciledSound DEF Procedure

-----------------------------------------------------------------------------
(* Dispatcher and producer.                                                *)

LEMMA SpawnSound ==
  ASSUME WorkInv, NEW h \in Hosts, Spawn(h)
  PROVE  WorkInv' /\ Quiet
<1> DEFINE p == Producer(h)
           c == Consumer(h)
<1>1. p \in Actors /\ c \in Actors /\ p # c
  BY DEF Producer, Consumer, Actors, Roles
<1>2. actor' = [actor EXCEPT ![p].pc = "claim", ![c].pc = "receive"]
  BY DEF Spawn
<1>3. \A b \in Actors : actor[b] \in ActorStates /\ HandSound(actor[b])
  BY DEF WorkInv, ActorInv, HandsSound
<1> HIDE DEF p, c
<1>4. /\ actor' \in [Actors -> ActorStates]
      /\ \A b \in Actors :
           /\ actor'[b].pc = actor[b].pc \/ actor'[b].pc \in {"claim", "receive"}
           /\ actor'[b].rec = actor[b].rec /\ actor'[b].hash = actor[b].hash
           /\ actor'[b].todo = actor[b].todo /\ actor'[b].chainSeq = actor[b].chainSeq
  BY <1>1, <1>2, <1>3 DEF WorkInv, ActorInv, ActorStates, PCs, Procedures
<1>5. HandsSound'
  BY <1>3, <1>4 DEF HandsSound, HandSound, Procedures
<1>6. ActorInv' /\ StoreInv' /\ faults' \in Nat
  BY <1>4, <1>5, StoreStays DEF ActorInv, Spawn, WorkInv, RestOK
<1> QED BY <1>6, ProcedureFrame DEF Spawn

LEMMA ClaimStepSound ==
  ASSUME WorkInv, NEW a \in Actors, Claim(a)
  PROVE  WorkInv' /\ Quiet
<1>1. PICK t \in Txns :
        /\ ClaimOldest(t)
        /\ actor' = [actor EXCEPT ![a].pc = "load",
             ![a].rec = [txn |-> t, status |-> "processing", seq |-> nextSeq,
                         hash |-> rows[t].hash]]
  BY DEF Claim
<1> DEFINE rec == [txn |-> t, status |-> "processing", seq |-> nextSeq,
                   hash |-> rows[t].hash]
<1>2. Sound(rec)
  <2>1. Sound(Row(t)) /\ nextSeq \in Nat /\ None \notin Nat
    BY Read, NoneAssumption DEF WorkInv, StoreInv, StoreTypeOK
  <2> QED BY <2>1 DEF Sound, Row, Records, Numbered, Statuses
<1>3. actor[a] \in ActorStates /\ HandSound(actor[a]) /\ "load" \in PCs /\ rec \in Records
  BY <1>2 DEF WorkInv, ActorInv, HandsSound, PCs, Sound
<1> HIDE DEF rec
<1>4. /\ actor' \in [Actors -> ActorStates]
      /\ \A b \in Actors : b # a => actor'[b] = actor[b]
      /\ actor'[a].pc = "load" /\ actor'[a].rec = rec /\ actor'[a].todo = actor[a].todo
  BY <1>1, <1>3 DEF WorkInv, ActorInv, ActorStates, rec
<1>5. HandSound(actor'[a])
  BY <1>2, <1>3, <1>4 DEF HandSound
<1>6. ActorInv' /\ StoreInv' /\ faults' \in Nat
  BY <1>1, <1>4, <1>5, ActorMoves, ClaimSound DEF Claim, WorkInv, RestOK
<1> QED BY <1>6, ProcedureFrame DEF Claim

LEMMA StopProducingSound ==
  ASSUME WorkInv, NEW a \in Actors, StopProducing(a)
  PROVE  WorkInv' /\ Quiet
<1>1. ActorInv' /\ StoreInv' /\ faults' \in Nat
  BY LeaveSound, StoreStays DEF StopProducing, WorkInv, RestOK, Plain
<1> QED BY <1>1, ProcedureFrame DEF StopProducing

LEMMA LoadSound ==
  ASSUME WorkInv, NEW a \in Actors, Load(a)
  PROVE  WorkInv' /\ Quiet
<1>1. actor[a] \in ActorStates /\ Sound(Rec(a)) /\ \A rec \in actor[a].todo : Sound(rec)
  BY Held DEF Load
<1>2. ActorInv'
  <2>1. CASE Leave(a, "claim")
    BY <2>1, LeaveSound DEF WorkInv, Plain
  <2>2. CASE actor' = [actor EXCEPT ![a].pc = "prepare", ![a].rec = Row(Rec(a).txn)]
    <3> DEFINE rec == Row(Rec(a).txn)
    <3>1. Sound(rec) /\ rec \in Records /\ "prepare" \in PCs
      BY <1>1, Read DEF Sound, Records, PCs
    <3> HIDE DEF rec
    <3>2. /\ actor' \in [Actors -> ActorStates]
          /\ \A b \in Actors : b # a => actor'[b] = actor[b]
          /\ actor'[a].pc = "prepare" /\ actor'[a].rec = rec
          /\ actor'[a].todo = actor[a].todo
      BY <1>1, <2>2, <3>1 DEF WorkInv, ActorInv, ActorStates, rec
    <3>3. HandSound(actor'[a])
      BY <1>1, <3>1, <3>2 DEF HandSound
    <3> QED BY <3>2, <3>3, ActorMoves DEF WorkInv
  <2> QED BY <2>1, <2>2 DEF Load
<1>3. StoreInv' /\ faults' \in Nat
  BY StoreStays, Statement DEF Load
<1> QED BY <1>2, <1>3, ProcedureFrame DEF Load

LEMMA UnpreparedSound ==
  ASSUME WorkInv, NEW a \in Actors, Unprepared(a)
  PROVE  WorkInv' /\ Quiet
<1>1. Sound(Rec(a))
  BY Held DEF Unprepared
<1>2. PICK pc \in PrepareFailures(a) : Call(a, pc, Rec(a), "claim")
  BY DEF Unprepared
<1>3. pc \in Procedures \ {"counter"} /\ "claim" \in Returns
  BY <1>2 DEF PrepareFailures, Procedures, Returns
<1>4. ActorInv' /\ StoreInv' /\ faults' \in Nat
  BY <1>1, <1>2, <1>3, CallSound, StoreStays DEF Unprepared, WorkInv, RestOK
<1> QED BY <1>4, ProcedureFrame DEF Unprepared

LEMMA SignSound ==
  ASSUME WorkInv, NEW a \in Actors, Sign(a)
  PROVE  WorkInv' /\ Quiet
<1> DEFINE t == Rec(a).txn
           hash == [txn |-> t, seq |-> Rec(a).seq, n |-> signed[t] + 1]
<1>1. /\ actor[a] \in ActorStates /\ Sound(Rec(a)) /\ Rec(a).seq # None
      /\ \A rec \in actor[a].todo : Sound(rec)
  BY Held DEF Sign
<1>2. t \in Txns /\ Rec(a).seq \in Nat /\ signed[t] \in Nat
  BY <1>1 DEF Sound, Records, WorkInv, RestOK
<1>3. hash \in Hashes /\ hash.txn = t /\ "push" \in PCs
  BY <1>2 DEF Hashes, PCs
<1>4. /\ actor' = [actor EXCEPT ![a].pc = "push", ![a].hash = hash]
      /\ signed' = [signed EXCEPT ![t] = @ + 1]
      /\ UNCHANGED <<storeVars, nodeVars, age, told, chan, cancelled, faults>>
  BY DEF Sign
<1>5. signed' \in [Txns -> Nat]
  BY <1>2, <1>4 DEF WorkInv, RestOK
<1> HIDE DEF hash
<1>6. /\ actor' \in [Actors -> ActorStates]
      /\ \A b \in Actors : b # a => actor'[b] = actor[b]
      /\ actor'[a].pc = "push" /\ actor'[a].rec = Rec(a)
      /\ actor'[a].hash = hash /\ actor'[a].todo = actor[a].todo
  BY <1>1, <1>3, <1>4 DEF WorkInv, ActorInv, ActorStates, Rec
<1>7. HandSound(actor'[a])
  BY <1>1, <1>3, <1>6 DEF HandSound, Signed, Procedures
<1>8. ActorInv' /\ StoreInv'
  BY <1>4, <1>6, <1>7, ActorMoves, StoreStays DEF WorkInv
<1>9. NodeTypeOK' /\ Grows /\ ChanInv'
  BY <1>4, NodeFrame DEF WorkInv, ChanInv, ChansSound, Signed, Sound, Numbered
<1> QED BY <1>4, <1>5, <1>8, <1>9 DEF WorkInv, RestOK, Quiet

\* The channel: appending a signed item, and taking the first one off.
LEMMA AppendSound ==
  ASSUME ChanInv, NEW h \in Hosts, NEW rec, NEW hash, Signed(rec, hash),
         chan' = [chan EXCEPT ![h] = Append(@, [rec |-> rec, hash |-> hash])]
  PROVE  ChanInv'
<1> DEFINE item == [rec |-> rec, hash |-> hash]
<1>1. item \in Items /\ item.rec = rec /\ item.hash = hash
  BY DEF Items, Signed, Sound
<1>2. chan \in [Hosts -> Seq(Items)] /\ chan' = [chan EXCEPT ![h] = Append(@, item)]
  BY DEF ChanInv
<1> HIDE DEF item
<1>3. Append(chan[h], item) \in Seq(Items)
  BY <1>1, <1>2
<1>4. chan' \in [Hosts -> Seq(Items)]
  BY <1>2, <1>3
<1>5. ASSUME NEW g \in Hosts, NEW i \in 1 .. Len(chan'[g])
      PROVE  Signed(chan'[g][i].rec, chan'[g][i].hash)
  <2>1. CASE g = h
    <3>1. chan'[g] = Append(chan[h], item)
      BY <1>2, <2>1
    <3>2. chan[h] \in Seq(Items) /\ i \in 1 .. Len(Append(chan[h], item))
      BY <1>2, <3>1
    <3>3. /\ i = Len(chan[h]) + 1 => chan'[g][i] = item
          /\ i \in 1 .. Len(chan[h]) => chan'[g][i] = chan[h][i]
          /\ i \in 1 .. Len(chan[h]) + 1 /\ Len(chan[h]) \in Nat
      BY <1>1, <3>1, <3>2
    <3> QED BY <1>1, <3>3 DEF ChanInv, ChansSound
  <2>2. CASE g # h
    BY <1>2, <2>2 DEF ChanInv, ChansSound
  <2> QED BY <2>1, <2>2
<1> QED BY <1>4, <1>5 DEF ChanInv, ChansSound, Signed, Sound, Numbered

LEMMA TailSound ==
  ASSUME ChanInv, NEW h \in Hosts, chan[h] # <<>>,
         chan' = [chan EXCEPT ![h] = Tail(@)]
  PROVE  /\ ChanInv'
         /\ Signed(Head(chan[h]).rec, Head(chan[h]).hash)
<1>1. chan \in [Hosts -> Seq(Items)] /\ chan[h] \in Seq(Items)
  BY DEF ChanInv
<1>2. /\ Tail(chan[h]) \in Seq(Items)
      /\ Len(chan[h]) >= 1 /\ Len(Tail(chan[h])) = Len(chan[h]) - 1
      /\ Head(chan[h]) = chan[h][1]
      /\ \A i \in 1 .. Len(Tail(chan[h])) : Tail(chan[h])[i] = chan[h][i + 1]
  BY <1>1, HeadTailProperties
<1>3. Signed(Head(chan[h]).rec, Head(chan[h]).hash)
  BY <1>2 DEF ChanInv, ChansSound
<1>4. ASSUME NEW g \in Hosts, NEW i \in 1 .. Len(chan'[g])
      PROVE  Signed(chan'[g][i].rec, chan'[g][i].hash)
  <2>1. CASE g = h
    <3>1. chan'[g] = Tail(chan[h])
      BY <1>1, <2>1
    <3>2. i \in 1 .. Len(Tail(chan[h])) /\ Len(chan[h]) \in Nat
      BY <1>1, <3>1
    <3>3. i + 1 \in 1 .. Len(chan[h])
      BY <1>2, <3>2
    <3>4. chan'[g][i] = chan[h][i + 1]
      BY <1>2, <3>1, <3>2
    <3> QED BY <3>3, <3>4 DEF ChanInv, ChansSound
  <2>2. CASE g # h
    BY <1>1, <2>2 DEF ChanInv, ChansSound
  <2> QED BY <2>1, <2>2
<1> QED BY <1>1, <1>2, <1>3, <1>4 DEF ChanInv, ChansSound, Signed, Sound, Numbered

LEMMA PushSound ==
  ASSUME WorkInv, NEW a \in Actors, Push(a)
  PROVE  WorkInv' /\ Quiet
<1>1. Signed(Rec(a), actor[a].hash) /\ a[1] \in Hosts
  BY Held DEF Push, Actors
<1>2. ChanInv'
  BY <1>1, AppendSound DEF Push, WorkInv
<1>3. ActorInv' /\ StoreInv' /\ NodeTypeOK' /\ Grows
  BY LeaveSound, StoreStays, NodeFrame DEF Push, WorkInv, Plain
<1> QED BY <1>2, <1>3 DEF Push, WorkInv, RestOK, Quiet

LEMMA GiveUpPushSound ==
  ASSUME WorkInv, NEW a \in Actors, GiveUpPush(a)
  PROVE  WorkInv' /\ Quiet
<1>1. Sound(Rec(a)) /\ "requeue" \in Procedures \ {"counter"} /\ "off" \in Returns
  BY Held DEF GiveUpPush, Signed, Procedures, Returns
<1>2. ActorInv' /\ StoreInv' /\ faults' \in Nat
  BY <1>1, CallSound, StoreStays DEF GiveUpPush, WorkInv, RestOK
<1> QED BY <1>2, ProcedureFrame DEF GiveUpPush

LEMMA ProduceSound ==
  ASSUME WorkInv, NEW a \in Actors, Produce(a)
  PROVE  WorkInv' /\ Quiet
BY ClaimStepSound, StopProducingSound, LoadSound, UnpreparedSound, SignSound,
   PushSound, GiveUpPushSound DEF Produce

-----------------------------------------------------------------------------
(* Consumer.                                                               *)

LEMMA ReceiveSound ==
  ASSUME WorkInv, NEW a \in Actors, Receive(a)
  PROVE  WorkInv' /\ Quiet
<1> DEFINE rec == Head(chan[a[1]]).rec
           hash == Head(chan[a[1]]).hash
<1>1. a[1] \in Hosts
  BY DEF Actors
<1>2. ChanInv' /\ Signed(rec, hash)
  BY <1>1, TailSound DEF Receive, WorkInv
<1>3. /\ actor[a] \in ActorStates /\ "persist" \in PCs
      /\ \A r \in actor[a].todo : Sound(r)
      /\ actor' = [actor EXCEPT ![a].pc = "persist", ![a].rec = rec, ![a].hash = hash]
  BY Held DEF Receive, PCs
<1> HIDE DEF rec, hash
<1>4. /\ actor' \in [Actors -> ActorStates]
      /\ \A b \in Actors : b # a => actor'[b] = actor[b]
      /\ actor'[a].pc = "persist" /\ actor'[a].rec = rec /\ actor'[a].hash = hash
      /\ actor'[a].todo = actor[a].todo
  BY <1>2, <1>3 DEF WorkInv, ActorInv, ActorStates, Signed, Sound
<1>5. HandSound(actor'[a])
  BY <1>2, <1>3, <1>4 DEF HandSound, Procedures
<1>6. ActorInv' /\ StoreInv' /\ NodeTypeOK' /\ Grows
  BY <1>4, <1>5, ActorMoves, StoreStays, NodeFrame DEF Receive, WorkInv
<1> QED BY <1>2, <1>6 DEF Receive, WorkInv, RestOK, Quiet

LEMMA PersistHashSound ==
  ASSUME WorkInv, NEW a \in Actors, PersistHash(a)
  PROVE  WorkInv' /\ Quiet
<1> DEFINE hashed == [Rec(a) EXCEPT !.hash = actor[a].hash]
           cleared == [Rec(a) EXCEPT !.hash = None]
<1>1. /\ actor[a] \in ActorStates /\ Signed(Rec(a), actor[a].hash)
      /\ \A r \in actor[a].todo : Sound(r)
  BY Held DEF PersistHash
<1>2. Sound(cleared) /\ Sound(hashed) /\ Signed(hashed, actor[a].hash)
  BY <1>1, Derived DEF Signed, Sound, Records, Numbered
<1>3. \/ Update(hashed) /\ actor' = [actor EXCEPT ![a].pc = "submit", ![a].rec = hashed]
      \/ UNCHANGED storeVars /\ Leave(a, "stop")
      \/ UNCHANGED storeVars /\ Call(a, "requeue", cleared, "stop")
  BY DEF PersistHash
<1> HIDE DEF hashed, cleared
<1>4. StoreInv'
  BY <1>2, <1>3, UpdateSound, StoreStays DEF WorkInv
<1>5. ActorInv'
  <2>1. CASE actor' = [actor EXCEPT ![a].pc = "submit", ![a].rec = hashed]
    <3>1. "submit" \in PCs /\ hashed \in Records
      BY <1>2 DEF PCs, Sound
    <3>2. /\ actor' \in [Actors -> ActorStates]
          /\ \A b \in Actors : b # a => actor'[b] = actor[b]
          /\ actor'[a].pc = "submit" /\ actor'[a].rec = hashed
          /\ actor'[a].hash = actor[a].hash /\ actor'[a].todo = actor[a].todo
      BY <1>1, <2>1, <3>1 DEF WorkInv, ActorInv, ActorStates
    <3>3. HandSound(actor'[a])
      BY <1>1, <1>2, <3>2 DEF HandSound, Procedures
    <3> QED BY <3>2, <3>3, ActorMoves DEF WorkInv
  <2>2. CASE Leave(a, "stop")
    BY <2>2, LeaveSound DEF WorkInv, Plain
  <2>3. CASE Call(a, "requeue", cleared, "stop")
    BY <1>2, <2>3, CallSound DEF WorkInv, Procedures, Returns
  <2> QED BY <1>3, <2>1, <2>2, <2>3
<1>6. faults' \in Nat
  BY Statement DEF PersistHash
<1> QED BY <1>4, <1>5, <1>6, ProcedureFrame DEF PersistHash

LEMMA SubmitAcceptedSound ==
  ASSUME WorkInv, NEW a \in Actors, SubmitAccepted(a)
  PROVE  WorkInv' /\ Quiet
<1>1. Signed(Rec(a), actor[a].hash) /\ actor[a].hash \in Hashes
  BY Held DEF SubmitAccepted, Signed
<1>2. NodeTypeOK' /\ Grows
  <2>1. Executes(actor[a].hash) \in BOOLEAN
    BY DEF Executes
  <2>2. Accept(actor[a].hash, Executes(actor[a].hash))
    BY DEF SubmitAccepted
  <2> QED BY <1>1, <2>1, <2>2, AcceptSound DEF WorkInv
<1>3. ActorInv' /\ StoreInv'
  <2>1. Sound(Rec(a)) /\ "mark" \in PCs \ {"counter", "drainReconcile"}
    BY <1>1 DEF Signed, PCs
  <2> QED BY <1>1, <2>1, GotoSound, StoreStays DEF SubmitAccepted, WorkInv
<1>4. ChanInv'
  BY DEF SubmitAccepted, WorkInv, ChanInv, ChansSound, Signed, Sound, Numbered
<1> QED BY <1>2, <1>3, <1>4 DEF SubmitAccepted, WorkInv, RestOK, Quiet

LEMMA SubmitMisnumberedSound ==
  ASSUME WorkInv, NEW a \in Actors, SubmitMisnumbered(a)
  PROVE  WorkInv' /\ Quiet
<1>1. Sound([Rec(a) EXCEPT !.hash = None])
  BY Held, Derived DEF SubmitMisnumbered, Signed
<1>2. ActorInv' /\ StoreInv' /\ faults' \in Nat
  BY <1>1, CallSound, StoreStays
     DEF SubmitMisnumbered, WorkInv, RestOK, Procedures, Returns
<1> QED BY <1>2, ProcedureFrame DEF SubmitMisnumbered

LEMMA SubmitErrorSound ==
  ASSUME WorkInv, NEW a \in Actors, SubmitError(a)
  PROVE  WorkInv' /\ Quiet
<1>1. Sound([Rec(a) EXCEPT !.hash = None]) /\ actor[a].hash \in Hashes
  BY Held, Derived DEF SubmitError, Signed
<1>2. NodeTypeOK' /\ Grows
  BY <1>1, AbandonSound, NodeFrame DEF SubmitError, WorkInv
<1>3. ActorInv' /\ StoreInv'
  BY <1>1, CallSound, StoreStays DEF SubmitError, WorkInv, Procedures, Returns
<1>4. ChanInv'
  BY DEF SubmitError, WorkInv, ChanInv, ChansSound, Signed, Sound, Numbered
<1> QED BY <1>2, <1>3, <1>4 DEF SubmitError, WorkInv, RestOK, Quiet

LEMMA MarkSubmittedSound ==
  ASSUME WorkInv, NEW a \in Actors, MarkSubmitted(a)
  PROVE  WorkInv' /\ Quiet
<1>1. Sound([Rec(a) EXCEPT !.status = "submitted"])
  BY Held, Derived DEF MarkSubmitted, Signed
<1>2. StoreInv'
  BY <1>1, UpdateSound, StoreStays DEF MarkSubmitted, WorkInv
<1>3. ActorInv' /\ faults' \in Nat
  BY LeaveSound, Statement DEF MarkSubmitted, WorkInv, Plain
<1> QED BY <1>2, <1>3, ProcedureFrame DEF MarkSubmitted

LEMMA StopPipelineSound ==
  ASSUME WorkInv, NEW a \in Actors, StopPipeline(a)
  PROVE  WorkInv' /\ Quiet
<1>1. ActorInv' /\ StoreInv' /\ NodeTypeOK' /\ Grows
  BY GotoSound, StoreStays, NodeFrame DEF StopPipeline, WorkInv, PCs, Procedures
<1>2. ChanInv'
  BY DEF StopPipeline, WorkInv, ChanInv, ChansSound, Signed, Sound, Numbered
<1>3. cancelled' \in [Hosts -> BOOLEAN]
  BY DEF StopPipeline, WorkInv, RestOK
<1> QED BY <1>1, <1>2, <1>3 DEF StopPipeline, WorkInv, RestOK, Quiet

LEMMA DrainSound ==
  ASSUME WorkInv, NEW a \in Actors, Drain(a)
  PROVE  WorkInv' /\ Quiet
<1>1. a[1] \in Hosts
  BY DEF Actors
<1>2. ChanInv' /\ Sound(Head(chan[a[1]]).rec)
  BY <1>1, TailSound DEF Drain, WorkInv, Signed
<1>3. ActorInv' /\ StoreInv' /\ NodeTypeOK' /\ Grows
  BY <1>2, CallSound, StoreStays, NodeFrame DEF Drain, WorkInv, Procedures, Returns
<1> QED BY <1>2, <1>3 DEF Drain, WorkInv, RestOK, Quiet

LEMMA DrainAccountSound ==
  ASSUME WorkInv, NEW a \in Actors, DrainAccount(a)
  PROVE  WorkInv' /\ Quiet
<1>1. actor[a] \in ActorStates /\ HandSound(actor[a])
  BY DEF WorkInv, ActorInv, HandsSound
<1>2. ActorInv'
  <2>1. CASE Leave(a, "sweepList")
    BY <2>1, LeaveSound DEF WorkInv, Plain
  <2>2. CASE actor' = [actor EXCEPT ![a].pc = "drainReconcile", ![a].chainSeq = ChainSequence]
    <3>1. "drainReconcile" \in PCs /\ ChainSequence \in Nat
      BY DEF PCs, ChainSequence, WorkInv, NodeTypeOK
    <3>2. /\ actor' \in [Actors -> ActorStates]
          /\ \A b \in Actors : b # a => actor'[b] = actor[b]
          /\ actor'[a].pc = "drainReconcile" /\ actor'[a].chainSeq \in Nat
          /\ actor'[a].todo = actor[a].todo
      BY <1>1, <2>2, <3>1 DEF WorkInv, ActorInv, ActorStates
    <3>3. HandSound(actor'[a])
      BY <1>1, <3>2 DEF HandSound, Procedures
    <3> QED BY <3>2, <3>3, ActorMoves DEF WorkInv
  <2> QED BY <2>1, <2>2 DEF DrainAccount
<1>3. StoreInv' /\ faults' \in Nat
  BY StoreStays DEF DrainAccount, WorkInv, RestOK
<1> QED BY <1>2, <1>3, ProcedureFrame DEF DrainAccount

LEMMA DrainReconcileSound ==
  ASSUME WorkInv, NEW a \in Actors, DrainReconcile(a)
  PROVE  WorkInv' /\ Quiet
<1>1. actor[a].chainSeq \in Nat
  BY Held DEF DrainReconcile
<1>2. StoreInv'
  BY <1>1, CounterSound, StoreStays DEF DrainReconcile, WorkInv
<1>3. ActorInv' /\ faults' \in Nat
  BY LeaveSound, Statement DEF DrainReconcile, WorkInv, Plain
<1> QED BY <1>2, <1>3, ProcedureFrame DEF DrainReconcile

LEMMA FinishSound ==
  ASSUME WorkInv, NEW a \in Actors, Finish(a)
  PROVE  WorkInv' /\ Quiet
<1>1. ActorInv' /\ StoreInv' /\ faults' \in Nat
  BY LeaveSound, StoreStays DEF Finish, WorkInv, RestOK, Plain
<1> QED BY <1>1, ProcedureFrame DEF Finish

LEMMA SweepListSound ==
  ASSUME WorkInv, NEW a \in Actors, SweepList(a)
  PROVE  WorkInv' /\ Quiet
<1>1. ActorInv'
  <2>1. CASE Goto(a, "sweep")
    BY <2>1, GotoSound DEF WorkInv, PCs, Procedures
  <2>2. CASE actor' = [actor EXCEPT ![a].pc = "sweep",
                                    ![a].todo = {Row(t) : t \in Recoverable}]
    BY <2>2, Read, ListingSound
  <2> QED BY <2>1, <2>2 DEF SweepList
<1>2. StoreInv' /\ faults' \in Nat
  BY StoreStays, Statement DEF SweepList
<1> QED BY <1>1, <1>2, ProcedureFrame DEF SweepList

LEMMA SweepSound ==
  ASSUME WorkInv, NEW a \in Actors, Sweep(a)
  PROVE  WorkInv' /\ Quiet
<1>1. PICK rec \in actor[a].todo :
        actor' = [actor EXCEPT ![a].pc = "requeue", ![a].rec = rec, ![a].ret = "sweep",
                               ![a].todo = @ \ {rec}]
  BY DEF Sweep
<1>2. /\ actor[a] \in ActorStates /\ \A r \in actor[a].todo : Sound(r)
      /\ rec \in Records /\ "requeue" \in PCs /\ "sweep" \in Returns
  BY Held DEF Sweep, Sound, PCs, Procedures, Returns
<1>3. /\ actor' \in [Actors -> ActorStates]
      /\ \A b \in Actors : b # a => actor'[b] = actor[b]
      /\ actor'[a].pc = "requeue" /\ actor'[a].rec = rec
      /\ actor'[a].todo \subseteq actor[a].todo
  BY <1>1, <1>2 DEF WorkInv, ActorInv, ActorStates
<1>4. HandSound(actor'[a])
  BY <1>1, <1>2, <1>3 DEF HandSound
<1>5. ActorInv' /\ StoreInv' /\ faults' \in Nat
  BY <1>3, <1>4, ActorMoves, StoreStays DEF Sweep, WorkInv, RestOK
<1> QED BY <1>5, ProcedureFrame DEF Sweep

LEMMA ExitSound ==
  ASSUME WorkInv, NEW a \in Actors, Exit(a)
  PROVE  WorkInv' /\ Quiet
<1>1. ActorInv' /\ StoreInv' /\ NodeTypeOK' /\ Grows
  BY LeaveSound, StoreStays, NodeFrame DEF Exit, WorkInv, Plain
<1>2. ChanInv'
  BY DEF Exit, WorkInv, ChanInv, ChansSound, Signed, Sound, Numbered
<1>3. cancelled' \in [Hosts -> BOOLEAN]
  BY DEF Exit, WorkInv, RestOK
<1> QED BY <1>1, <1>2, <1>3 DEF Exit, WorkInv, RestOK, Quiet

LEMMA ConsumeSound ==
  ASSUME WorkInv, NEW a \in Actors, Consume(a)
  PROVE  WorkInv' /\ Quiet
BY ReceiveSound, PersistHashSound, SubmitAcceptedSound, SubmitMisnumberedSound,
   SubmitErrorSound, MarkSubmittedSound, StopPipelineSound, DrainSound,
   DrainAccountSound, DrainReconcileSound, FinishSound, SweepListSound, SweepSound,
   ExitSound DEF Consume

-----------------------------------------------------------------------------
(* Poller.                                                                 *)

PollStates == [pc : {"idle", "lookup", "write", "tell"}, rec : Records \cup {None},
               verdict : Verdicts]

LEMMA PollerFrame ==
  ASSUME PollerInv, NodeTypeOK, Grows, poll' = poll
  PROVE  PollerInv'
BY GrowsKeeps DEF PollerInv, PollerTypeOK, PollsSound, PollSound, Sound, Numbered

\* It is enough to look at the one goroutine that moves.
LEMMA PollMoves ==
  ASSUME PollerInv, NodeTypeOK, UNCHANGED nodeVars, NEW h \in Hosts, NEW t \in Txns,
         poll' \in [Hosts -> [Txns -> PollStates]],
         \A g \in Hosts, u \in Txns : g # h \/ u # t => poll'[g][u] = poll[g][u],
         PollSound(poll'[h][t], t)
  PROVE  PollerInv'
<1>1. \A y, u : PollSound(y, u) => PollSound(y, u)'
  BY NodeFrame, GrowsKeeps DEF PollSound, Sound, Numbered
<1>2. ASSUME NEW g \in Hosts, NEW u \in Txns
      PROVE  PollSound(poll'[g][u], u)
  BY DEF PollerInv, PollsSound
<1> QED BY <1>1, <1>2 DEF PollerInv, PollerTypeOK, PollsSound, PollSound, PollStates,
                          nodeVars, Succeeded, Is, Sound, Numbered

LEMMA PollHeld ==
  ASSUME PollerInv, NEW h \in Hosts, NEW t \in Txns
  PROVE  /\ poll \in [Hosts -> [Txns -> PollStates]]
         /\ poll[h][t] \in PollStates
         /\ PollSound(poll[h][t], t)
BY DEF PollerInv, PollerTypeOK, PollsSound, PollStates

\* A goroutine that ends.
LEMMA RestSound ==
  ASSUME PollerInv, NodeTypeOK, UNCHANGED nodeVars, NEW h \in Hosts, NEW t \in Txns,
         poll' = [poll EXCEPT ![h][t] = Resting]
  PROVE  PollerInv'
<1>1. Resting \in PollStates /\ PollSound(Resting, t)
  BY DEF Resting, PollStates, PollSound, Verdicts
<1>2. /\ poll' \in [Hosts -> [Txns -> PollStates]]
      /\ \A g \in Hosts, u \in Txns : g # h \/ u # t => poll'[g][u] = poll[g][u]
      /\ poll'[h][t] = Resting
  BY <1>1, PollHeld
<1> QED BY <1>1, <1>2, PollMoves

LEMMA PollFrame ==
  ASSUME WorkInv, StoreInv', PollerInv', faults' \in Nat, told' \in [Txns -> SUBSET Terminal],
         UNCHANGED <<nodeVars, age, signed, actor, chan, cancelled>>
  PROVE  WorkInv' /\ Grows
<1>1. NodeTypeOK' /\ Grows
  BY NodeFrame DEF WorkInv
<1>2. ChanInv' /\ ActorInv'
  BY DEF WorkInv, ChanInv, ChansSound, ActorInv, HandsSound, HandSound, Signed, Sound,
         Numbered
<1> QED BY <1>1, <1>2 DEF WorkInv, RestOK

\* What a poller's step keeps: the workers, itself, and the announcements.
PollOK == WorkInv /\ PollerInv /\ AnnouncedIsOnChain

LEMMA AnnouncedFrame ==
  ASSUME NodeTypeOK, AnnouncedIsOnChain, Grows,
         \A t \in Txns : "confirmed" \in told'[t] => "confirmed" \in told[t]
  PROVE  AnnouncedIsOnChain'
BY GrowsKeeps DEF AnnouncedIsOnChain

LEMMA PollListSound ==
  ASSUME PollOK, NEW h \in Hosts, NEW t \in Txns, PollList(h, t)
  PROVE  PollOK'
<1> DEFINE x == [pc |-> "lookup", rec |-> Row(t), verdict |-> None]
<1>1. poll' = [poll EXCEPT ![h][t] = x]
  BY DEF PollList
<1>2. Sound(Row(t)) /\ Row(t) \in Records /\ Row(t).txn = t
  BY Read DEF PollOK, Row
<1>3. /\ poll' \in [Hosts -> [Txns -> PollStates]]
      /\ \A g \in Hosts, u \in Txns : g # h \/ u # t => poll'[g][u] = poll[g][u]
      /\ poll'[h][t].pc = "lookup" /\ poll'[h][t].rec = Row(t)
  <2>1. poll \in [Hosts -> [Txns -> PollStates]] /\ x \in PollStates
    BY <1>2, PollHeld DEF PollOK, PollStates, Verdicts
  <2>2. x.pc = "lookup" /\ x.rec = Row(t)
    OBVIOUS
  <2> HIDE DEF x
  <2> QED BY <1>1, <2>1, <2>2
<1>4. PollSound(poll'[h][t], t)
  BY <1>2, <1>3 DEF PollSound
<1>5. PollerInv' /\ StoreInv'
  BY <1>3, <1>4, PollMoves, StoreStays DEF PollOK, WorkInv, PollList
<1>6. WorkInv' /\ Grows
  BY <1>5, PollFrame DEF PollOK, PollList, submitterVars, WorkInv, RestOK
<1> QED BY <1>5, <1>6, AnnouncedFrame DEF PollOK, PollList, submitterVars, WorkInv

LEMMA PollLookupSound ==
  ASSUME PollOK, NEW h \in Hosts, NEW t \in Txns, PollLookup(h, t)
  PROVE  PollOK'
<1>1. /\ poll[h][t] \in PollStates /\ PollSound(poll[h][t], t)
      /\ poll[h][t].pc = "lookup"
      /\ poll \in [Hosts -> [Txns -> PollStates]]
  BY PollHeld DEF PollOK, PollLookup
<1>2. PollerInv'
  <2>1. CASE poll' = [poll EXCEPT ![h][t] = Resting]
    BY <2>1, RestSound DEF PollOK, WorkInv, PollLookup
  <2>2. CASE \E v \in Verdict(poll[h][t].rec) :
               poll' = [poll EXCEPT ![h][t].pc = "write", ![h][t].verdict = v]
    <3>1. PICK v \in Verdict(poll[h][t].rec) :
            poll' = [poll EXCEPT ![h][t].pc = "write", ![h][t].verdict = v]
      BY <2>2
    <3>2. v \in Terminal /\ (v = "confirmed" => Succeeded(poll[h][t].rec.hash))
      BY DEF Verdict
    <3>3. /\ poll' \in [Hosts -> [Txns -> PollStates]]
          /\ \A g \in Hosts, u \in Txns : g # h \/ u # t => poll'[g][u] = poll[g][u]
          /\ poll'[h][t].rec = poll[h][t].rec /\ poll'[h][t].verdict = v
      BY <1>1, <3>1, <3>2 DEF PollStates, Verdicts
    <3>4. PollSound(poll'[h][t], t)
      BY <1>1, <3>2, <3>3 DEF PollSound
    <3> QED BY <3>3, <3>4, PollMoves DEF PollOK, WorkInv, PollLookup
  <2> QED BY <2>1, <2>2 DEF PollLookup
<1>3. StoreInv'
  BY StoreStays DEF PollOK, PollLookup
<1>4. WorkInv' /\ Grows
  BY <1>2, <1>3, PollFrame DEF PollOK, PollLookup, submitterVars, WorkInv, RestOK
<1> QED BY <1>2, <1>4, AnnouncedFrame DEF PollOK, PollLookup, submitterVars, WorkInv

LEMMA PollWriteSound ==
  ASSUME PollOK, NEW h \in Hosts, NEW t \in Txns, PollWrite(h, t)
  PROVE  PollOK'
<1> DEFINE rec == poll[h][t].rec
           written == [rec EXCEPT !.status = poll[h][t].verdict]
<1>1. /\ poll[h][t] \in PollStates /\ PollSound(poll[h][t], t)
      /\ poll[h][t].pc = "write"
      /\ poll \in [Hosts -> [Txns -> PollStates]]
  BY PollHeld DEF PollOK, PollWrite
<1>2. Sound(written)
  <2>1. Sound(rec) /\ poll[h][t].verdict \in Terminal
    BY <1>1 DEF PollSound
  <2> QED BY <2>1 DEF Sound, Records, Numbered, Statuses, Terminal
<1>3. \/ Update(written) /\ poll' = [poll EXCEPT ![h][t].pc = "tell"]
      \/ UNCHANGED storeVars /\ poll' = [poll EXCEPT ![h][t] = Resting]
  BY DEF PollWrite
<1> HIDE DEF written
<1>4. StoreInv' /\ faults' \in Nat
  BY <1>2, <1>3, UpdateSound, StoreStays DEF PollOK, WorkInv, RestOK, PollWrite
<1>5. UNCHANGED <<nodeVars, age, signed, told, actor, chan, cancelled>>
  BY DEF PollWrite
<1>6. PollerInv'
  <2>1. CASE poll' = [poll EXCEPT ![h][t] = Resting]
    BY <1>5, <2>1, RestSound DEF PollOK, WorkInv
  <2>2. CASE poll' = [poll EXCEPT ![h][t].pc = "tell"]
    <3>1. /\ poll' \in [Hosts -> [Txns -> PollStates]]
          /\ \A g \in Hosts, u \in Txns : g # h \/ u # t => poll'[g][u] = poll[g][u]
          /\ poll'[h][t].rec = rec /\ poll'[h][t].verdict = poll[h][t].verdict
      BY <1>1, <2>2 DEF PollStates
    <3>2. PollSound(poll'[h][t], t)
      BY <1>1, <3>1 DEF PollSound
    <3> QED BY <1>5, <3>1, <3>2, PollMoves DEF PollOK, WorkInv
  <2> QED BY <1>3, <2>1, <2>2
<1>7. WorkInv' /\ Grows
  BY <1>4, <1>5, <1>6, PollFrame DEF PollOK, WorkInv, RestOK
<1> QED BY <1>5, <1>6, <1>7, AnnouncedFrame DEF PollOK, WorkInv

\* The one step that announces a confirmation.
LEMMA PollNotifySound ==
  ASSUME PollOK, NEW h \in Hosts, NEW t \in Txns, PollNotify(h, t)
  PROVE  PollOK'
<1>1. PollSound(poll[h][t], t) /\ poll[h][t].pc = "tell"
  BY PollHeld DEF PollOK, PollNotify
<1>2. /\ UNCHANGED <<storeVars, nodeVars, age, signed, actor, chan, cancelled>>
      /\ faults' \in Nat
      /\ told' = [told EXCEPT ![t] = @ \cup {poll[h][t].verdict}] \/ UNCHANGED told
  BY DEF PollNotify, PollOK, WorkInv, RestOK
<1>3. told' \in [Txns -> SUBSET Terminal]
  BY <1>1, <1>2 DEF PollSound, PollOK, WorkInv, RestOK
<1>4. PollerInv' /\ StoreInv'
  BY <1>2, RestSound, StoreStays DEF PollNotify, PollOK, WorkInv
<1>5. WorkInv' /\ Grows
  BY <1>2, <1>3, <1>4, PollFrame DEF PollOK
<1>6. AnnouncedIsOnChain'
  <2>1. poll[h][t].verdict = "confirmed" => Executed(t)
    BY <1>1 DEF PollSound, Sound, Succeeded, Is, Executed, Own
  <2>2. \A u \in Txns : "confirmed" \in told'[u] =>
          "confirmed" \in told[u] \/ (u = t /\ poll[h][t].verdict = "confirmed")
    BY <1>2 DEF PollOK, WorkInv, RestOK
  <2>3. \A u : Executed(u) => Executed(u)'
    BY <1>5, GrowsKeeps DEF PollOK, WorkInv
  <2> QED BY <2>1, <2>2, <2>3 DEF PollOK, AnnouncedIsOnChain
<1> QED BY <1>4, <1>5, <1>6 DEF PollOK

-----------------------------------------------------------------------------
(* The whole pipeline.                                                     *)

LEMMA InvParts == Inv <=> PollOK /\ crashes \in Nat
BY DEF Inv, TypeOK, CopiesSound, PollOK, WorkInv, StoreInv, ActorInv, ChanInv, RestOK,
       PollerInv, SubmitterTypeOK

LEMMA InvPartsNext == Inv' <=> PollOK' /\ crashes' \in Nat
BY DEF Inv, TypeOK, CopiesSound, PollOK, WorkInv, StoreInv, ActorInv, ChanInv, RestOK,
       PollerInv, SubmitterTypeOK

LEMMA InitSound == Init => Inv
<1> SUFFICES ASSUME Init PROVE PollOK /\ crashes \in Nat
  BY InvParts
<1>1. StoreInv
  <2>1. StoreTypeOK
    BY DEF Init, StoreInit, StoreTypeOK, Statuses
  <2>2. ASSUME NEW t \in Txns PROVE Sound(Row(t))
    <3>1. Row(t) = [txn |-> t, status |-> "absent", seq |-> None, hash |-> None]
      BY DEF Init, StoreInit, Row
    <3> QED BY <3>1 DEF Sound, Records, Numbered, Statuses
  <2> QED BY <2>1, <2>2 DEF StoreInv, RowsSound
<1>2. NodeTypeOK
  BY DEF Init, NodeInit, NodeTypeOK
<1>3. ActorInv
  <2>1. Off \in ActorStates /\ HandSound(Off)
    BY DEF Off, ActorStates, PCs, Procedures, Returns, HandSound
  <2> QED BY <2>1 DEF Init, SubmitterInit, ActorInv, HandsSound
<1>4. ChanInv
  <2>1. \A h \in Hosts : chan[h] = <<>>
    BY DEF Init, SubmitterInit
  <2> QED BY <2>1 DEF Init, SubmitterInit, ChanInv, ChansSound
<1>5. RestOK
  BY DEF Init, SubmitterInit, RestOK
<1>6. PollerInv
  <2>1. Resting \in PollStates /\ \A t : PollSound(Resting, t)
    BY DEF Resting, PollStates, PollSound, Verdicts
  <2> QED BY <2>1 DEF Init, PollerInit, PollerInv, PollerTypeOK, PollsSound, PollStates
<1>7. AnnouncedIsOnChain /\ crashes \in Nat
  BY DEF Init, SubmitterInit, AnnouncedIsOnChain
<1> QED BY <1>1, <1>2, <1>3, <1>4, <1>5, <1>6, <1>7 DEF PollOK, WorkInv

LEMMA WorkSound ==
  ASSUME PollOK, NEW h \in Hosts, Work(h)
  PROVE  PollOK'
<1>1. Producer(h) \in Actors /\ Consumer(h) \in Actors
  BY DEF Producer, Consumer, Actors, Roles
<1>2. WorkInv' /\ Quiet
  BY <1>1, SpawnSound, ProcedureSound, ProduceSound, ConsumeSound DEF Work, PollOK
<1>3. PollerInv' /\ AnnouncedIsOnChain'
  BY <1>2, PollerFrame, AnnouncedFrame DEF Work, Quiet, PollOK, WorkInv
<1> QED BY <1>2, <1>3 DEF PollOK

\* Steps that leave the workers alone.
LEMMA WorkersStay ==
  ASSUME PollOK, StoreInv', NodeTypeOK' /\ Grows, age' \in [Txns -> 0 .. 2],
         UNCHANGED <<signed, told, actor, chan, cancelled, faults, poll>>
  PROVE  PollOK'
<1>1. ChanInv' /\ ActorInv'
  BY DEF PollOK, WorkInv, ChanInv, ChansSound, ActorInv, HandsSound, HandSound, Signed,
         Sound, Numbered
<1>2. PollerInv' /\ AnnouncedIsOnChain'
  BY PollerFrame, AnnouncedFrame DEF PollOK, WorkInv
<1> QED BY <1>1, <1>2 DEF PollOK, WorkInv, RestOK

LEMMA CrashSound ==
  ASSUME PollOK, NEW h \in Hosts, Crash(h)
  PROVE  PollOK'
<1>1. /\ actor' = [a \in Actors |-> IF a[1] = h THEN Off ELSE actor[a]]
      /\ chan' = [chan EXCEPT ![h] = <<>>]
      /\ cancelled' = [cancelled EXCEPT ![h] = FALSE]
      /\ poll' = [poll EXCEPT ![h] = [t \in Txns |-> Resting]]
      /\ UNCHANGED <<storeVars, nodeVars, age, signed, told, faults>>
  BY DEF Crash
<1>2. ActorInv'
  <2>1. Off \in ActorStates /\ HandSound(Off)
    BY DEF Off, ActorStates, PCs, Procedures, Returns, HandSound
  <2> QED BY <1>1, <2>1 DEF PollOK, WorkInv, ActorInv, HandsSound
<1>3. ChanInv'
  <2>1. chan' \in [Hosts -> Seq(Items)]
    BY <1>1 DEF PollOK, WorkInv, ChanInv
  <2>2. \A g \in Hosts : chan'[g] = <<>> \/ chan'[g] = chan[g]
    BY <1>1 DEF PollOK, WorkInv, ChanInv
  <2> QED BY <2>1, <2>2 DEF PollOK, WorkInv, ChanInv, ChansSound, Signed, Sound, Numbered
<1>4. NodeTypeOK' /\ Grows /\ StoreInv'
  BY <1>1, NodeFrame, StoreStays DEF PollOK, WorkInv
<1>5. WorkInv'
  BY <1>1, <1>2, <1>3, <1>4 DEF PollOK, WorkInv, RestOK
<1>6. PollerInv'
  <2>1. Resting \in PollStates /\ \A t : PollSound(Resting, t)
    BY DEF Resting, PollStates, PollSound, Verdicts
  <2>2. poll \in [Hosts -> [Txns -> PollStates]]
    BY DEF PollOK, PollerInv, PollerTypeOK, PollStates
  <2>3. poll' \in [Hosts -> [Txns -> PollStates]]
    BY <1>1, <2>1, <2>2
  <2>4. \A g \in Hosts, t \in Txns : poll'[g][t] = Resting \/ poll'[g][t] = poll[g][t]
    BY <1>1, <2>2
  <2>5. \A g \in Hosts, t \in Txns : PollSound(poll'[g][t], t)
    BY <2>1, <2>4 DEF PollOK, PollerInv, PollsSound
  <2> QED BY <1>1, <2>3, <2>5 DEF PollerInv, PollerTypeOK, PollsSound, PollSound, PollStates,
                          nodeVars, Succeeded, Is, Sound, Numbered
<1> QED BY <1>1, <1>4, <1>5, <1>6, AnnouncedFrame DEF PollOK, WorkInv

LEMMA NextSound == Inv /\ [Next]_vars => Inv'
<1> SUFFICES ASSUME Inv, [Next]_vars PROVE Inv'
  OBVIOUS
<1>0. PollOK /\ crashes \in Nat
  BY InvParts
<1> SUFFICES PollOK' /\ crashes' \in Nat
  BY InvPartsNext
<1>1. CASE \E t \in Txns : Enqueue(t)
  BY <1>0, <1>1, CreateSound, NodeFrame, WorkersStay
     DEF Enqueue, PollOK, WorkInv, RestOK, submitterVars
<1>2. CASE \E t \in Txns : Pass(t)
  <2>1. PICK t \in Txns : Pass(t)
    BY <1>2
  <2>2. age' \in [Txns -> 0 .. 2]
    BY <1>0, <2>1, PipelineAssumption DEF Pass, PollOK, WorkInv, RestOK
  <2> QED BY <1>0, <2>1, <2>2, StoreStays, NodeFrame, WorkersStay DEF Pass, PollOK, WorkInv
<1>3. CASE \E h \in Hosts : Work(h)
  BY <1>0, <1>3, WorkSound DEF Work
<1>4. CASE \E h \in Hosts : Poll(h)
  BY <1>0, <1>4, PollListSound, PollLookupSound, PollWriteSound, PollNotifySound
     DEF Poll, PollStep
<1>5. CASE \E h \in Hosts : Crash(h)
  <2>1. PICK h \in Hosts : Crash(h)
    BY <1>5
  <2>2. crashes' \in Nat
    BY <1>0, <2>1 DEF Crash
  <2> QED BY <1>0, <2>1, <2>2, CrashSound
<1>6. CASE Recover
  <2>1. PICK S \in SUBSET Stale : RecoverStaleProcessing(S)
    BY <1>6 DEF Recover
  <2>2. S \in SUBSET Txns
    BY <2>1 DEF Stale, Recoverable, InStatus
  <2> QED BY <1>0, <1>6, <2>1, <2>2, RecoverSound, NodeFrame, WorkersStay
          DEF Recover, PollOK, WorkInv, RestOK, submitterVars
<1>7. CASE Node
  <2>1. NodeTypeOK' /\ Grows
    BY <1>0, <1>7, CommitSound, DropSound, LandSound, ExternalSound DEF Node, PollOK, WorkInv
  <2> QED BY <1>0, <1>7, <2>1, StoreStays, WorkersStay
          DEF Node, PollOK, WorkInv, RestOK, submitterVars
<1>8. CASE UNCHANGED vars
  BY <1>0, <1>8, StoreStays, NodeFrame, WorkersStay
     DEF vars, PollOK, WorkInv, RestOK, submitterVars
<1> QED BY <1>1, <1>2, <1>3, <1>4, <1>5, <1>6, <1>7, <1>8 DEF Next

-----------------------------------------------------------------------------
\* Whatever copy of a row a worker, a channel, a list or a poller holds is one
\* the table could hold: the inductive invariant of the pipeline.
THEOREM InvHolds == Spec => []Inv
BY InitSound, NextSound, PTL DEF Spec

\* Every variable of the pipeline has its type, with any number of hosts.
THEOREM TypeCorrect == Spec => []TypeOK
<1>1. Inv => TypeOK
  BY DEF Inv
<1> QED BY <1>1, InvHolds, PTL

\* A queued row never has a sequence number and a row in flight always has
\* one, whichever stale copies are written back and whichever statements fail.
THEOREM NumberedInFlightHolds == Spec => []NumberedInFlight
<1>1. Inv => NumberedInFlight
  BY DEF Inv, CopiesSound, RowsSound, Sound, NumberedInFlight
<1> QED BY <1>1, InvHolds, PTL

\* A webhook announces a confirmation only of a request that the chain has
\* executed with success: for any number of hosts, with lost replies, foreign
\* transactions, mempool losses, crashes and failing statements.
THEOREM AnnouncedIsOnChainHolds == Spec => []AnnouncedIsOnChain
<1>1. Inv => AnnouncedIsOnChain
  BY DEF Inv
<1> QED BY <1>1, InvHolds, PTL

=============================================================================
