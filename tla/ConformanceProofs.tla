-------------------------- MODULE ConformanceProofs --------------------------
(***************************************************************************)
(* The pipeline implements the service, and MySQL's store is the one the   *)
(* tests use.  The refinement needs one more invariant than Inv: whatever  *)
(* is held, listed, under way or on chain is about a request that was      *)
(* taken, and no copy of a row is older than the row's insert.             *)
(***************************************************************************)
EXTENDS Conformance, PipelineProofs

\* A copy of the row of a request in T.
Known(rec, T) == rec.txn \in T /\ rec.status # "absent"

Holding == Procedures \cup {"load", "prepare", "push", "persist", "submit", "mark"}

HandKnown(x, T) ==
  /\ x.pc \in Holding => Known(x.rec, T)
  /\ \A rec \in x.todo : Known(rec, T)

HandsKnown == \A a \in Actors : HandKnown(actor[a], Taken)
ChansKnown == \A h \in Hosts : \A i \in 1 .. Len(chan[h]) : Known(chan[h][i].rec, Taken)
PollsKnown == \A h \in Hosts, t \in Txns : poll[h][t].pc # "idle" => t \in Taken
NodeKnown ==
  /\ \A hash \in underway : hash.txn \in Taken
  /\ \A i \in 1 .. Len(log) : Own(i) => log[i].hash.txn \in Taken

AllKnown == HandsKnown /\ ChansKnown /\ PollsKnown /\ NodeKnown

-----------------------------------------------------------------------------
(* What is taken stays taken, and requests are taken one by one.           *)

Takes == Taken' = Taken \/ \E t \in Txns : Taken' = Taken \cup {t}

LEMMA KnownStays ==
  ASSUME Takes
  PROVE  /\ Taken \subseteq Taken'
         /\ \A rec : Known(rec, Taken) => Known(rec, Taken')
         /\ \A x : HandKnown(x, Taken) => HandKnown(x, Taken')
BY DEF Takes, Known, HandKnown

LEMMA SameTaken ==
  ASSUME rows' = rows
  PROVE  Takes /\ Taken' = Taken
BY DEF Taken, Takes

LEMMA UpdateTakes ==
  ASSUME StoreInv, NEW rec \in Records, rec.status # "absent", Update(rec)
  PROVE  Takes
<1>1. rec.txn \in Txns
  BY DEF Records
<1>2. \A t \in Txns : rows'[t].status = IF t = rec.txn THEN rec.status ELSE rows[t].status
  BY <1>1 DEF Update, StoreInv, StoreTypeOK
<1>3. Taken' = Taken \cup {rec.txn}
  BY <1>1, <1>2 DEF Taken
<1> QED BY <1>1, <1>3 DEF Takes

LEMMA GiveBackTakes ==
  ASSUME StoreInv, NEW S, NEW burned, GiveBack(S, burned),
         \A t \in S : t \in Txns => rows[t].status # "absent"
  PROVE  Takes
<1>1. CASE UNCHANGED storeVars
  BY <1>1, SameTaken DEF storeVars
<1>2. CASE ~UNCHANGED storeVars
  <2>1. rows' = [t \in Txns |-> IF t \in S
                   THEN [rows[t] EXCEPT !.status = "queued", !.seq = None]
                   ELSE rows[t]]
    BY <1>2 DEF GiveBack
  <2>2. \A t \in Txns : rows'[t].status = IF t \in S THEN "queued" ELSE rows[t].status
    BY <2>1 DEF StoreInv, StoreTypeOK
  <2>3. Taken' = Taken
    BY <2>2 DEF Taken
  <2> QED BY <2>3 DEF Takes
<1> QED BY <1>1, <1>2

LEMMA CreateTakes ==
  ASSUME StoreInv, NEW t \in Txns, Create(t)
  PROVE  Takes
<1>1. \A u \in Txns : rows'[u].status = IF u = t THEN "queued" ELSE rows[u].status
  BY DEF Create, StoreInv, StoreTypeOK
<1>2. Taken' = Taken \cup {t}
  BY <1>1 DEF Taken
<1> QED BY <1>2 DEF Takes

LEMMA ClaimTakes ==
  ASSUME StoreInv, NEW t \in Txns, ClaimOldest(t)
  PROVE  Takes /\ t \in Taken
<1>1. \A u \in Txns : rows'[u].status = IF u = t THEN "processing" ELSE rows[u].status
  BY DEF ClaimOldest, StoreInv, StoreTypeOK
<1>2. Taken' = Taken /\ t \in Taken
  BY <1>1 DEF Taken, ClaimOldest
<1> QED BY <1>2 DEF Takes

LEMMA CounterTakes ==
  ASSUME NEW n, ReleaseSequence \/ ReconcileSequence(n) \/ ForceResetSequenceToChain(n)
  PROVE  Takes
BY SameTaken DEF ReleaseSequence, ReconcileSequence, ForceResetSequenceToChain

LEMMA ShiftTakes ==
  ASSUME StoreInv, NEW n, ShiftSenderSequences(n)
  PROVE  Takes
<1>1. \A t \in Above(n) : rows[t].status # "absent"
  BY DEF Above, InStatus
<1> QED BY <1>1, GiveBackTakes DEF ShiftSenderSequences

LEMMA RecoverTakes ==
  ASSUME StoreInv, NEW S \in SUBSET Recoverable, RecoverStaleProcessing(S)
  PROVE  Takes
<1>1. \A t \in S : rows[t].status # "absent"
  BY DEF Recoverable, InStatus
<1> QED BY <1>1, GiveBackTakes DEF RecoverStaleProcessing

\* A row that a list finds was taken.
LEMMA ListedKnown ==
  ASSUME NEW t \in Txns, rows[t].status # "absent"
  PROVE  Known(Row(t), Taken)
BY DEF Known, Row, Taken

-----------------------------------------------------------------------------
(* Workers: each step of one takes a request at most, and what the worker  *)
(* has in hand afterwards is known.                                        *)

Moves(a) ==
  /\ Takes
  /\ \A b \in Actors : b # a => actor'[b] = actor[b]
  /\ HandKnown(actor'[a], Taken')

LEMMA Carried ==
  ASSUME WorkInv, HandsKnown, NEW a \in Actors
  PROVE  /\ actor \in [Actors -> ActorStates]
         /\ actor[a] \in ActorStates
         /\ HandKnown(actor[a], Taken)
BY DEF WorkInv, ActorInv, HandsKnown

\* The four ways to move on.
LEMMA GotoKnown ==
  ASSUME WorkInv, HandsKnown, NEW a \in Actors, NEW pc, Goto(a, pc), Takes,
         pc \in Holding => actor[a].pc \in Holding
  PROVE  Moves(a)
<1>1. /\ actor'[a].pc = pc /\ actor'[a].rec = actor[a].rec /\ actor'[a].todo = actor[a].todo
      /\ \A b \in Actors : b # a => actor'[b] = actor[b]
  BY Carried DEF Goto, ActorStates
<1> QED BY <1>1, Carried, KnownStays DEF Moves, HandKnown

LEMMA LeaveKnown ==
  ASSUME WorkInv, HandsKnown, NEW a \in Actors, NEW pc, Leave(a, pc), Takes,
         pc \notin Holding
  PROVE  Moves(a)
<1>1. /\ actor'[a].pc = pc /\ actor'[a].todo = {}
      /\ \A b \in Actors : b # a => actor'[b] = actor[b]
  BY Carried DEF Leave, Off
<1> QED BY <1>1 DEF Moves, HandKnown

LEMMA ReturnKnown ==
  ASSUME WorkInv, HandsKnown, NEW a \in Actors, Return(a), Takes
  PROVE  Moves(a)
<1>1. /\ actor'[a].pc = actor[a].ret /\ actor'[a].todo = actor[a].todo
      /\ \A b \in Actors : b # a => actor'[b] = actor[b]
  BY Carried DEF Return, Off
<1>2. actor[a].ret \notin Holding
  BY Carried DEF ActorStates, Returns, Holding, Procedures
<1> QED BY <1>1, <1>2, Carried, KnownStays DEF Moves, HandKnown

LEMMA CallKnown ==
  ASSUME WorkInv, HandsKnown, NEW a \in Actors, NEW pc, NEW rec, NEW ret,
         Call(a, pc, rec, ret), Takes, Known(rec, Taken)
  PROVE  Moves(a)
<1>1. /\ actor'[a].rec = rec /\ actor'[a].todo = actor[a].todo
      /\ \A b \in Actors : b # a => actor'[b] = actor[b]
  BY Carried DEF Call, ActorStates
<1> QED BY <1>1, Carried, KnownStays DEF Moves, HandKnown

\* What every action of a worker is guarded by.
LEMMA Grasp ==
  ASSUME WorkInv, HandsKnown, NEW a \in Actors, actor[a].pc \in Holding
  PROVE  /\ Rec(a) \in Records
         /\ Known(Rec(a), Taken)
         /\ Known([Rec(a) EXCEPT !.hash = None], Taken)
<1>1. Rec(a) \in Records
  BY Held DEF At, Holding, Signed, Sound
<1>2. Known(Rec(a), Taken)
  BY Carried DEF HandKnown, Rec
<1> QED BY <1>1, <1>2 DEF Known, Records

\* The updates of the failure procedures.
LEMMA WriteTakes ==
  ASSUME WorkInv, NEW rec \in Records,
         \/ Update(Requeued(rec))
         \/ Update([rec EXCEPT !.status = "failed"])
         \/ rec.seq # None /\ Update([rec EXCEPT !.status = "submitted"])
  PROVE  Takes
<1>1. /\ Requeued(rec) \in Records /\ Requeued(rec).status = "queued"
      /\ [rec EXCEPT !.status = "failed"] \in Records
      /\ [rec EXCEPT !.status = "failed"].status = "failed"
      /\ [rec EXCEPT !.status = "submitted"] \in Records
      /\ [rec EXCEPT !.status = "submitted"].status = "submitted"
  BY DEF Requeued, Records, Statuses, Terminal
<1> QED BY <1>1, UpdateTakes DEF WorkInv

-----------------------------------------------------------------------------
(* The steps of a worker, one by one.                                      *)

LEMMA StoreTakes ==
  ASSUME UNCHANGED storeVars
  PROVE  Takes
BY SameTaken DEF storeVars

LEMMA RequeueMoves ==
  ASSUME WorkInv, HandsKnown, NEW a \in Actors, Requeue(a)
  PROVE  Moves(a)
<1>1. actor[a].pc \in Holding /\ Rec(a) \in Records
  BY Grasp DEF Requeue, At, Holding, Procedures
<1>2. Takes
  BY <1>1, WriteTakes, StoreTakes DEF Requeue
<1> QED BY <1>1, <1>2, ReturnKnown, GotoKnown DEF Requeue

LEMMA ReleaseMoves ==
  ASSUME WorkInv, HandsKnown, NEW a \in Actors, Release(a)
  PROVE  Moves(a)
<1>1. Takes
  BY CounterTakes, StoreTakes DEF Release
<1> QED BY <1>1, ReturnKnown DEF Release

LEMMA FailMoves ==
  ASSUME WorkInv, HandsKnown, NEW a \in Actors, Fail(a)
  PROVE  Moves(a)
<1>1. actor[a].pc \in Holding /\ Rec(a) \in Records
  BY Grasp DEF Fail, At, Holding, Procedures
<1>2. Takes
  BY <1>1, WriteTakes, StoreTakes DEF Fail
<1> QED BY <1>1, <1>2, GotoKnown DEF Fail

LEMMA ShiftMoves ==
  ASSUME WorkInv, HandsKnown, NEW a \in Actors, Shift(a)
  PROVE  Moves(a)
<1>1. actor[a].pc \in Holding
  BY DEF Shift, At, Holding, Procedures
<1>2. Takes
  BY ShiftTakes, StoreTakes DEF Shift, WorkInv
<1> QED BY <1>1, <1>2, GotoKnown DEF Shift

LEMMA NotifyFailedMoves ==
  ASSUME WorkInv, HandsKnown, NEW a \in Actors, NotifyFailed(a)
  PROVE  Moves(a) /\ Rec(a).txn \in Taken
<1>1. actor[a].pc \in Holding
  BY DEF NotifyFailed, At, Holding, Procedures
<1> QED BY <1>1, Grasp, StoreTakes, ReturnKnown DEF NotifyFailed, Known

LEMMA FetchAccountMoves ==
  ASSUME WorkInv, HandsKnown, NEW a \in Actors, FetchAccount(a)
  PROVE  Moves(a)
<1>1. actor[a].pc \in Holding /\ Takes
  BY StoreTakes DEF FetchAccount, At, Holding, Procedures
<1>2. CASE Goto(a, "requeue")
  BY <1>1, <1>2, GotoKnown
<1>3. CASE actor' = [actor EXCEPT ![a].pc = "counter", ![a].chainSeq = ChainSequence]
  <2>1. /\ actor'[a].rec = actor[a].rec /\ actor'[a].todo = actor[a].todo
        /\ \A b \in Actors : b # a => actor'[b] = actor[b]
    BY <1>3, Carried DEF ActorStates
  <2> QED BY <1>1, <2>1, Carried, KnownStays DEF Moves, HandKnown
<1> QED BY <1>2, <1>3 DEF FetchAccount

LEMMA AdjustCounterMoves ==
  ASSUME WorkInv, HandsKnown, NEW a \in Actors, AdjustCounter(a)
  PROVE  Moves(a)
<1>1. actor[a].pc \in Holding
  BY DEF AdjustCounter, At, Holding, Procedures
<1>2. Takes
  BY CounterTakes, StoreTakes DEF AdjustCounter
<1> QED BY <1>1, <1>2, GotoKnown DEF AdjustCounter

\* Taking a list of rows in processing into memory.
LEMMA ListingMoves ==
  ASSUME WorkInv, HandsKnown, NEW a \in Actors, NEW S \in SUBSET Recoverable, NEW pc,
         Takes, actor' = [actor EXCEPT ![a].pc = pc, ![a].todo = {Row(t) : t \in S}],
         pc \in Holding => actor[a].pc \in Holding
  PROVE  Moves(a)
<1> DEFINE rs == {Row(t) : t \in S}
<1>1. \A rec \in rs : Known(rec, Taken)
  BY ListedKnown DEF Recoverable, InStatus
<1>2. actor' = [actor EXCEPT ![a].pc = pc, ![a].todo = rs]
  OBVIOUS
<1> HIDE DEF rs
<1>3. /\ actor'[a].pc = pc /\ actor'[a].rec = actor[a].rec /\ actor'[a].todo = rs
      /\ \A b \in Actors : b # a => actor'[b] = actor[b]
  BY <1>2, Carried DEF ActorStates
<1> QED BY <1>1, <1>3, Carried, KnownStays DEF Moves, HandKnown

LEMMA ListSiblingsMoves ==
  ASSUME WorkInv, HandsKnown, NEW a \in Actors, ListSiblings(a)
  PROVE  Moves(a)
<1>1. actor[a].pc \in Holding /\ Takes
  BY StoreTakes DEF ListSiblings, At, Holding, Procedures
<1>2. Recoverable \ {Rec(a).txn} \in SUBSET Recoverable
  OBVIOUS
<1> QED BY <1>1, <1>2, GotoKnown, ListingMoves DEF ListSiblings

LEMMA RequeueSiblingMoves ==
  ASSUME WorkInv, HandsKnown, NEW a \in Actors, RequeueSibling(a)
  PROVE  Moves(a)
<1>1. PICK rec \in actor[a].todo :
        /\ \/ Succeeds(a) /\ Update(Requeued(rec))
           \/ Fails(a) /\ UNCHANGED storeVars
        /\ actor' = [actor EXCEPT ![a].todo = @ \ {rec}]
  BY DEF RequeueSibling
<1>2. rec \in Records
  BY Held DEF RequeueSibling, Sound
<1>3. Takes
  BY <1>1, <1>2, WriteTakes, StoreTakes
<1>4. /\ actor'[a].pc = actor[a].pc /\ actor'[a].rec = actor[a].rec
      /\ actor'[a].todo \subseteq actor[a].todo
      /\ \A b \in Actors : b # a => actor'[b] = actor[b]
  BY <1>1, Carried DEF ActorStates
<1> QED BY <1>3, <1>4, Carried, KnownStays DEF Moves, HandKnown

LEMMA RequeueReconciledMoves ==
  ASSUME WorkInv, HandsKnown, NEW a \in Actors, RequeueReconciled(a)
  PROVE  Moves(a)
<1>1. Rec(a) \in Records
  BY Grasp DEF RequeueReconciled, At, Holding, Procedures
<1>2. Takes
  BY <1>1, WriteTakes, StoreTakes DEF RequeueReconciled
<1> QED BY <1>2, ReturnKnown DEF RequeueReconciled

LEMMA ProcedureMoves ==
  ASSUME WorkInv, HandsKnown, NEW a \in Actors, Procedure(a)
  PROVE  Moves(a)
BY RequeueMoves, ReleaseMoves, FailMoves, ShiftMoves, NotifyFailedMoves,
   FetchAccountMoves, AdjustCounterMoves, ListSiblingsMoves, RequeueSiblingMoves,
   RequeueReconciledMoves DEF Procedure

\* Both halves of the host's worker start with nothing in hand.
LEMMA SpawnKnown ==
  ASSUME WorkInv, HandsKnown, NEW h \in Hosts, Spawn(h)
  PROVE  HandsKnown'
<1> DEFINE p == Producer(h)
           c == Consumer(h)
<1>1. p \in Actors /\ c \in Actors
  BY DEF Producer, Consumer, Actors, Roles
<1>2. actor' = [actor EXCEPT ![p].pc = "claim", ![c].pc = "receive"] /\ rows' = rows
  BY DEF Spawn, storeVars
<1>3. \A b \in Actors : actor[b] \in ActorStates /\ HandKnown(actor[b], Taken)
  BY Carried
<1> HIDE DEF p, c
<1>4. \A b \in Actors :
        /\ actor'[b].pc = actor[b].pc \/ actor'[b].pc \in {"claim", "receive"}
        /\ actor'[b].rec = actor[b].rec /\ actor'[b].todo = actor[b].todo
  BY <1>1, <1>2, <1>3, Carried DEF ActorStates
<1>5. \A b \in Actors : HandKnown(actor'[b], Taken)
  BY <1>3, <1>4 DEF HandKnown, Holding, Procedures
<1> QED BY <1>2, <1>5, SameTaken DEF HandsKnown

LEMMA ClaimMoves ==
  ASSUME WorkInv, HandsKnown, NEW a \in Actors, Claim(a)
  PROVE  Moves(a)
<1>1. PICK t \in Txns :
        /\ ClaimOldest(t)
        /\ actor' = [actor EXCEPT ![a].pc = "load",
             ![a].rec = [txn |-> t, status |-> "processing", seq |-> nextSeq,
                         hash |-> rows[t].hash]]
  BY DEF Claim
<1> DEFINE rec == [txn |-> t, status |-> "processing", seq |-> nextSeq,
                   hash |-> rows[t].hash]
<1>2. Takes /\ Known(rec, Taken)
  BY <1>1, ClaimTakes DEF WorkInv, Known
<1>3. actor' = [actor EXCEPT ![a].pc = "load", ![a].rec = rec]
  BY <1>1
<1> HIDE DEF rec
<1>4. /\ actor'[a].rec = rec /\ actor'[a].todo = actor[a].todo
      /\ \A b \in Actors : b # a => actor'[b] = actor[b]
  BY <1>3, Carried DEF ActorStates
<1> QED BY <1>2, <1>4, Carried, KnownStays DEF Moves, HandKnown

LEMMA LoadMoves ==
  ASSUME WorkInv, HandsKnown, NEW a \in Actors, Load(a)
  PROVE  Moves(a)
<1>1. Takes /\ "claim" \notin Holding
  BY StoreTakes DEF Load, Holding, Procedures
<1>2. CASE Leave(a, "claim")
  BY <1>1, <1>2, LeaveKnown
<1>3. CASE actor' = [actor EXCEPT ![a].pc = "prepare", ![a].rec = Row(Rec(a).txn)]
  <2> DEFINE rec == Row(Rec(a).txn)
  <2>1. actor[a].pc \in Holding
    BY DEF Load, At, Holding
  <2>2. Known(rec, Taken)
    BY <2>1, Grasp DEF Known, Row, Taken
  <2>3. actor' = [actor EXCEPT ![a].pc = "prepare", ![a].rec = rec]
    BY <1>3
  <2> HIDE DEF rec
  <2>4. /\ actor'[a].rec = rec /\ actor'[a].todo = actor[a].todo
        /\ \A b \in Actors : b # a => actor'[b] = actor[b]
    BY <2>3, Carried DEF ActorStates
  <2> QED BY <1>1, <2>2, <2>4, Carried, KnownStays DEF Moves, HandKnown
<1> QED BY <1>2, <1>3 DEF Load

LEMMA SignMoves ==
  ASSUME WorkInv, HandsKnown, NEW a \in Actors, Sign(a)
  PROVE  Moves(a)
<1>1. actor[a].pc \in Holding /\ Takes
  BY StoreTakes DEF Sign, At, Holding
<1> DEFINE hash == [txn |-> Rec(a).txn, seq |-> Rec(a).seq, n |-> signed[Rec(a).txn] + 1]
<1>2. actor' = [actor EXCEPT ![a].pc = "push", ![a].hash = hash]
  BY DEF Sign
<1> HIDE DEF hash
<1>3. /\ actor'[a].rec = actor[a].rec /\ actor'[a].todo = actor[a].todo
      /\ \A b \in Actors : b # a => actor'[b] = actor[b]
  BY <1>2, Carried DEF ActorStates
<1> QED BY <1>1, <1>3, Carried, KnownStays DEF Moves, HandKnown

LEMMA ProduceMoves ==
  ASSUME WorkInv, HandsKnown, NEW a \in Actors, Produce(a)
  PROVE  Moves(a)
<1>1. "claim" \notin Holding /\ "off" \notin Holding
  BY DEF Holding, Procedures
<1>2. CASE StopProducing(a) \/ Push(a)
  BY <1>1, <1>2, StoreTakes, LeaveKnown DEF StopProducing, Push
<1>3. CASE Unprepared(a) \/ GiveUpPush(a)
  <2>1. actor[a].pc \in Holding /\ Takes
    BY <1>3, StoreTakes DEF Unprepared, GiveUpPush, At, Holding
  <2> QED BY <1>3, <2>1, Grasp, CallKnown DEF Unprepared, GiveUpPush
<1> QED BY <1>2, <1>3, ClaimMoves, LoadMoves, SignMoves DEF Produce

\* What comes out of the channel is known.
LEMMA TakenOut ==
  ASSUME WorkInv, ChansKnown, NEW a \in Actors, chan[a[1]] # <<>>
  PROVE  Known(Head(chan[a[1]]).rec, Taken)
<1>1. a[1] \in Hosts /\ chan[a[1]] \in Seq(Items)
  BY DEF Actors, WorkInv, ChanInv
<1>2. Len(chan[a[1]]) >= 1 /\ Len(chan[a[1]]) \in Nat /\ Head(chan[a[1]]) = chan[a[1]][1]
  BY <1>1, HeadTailProperties
<1> QED BY <1>1, <1>2 DEF ChansKnown

LEMMA ReceiveMoves ==
  ASSUME WorkInv, HandsKnown, ChansKnown, NEW a \in Actors, Receive(a)
  PROVE  Moves(a)
<1> DEFINE rec == Head(chan[a[1]]).rec
           hash == Head(chan[a[1]]).hash
<1>1. Takes /\ Known(rec, Taken)
  BY StoreTakes, TakenOut DEF Receive
<1>2. actor' = [actor EXCEPT ![a].pc = "persist", ![a].rec = rec, ![a].hash = hash]
  BY DEF Receive
<1> HIDE DEF rec, hash
<1>3. /\ actor'[a].rec = rec /\ actor'[a].todo = actor[a].todo
      /\ \A b \in Actors : b # a => actor'[b] = actor[b]
  BY <1>2, Carried DEF ActorStates
<1> QED BY <1>1, <1>3, Carried, KnownStays DEF Moves, HandKnown

LEMMA PersistHashMoves ==
  ASSUME WorkInv, HandsKnown, NEW a \in Actors, PersistHash(a)
  PROVE  Moves(a)
<1> DEFINE hashed == [Rec(a) EXCEPT !.hash = actor[a].hash]
           cleared == [Rec(a) EXCEPT !.hash = None]
<1>1. /\ Rec(a) \in Records /\ Known(Rec(a), Taken) /\ Known(cleared, Taken)
      /\ actor[a].hash \in Hashes
  BY Grasp, Held DEF PersistHash, At, Holding, Signed
<1>2. hashed \in Records /\ Known(hashed, Taken)
  BY <1>1 DEF Records, Known
<1>3. \/ Update(hashed) /\ actor' = [actor EXCEPT ![a].pc = "submit", ![a].rec = hashed]
      \/ UNCHANGED storeVars /\ Leave(a, "stop")
      \/ UNCHANGED storeVars /\ Call(a, "requeue", cleared, "stop")
  BY DEF PersistHash
<1> HIDE DEF hashed, cleared
<1>4. Takes
  BY <1>2, <1>3, UpdateTakes, StoreTakes DEF WorkInv, Known
<1>5. CASE actor' = [actor EXCEPT ![a].pc = "submit", ![a].rec = hashed]
  <2>1. /\ actor'[a].rec = hashed /\ actor'[a].todo = actor[a].todo
        /\ \A b \in Actors : b # a => actor'[b] = actor[b]
    BY <1>5, Carried DEF ActorStates
  <2> QED BY <1>2, <1>4, <2>1, Carried, KnownStays DEF Moves, HandKnown
<1>6. "stop" \notin Holding
  BY DEF Holding, Procedures
<1> QED BY <1>1, <1>3, <1>4, <1>5, <1>6, LeaveKnown, CallKnown

\* What a worker submits is a transaction of a request that was taken.
LEMMA SubmitMoves ==
  ASSUME WorkInv, HandsKnown, NEW a \in Actors,
         SubmitAccepted(a) \/ SubmitMisnumbered(a) \/ SubmitError(a)
  PROVE  /\ Moves(a) /\ Taken' = Taken
         /\ actor[a].hash \in Hashes /\ actor[a].hash.txn \in Taken
<1>1. At(a, "submit") /\ actor[a].pc \in Holding /\ rows' = rows
  BY DEF SubmitAccepted, SubmitMisnumbered, SubmitError, At, Holding, storeVars
<1>2. Takes /\ Taken' = Taken
  BY <1>1, SameTaken
<1>3. Signed(Rec(a), actor[a].hash) /\ Known(Rec(a), Taken)
      /\ Known([Rec(a) EXCEPT !.hash = None], Taken)
  BY <1>1, Held, Grasp
<1>4. Moves(a)
  BY <1>1, <1>2, <1>3, GotoKnown, CallKnown
     DEF SubmitAccepted, SubmitMisnumbered, SubmitError
<1> QED BY <1>2, <1>3, <1>4 DEF Signed, Known

LEMMA MarkSubmittedMoves ==
  ASSUME WorkInv, HandsKnown, NEW a \in Actors, MarkSubmitted(a)
  PROVE  Moves(a)
<1>1. Rec(a) \in Records /\ Rec(a).seq # None
  BY Grasp, Held DEF MarkSubmitted, At, Holding, Signed
<1>2. Takes
  BY <1>1, WriteTakes, StoreTakes DEF MarkSubmitted
<1>3. "receive" \notin Holding /\ "stop" \notin Holding
  BY DEF Holding, Procedures
<1> QED BY <1>2, <1>3, LeaveKnown DEF MarkSubmitted

LEMMA DrainAccountMoves ==
  ASSUME WorkInv, HandsKnown, NEW a \in Actors, DrainAccount(a)
  PROVE  Moves(a)
<1>1. Takes /\ "sweepList" \notin Holding /\ "drainReconcile" \notin Holding
  BY StoreTakes DEF DrainAccount, Holding, Procedures
<1>2. CASE Leave(a, "sweepList")
  BY <1>1, <1>2, LeaveKnown
<1>3. CASE actor' = [actor EXCEPT ![a].pc = "drainReconcile", ![a].chainSeq = ChainSequence]
  <2>1. /\ actor'[a].pc = "drainReconcile" /\ actor'[a].todo = actor[a].todo
        /\ \A b \in Actors : b # a => actor'[b] = actor[b]
    BY <1>3, Carried DEF ActorStates
  <2> QED BY <1>1, <2>1, Carried, KnownStays DEF Moves, HandKnown
<1> QED BY <1>2, <1>3 DEF DrainAccount

LEMMA SweepMoves ==
  ASSUME WorkInv, HandsKnown, NEW a \in Actors, Sweep(a)
  PROVE  Moves(a)
<1>1. PICK rec \in actor[a].todo :
        actor' = [actor EXCEPT ![a].pc = "requeue", ![a].rec = rec, ![a].ret = "sweep",
                               ![a].todo = @ \ {rec}]
  BY DEF Sweep
<1>2. Takes /\ Known(rec, Taken)
  BY StoreTakes, Carried DEF Sweep, HandKnown
<1>3. /\ actor'[a].rec = rec /\ actor'[a].todo \subseteq actor[a].todo
      /\ \A b \in Actors : b # a => actor'[b] = actor[b]
  BY <1>1, Carried DEF ActorStates
<1> QED BY <1>2, <1>3, Carried, KnownStays DEF Moves, HandKnown

LEMMA ConsumeMoves ==
  ASSUME WorkInv, HandsKnown, ChansKnown, NEW a \in Actors, Consume(a)
  PROVE  Moves(a)
<1>1. /\ "off" \notin Holding /\ "sweepList" \notin Holding /\ "sweep" \notin Holding
      /\ "drain" \notin Holding
  BY DEF Holding, Procedures
<1>2. CASE StopPipeline(a)
  BY <1>1, <1>2, StoreTakes, GotoKnown DEF StopPipeline
<1>3. CASE Drain(a)
  BY <1>3, StoreTakes, TakenOut, CallKnown DEF Drain
<1>4. CASE DrainReconcile(a)
  BY <1>1, <1>4, StoreTakes, CounterTakes, LeaveKnown DEF DrainReconcile
<1>5. CASE Finish(a) \/ Exit(a)
  BY <1>1, <1>5, StoreTakes, LeaveKnown DEF Finish, Exit
<1>6. CASE SweepList(a)
  BY <1>1, <1>6, StoreTakes, GotoKnown, ListingMoves DEF SweepList
<1> QED BY <1>2, <1>3, <1>4, <1>5, <1>6, ReceiveMoves, PersistHashMoves, SubmitMoves,
           MarkSubmittedMoves, DrainAccountMoves, SweepMoves DEF Consume

-----------------------------------------------------------------------------
(* The channels and the node.                                              *)

LEMMA ChansFrame ==
  ASSUME Takes, ChansKnown, chan' = chan
  PROVE  ChansKnown'
BY KnownStays DEF ChansKnown

LEMMA PushKnown ==
  ASSUME WorkInv, HandsKnown, ChansKnown, NEW a \in Actors, Push(a)
  PROVE  ChansKnown'
<1> DEFINE h == a[1]
           item == [rec |-> Rec(a), hash |-> actor[a].hash]
<1>1. h \in Hosts /\ chan \in [Hosts -> Seq(Items)]
      /\ chan' = [chan EXCEPT ![h] = Append(@, item)]
  BY DEF Actors, WorkInv, ChanInv, Push
<1>2. Taken' = Taken /\ Signed(Rec(a), actor[a].hash) /\ Known(Rec(a), Taken)
  BY SameTaken, Held, Grasp DEF Push, At, Holding, storeVars
<1>3. item \in Items /\ Known(item.rec, Taken)
  BY <1>2 DEF Items, Signed, Sound
<1> HIDE DEF item, h
<1>4. ASSUME NEW g \in Hosts, NEW i \in 1 .. Len(chan'[g])
      PROVE  Known(chan'[g][i].rec, Taken)
  <2>1. CASE g = h
    <3>1. chan'[g] = Append(chan[h], item)
      BY <1>1, <2>1
    <3>2. chan[h] \in Seq(Items) /\ i \in 1 .. Len(Append(chan[h], item))
      BY <1>1, <3>1
    <3>3. /\ i = Len(chan[h]) + 1 => chan'[g][i] = item
          /\ i \in 1 .. Len(chan[h]) => chan'[g][i] = chan[h][i]
          /\ i \in 1 .. Len(chan[h]) + 1 /\ Len(chan[h]) \in Nat
      BY <1>3, <3>1, <3>2
    <3> QED BY <1>1, <1>3, <3>3 DEF ChansKnown
  <2>2. CASE g # h
    BY <1>1, <2>2 DEF ChansKnown
  <2> QED BY <2>1, <2>2
<1> QED BY <1>2, <1>4 DEF ChansKnown

LEMMA TailKnown ==
  ASSUME WorkInv, ChansKnown, NEW h \in Hosts, chan[h] # <<>>, Taken' = Taken,
         chan' = [chan EXCEPT ![h] = Tail(@)]
  PROVE  ChansKnown'
<1>1. chan \in [Hosts -> Seq(Items)] /\ chan[h] \in Seq(Items)
  BY DEF WorkInv, ChanInv
<1>2. /\ Tail(chan[h]) \in Seq(Items)
      /\ Len(chan[h]) >= 1 /\ Len(Tail(chan[h])) = Len(chan[h]) - 1
      /\ \A i \in 1 .. Len(Tail(chan[h])) : Tail(chan[h])[i] = chan[h][i + 1]
  BY <1>1, HeadTailProperties
<1>3. ASSUME NEW g \in Hosts, NEW i \in 1 .. Len(chan'[g])
      PROVE  Known(chan'[g][i].rec, Taken)
  <2>1. CASE g = h
    <3>1. chan'[g] = Tail(chan[h])
      BY <1>1, <2>1
    <3>2. i \in 1 .. Len(Tail(chan[h])) /\ Len(chan[h]) \in Nat
      BY <1>1, <3>1
    <3>3. i + 1 \in 1 .. Len(chan[h])
      BY <1>2, <3>2
    <3>4. chan'[g][i] = chan[h][i + 1]
      BY <1>2, <3>1, <3>2
    <3> QED BY <3>3, <3>4 DEF ChansKnown
  <2>2. CASE g # h
    BY <1>1, <2>2 DEF ChansKnown
  <2> QED BY <2>1, <2>2
<1> QED BY <1>3 DEF ChansKnown

LEMMA NodeFrameKnown ==
  ASSUME Takes, NodeKnown, UNCHANGED nodeVars
  PROVE  NodeKnown'
BY KnownStays DEF NodeKnown, nodeVars, Own

\* A transaction that reaches the node is of a request that was taken.
LEMMA AcceptKnown ==
  ASSUME NodeTypeOK, NodeKnown, NEW hash \in Hashes, hash.txn \in Taken, NEW ok \in BOOLEAN,
         Accept(hash, ok), Taken' = Taken
  PROVE  NodeKnown'
<1> DEFINE e == [hash |-> hash, ok |-> ok]
<1>1. e \in [hash : Hashes \cup {None}, ok : BOOLEAN] /\ e.hash = hash
  OBVIOUS
<1>2. log' = Append(log, e) /\ underway' = underway \ {hash}
  BY DEF Accept
<1> HIDE DEF e
<1>3. /\ Len(log) \in Nat /\ Len(log') = Len(log) + 1
      /\ \A i \in 1 .. Len(log) : log'[i] = log[i]
      /\ log'[Len(log) + 1] = e
  BY <1>1, <1>2 DEF NodeTypeOK
<1>4. ASSUME NEW i \in 1 .. Len(log'), Own(i)' PROVE log'[i].hash.txn \in Taken
  <2>1. CASE i = Len(log) + 1
    BY <1>1, <1>3, <2>1
  <2>2. CASE i \in 1 .. Len(log)
    BY <1>3, <1>4, <2>2 DEF NodeKnown, Own
  <2> QED BY <1>3, <2>1, <2>2
<1> QED BY <1>2, <1>4 DEF NodeKnown

LEMMA AbandonKnown ==
  ASSUME NodeKnown, NEW hash \in Hashes, hash.txn \in Taken, Abandon(hash), Taken' = Taken
  PROVE  NodeKnown'
BY DEF NodeKnown, Abandon, Own

\* The prefix on chain does not change while nothing is committed.
LEMMA ChainStays ==
  ASSUME NodeTypeOK, Grows, committed' = committed
  PROVE  OnChain' = OnChain
<1>1. \A i \in 1 .. committed : log'[i] = log[i] /\ (Own(i)' <=> Own(i))
  BY DEF Grows, Own
<1> QED BY <1>1 DEF OnChain

-----------------------------------------------------------------------------
(* A step of a host's worker.                                              *)

WorkerSteps(a) == Procedure(a) \/ Produce(a) \/ Consume(a)

LEMMA ChanMoves ==
  ASSUME NEW a \in Actors, WorkerSteps(a)
  PROVE  chan' = chan \/ Push(a) \/ Receive(a) \/ Drain(a)
<1>1. Procedure(a) => chan' = chan
  BY DEF Procedure, Requeue, Release, Fail, Shift, NotifyFailed, FetchAccount,
         AdjustCounter, ListSiblings, RequeueSibling, RequeueReconciled
<1>2. Produce(a) => chan' = chan \/ Push(a)
  BY DEF Produce, Claim, StopProducing, Load, Unprepared, Sign, GiveUpPush
<1>3. Consume(a) => chan' = chan \/ Receive(a) \/ Drain(a)
  BY DEF Consume, PersistHash, SubmitAccepted, SubmitMisnumbered, SubmitError,
         MarkSubmitted, StopPipeline, DrainAccount, DrainReconcile, Finish, SweepList,
         Sweep, Exit
<1> QED BY <1>1, <1>2, <1>3 DEF WorkerSteps

LEMMA NodeMoves ==
  ASSUME NEW a \in Actors, WorkerSteps(a)
  PROVE  UNCHANGED nodeVars \/ SubmitAccepted(a) \/ SubmitError(a)
<1>1. Procedure(a) => UNCHANGED nodeVars
  BY DEF Procedure, Requeue, Release, Fail, Shift, NotifyFailed, FetchAccount,
         AdjustCounter, ListSiblings, RequeueSibling, RequeueReconciled
<1>2. Produce(a) => UNCHANGED nodeVars
  BY DEF Produce, Claim, StopProducing, Load, Unprepared, Sign, Push, GiveUpPush
<1>3. Consume(a) => UNCHANGED nodeVars \/ SubmitAccepted(a) \/ SubmitError(a)
  BY DEF Consume, Receive, PersistHash, SubmitMisnumbered, MarkSubmitted, StopPipeline,
         Drain, DrainAccount, DrainReconcile, Finish, SweepList, Sweep, Exit
<1> QED BY <1>1, <1>2, <1>3 DEF WorkerSteps

LEMMA ToldMoves ==
  ASSUME NEW a \in Actors, WorkerSteps(a)
  PROVE  told' = told \/ NotifyFailed(a)
<1>1. Procedure(a) => told' = told \/ NotifyFailed(a)
  BY DEF Procedure, Requeue, Release, Fail, Shift, FetchAccount, AdjustCounter,
         ListSiblings, RequeueSibling, RequeueReconciled
<1>2. Produce(a) => told' = told
  BY DEF Produce, Claim, StopProducing, Load, Unprepared, Sign, Push, GiveUpPush
<1>3. Consume(a) => told' = told
  BY DEF Consume, Receive, PersistHash, SubmitAccepted, SubmitMisnumbered, SubmitError,
         MarkSubmitted, StopPipeline, Drain, DrainAccount, DrainReconcile, Finish,
         SweepList, Sweep, Exit
<1> QED BY <1>1, <1>2, <1>3 DEF WorkerSteps

LEMMA WorkerKnown ==
  ASSUME WorkInv, AllKnown, NEW a \in Actors, WorkerSteps(a), poll' = poll
  PROVE  Takes /\ AllKnown'
<1>1. Moves(a) /\ Takes
  BY ProcedureMoves, ProduceMoves, ConsumeMoves DEF WorkerSteps, AllKnown, Moves
<1>2. HandsKnown'
  BY <1>1, KnownStays DEF Moves, AllKnown, HandsKnown
<1>3. ChansKnown'
  <2>1. CASE Push(a)
    BY <2>1, PushKnown DEF AllKnown
  <2>2. CASE Receive(a) \/ Drain(a)
    <3>1. a[1] \in Hosts /\ Taken' = Taken /\ chan[a[1]] # <<>>
          /\ chan' = [chan EXCEPT ![a[1]] = Tail(@)]
      BY <2>2, SameTaken DEF Receive, Drain, Actors, storeVars
    <3> QED BY <3>1, TailKnown DEF AllKnown
  <2> QED BY <1>1, <2>1, <2>2, ChanMoves, ChansFrame DEF AllKnown
<1>4. NodeKnown'
  <2>1. CASE SubmitAccepted(a) \/ SubmitError(a)
    <3>1. Taken' = Taken /\ actor[a].hash \in Hashes /\ actor[a].hash.txn \in Taken
      BY <2>1, SubmitMoves DEF AllKnown
    <3>2. Executes(actor[a].hash) \in BOOLEAN
      BY DEF Executes
    <3> QED BY <1>1, <2>1, <3>1, <3>2, AcceptKnown, AbandonKnown, NodeFrameKnown
            DEF SubmitAccepted, SubmitError, AllKnown, WorkInv
  <2> QED BY <1>1, <2>1, NodeMoves, NodeFrameKnown DEF AllKnown
<1>5. PollsKnown'
  BY <1>1, KnownStays DEF AllKnown, PollsKnown
<1> QED BY <1>1, <1>2, <1>3, <1>4, <1>5 DEF AllKnown

\* Steps in which no worker moves.
LEMMA OthersKnown ==
  ASSUME Takes, AllKnown, NodeKnown', UNCHANGED <<actor, chan, poll>>
  PROVE  AllKnown'
BY KnownStays DEF AllKnown, HandsKnown, ChansKnown, PollsKnown

LEMMA WorkKnown ==
  ASSUME WorkInv, AllKnown, NEW h \in Hosts, Work(h)
  PROVE  Takes /\ AllKnown'
<1>1. Producer(h) \in Actors /\ Consumer(h) \in Actors /\ poll' = poll
  BY DEF Producer, Consumer, Actors, Roles, Work
<1>2. CASE Spawn(h)
  <2>1. Takes /\ UNCHANGED <<nodeVars, chan>>
    BY <1>2, StoreTakes DEF Spawn
  <2> QED BY <1>1, <1>2, <2>1, SpawnKnown, ChansFrame, NodeFrameKnown, KnownStays
          DEF AllKnown, PollsKnown
<1> QED BY <1>1, <1>2, WorkerKnown DEF Work, WorkerSteps

-----------------------------------------------------------------------------
(* The other steps.                                                        *)

LEMMA PollStepKnown ==
  ASSUME PollOK, AllKnown, NEW h \in Hosts, NEW t \in Txns,
         PollList(h, t) \/ PollLookup(h, t) \/ PollWrite(h, t) \/ PollNotify(h, t)
  PROVE  Takes /\ AllKnown'
<1>1. UNCHANGED <<nodeVars, actor, chan>>
  BY DEF PollList, PollLookup, PollWrite, PollNotify, submitterVars
<1>2. Takes
  <2>1. CASE PollWrite(h, t)
    <3> DEFINE rec == poll[h][t].rec
               written == [rec EXCEPT !.status = poll[h][t].verdict]
    <3>1. Sound(rec) /\ poll[h][t].verdict \in Terminal
      BY <2>1, PollHeld DEF PollOK, PollWrite, PollSound
    <3>2. written \in Records /\ written.status # "absent"
      BY <3>1 DEF Sound, Records, Statuses, Terminal
    <3>3. Update(written) \/ UNCHANGED storeVars
      BY <2>1 DEF PollWrite
    <3> HIDE DEF written
    <3> QED BY <3>2, <3>3, UpdateTakes, StoreTakes DEF PollOK, WorkInv
  <2> QED BY <2>1, StoreTakes DEF PollList, PollLookup, PollNotify
<1>3. PollsKnown'
  <2>1. /\ poll \in [Hosts -> [Txns -> PollStates]]
        /\ \A g \in Hosts, u \in Txns : g # h \/ u # t => poll'[g][u] = poll[g][u]
    BY PollHeld DEF PollOK, PollList, PollLookup, PollWrite, PollNotify
  <2>2. t \in Taken \/ poll'[h][t].pc = "idle"
    <3>1. CASE PollList(h, t)
      BY <3>1 DEF PollList, Pollable, Taken
    <3>2. CASE ~PollList(h, t)
      BY <3>2 DEF PollLookup, PollWrite, PollNotify, AllKnown, PollsKnown
    <3> QED BY <3>1, <3>2
  <2> QED BY <1>2, <2>1, <2>2, KnownStays DEF AllKnown, PollsKnown
<1>4. HandsKnown' /\ ChansKnown' /\ NodeKnown'
  BY <1>1, <1>2, KnownStays, ChansFrame, NodeFrameKnown DEF AllKnown, HandsKnown
<1> QED BY <1>2, <1>3, <1>4 DEF AllKnown

LEMMA CrashKnown ==
  ASSUME PollOK, AllKnown, NEW h \in Hosts, Crash(h)
  PROVE  Takes /\ AllKnown'
<1>1. /\ actor' = [a \in Actors |-> IF a[1] = h THEN Off ELSE actor[a]]
      /\ chan' = [chan EXCEPT ![h] = <<>>]
      /\ poll' = [poll EXCEPT ![h] = [t \in Txns |-> Resting]]
      /\ Taken' = Taken /\ UNCHANGED nodeVars /\ Takes
  BY SameTaken DEF Crash, storeVars
<1>2. HandsKnown'
  BY <1>1 DEF AllKnown, HandsKnown, HandKnown, Off, Holding, Procedures
<1>3. ChansKnown'
  <2>1. \A g \in Hosts : chan'[g] = <<>> \/ chan'[g] = chan[g]
    BY <1>1 DEF PollOK, WorkInv, ChanInv
  <2> QED BY <1>1, <2>1 DEF AllKnown, ChansKnown
<1>4. PollsKnown'
  <2>1. \A g \in Hosts, t \in Txns : poll'[g][t].pc = "idle" \/ poll'[g][t] = poll[g][t]
    BY <1>1 DEF PollOK, PollerInv, PollerTypeOK, Resting
  <2> QED BY <1>1, <2>1 DEF AllKnown, PollsKnown
<1> QED BY <1>1, <1>2, <1>3, <1>4, NodeFrameKnown DEF AllKnown

\* The node: a submit that lands late is of a request that was taken as well.
LEMMA NodeStepKnown ==
  ASSUME NodeTypeOK, AllKnown, Node
  PROVE  Takes /\ Taken' = Taken /\ AllKnown'
<1>1. Takes /\ Taken' = Taken /\ UNCHANGED <<actor, chan, poll>>
  BY SameTaken DEF Node, storeVars, submitterVars
<1>2. ASSUME CommitNext PROVE NodeKnown'
  BY <1>1, <1>2 DEF CommitNext, AllKnown, NodeKnown, Own
<1>3. ASSUME DropLast PROVE NodeKnown'
  <2>1. Len(log) \in Nat /\ Len(log') = Len(log) - 1 /\ underway' = underway
        /\ \A i \in 1 .. Len(log) - 1 : log'[i] = log[i]
    BY <1>3, DropLog DEF DropLast
  <2> QED BY <1>1, <2>1 DEF AllKnown, NodeKnown, Own
<1>4. ASSUME Land PROVE NodeKnown'
  <2>1. PICK hash \in underway : Accept(hash, Executes(hash))
    BY <1>4 DEF Land
  <2>2. hash \in Hashes /\ hash.txn \in Taken /\ Executes(hash) \in BOOLEAN
    BY DEF AllKnown, NodeKnown, NodeTypeOK, Executes
  <2> QED BY <1>1, <2>1, <2>2, AcceptKnown DEF AllKnown
<1>5. ASSUME External PROVE NodeKnown'
  <2> DEFINE e == [hash |-> None, ok |-> TRUE]
  <2>1. e \in [hash : Hashes \cup {None}, ok : BOOLEAN] /\ e.hash = None
    OBVIOUS
  <2>2. log' = Append(log, e) /\ underway' = underway
    BY <1>5 DEF External
  <2> HIDE DEF e
  <2>3. /\ Len(log) \in Nat /\ Len(log') = Len(log) + 1
        /\ \A i \in 1 .. Len(log) : log'[i] = log[i]
        /\ log'[Len(log) + 1] = e
    BY <2>1, <2>2 DEF NodeTypeOK
  <2>4. ASSUME NEW i \in 1 .. Len(log'), Own(i)' PROVE log'[i].hash.txn \in Taken
    <3>1. i # Len(log) + 1
      BY <2>1, <2>3, <2>4 DEF Own
    <3> QED BY <2>3, <2>4, <3>1 DEF AllKnown, NodeKnown, Own
  <2> QED BY <1>1, <2>2, <2>4 DEF AllKnown, NodeKnown
<1>6. NodeKnown'
  BY <1>2, <1>3, <1>4, <1>5 DEF Node
<1> QED BY <1>1, <1>6, OthersKnown

\* Requests that enter, time that passes, and the recover loop.
LEMMA QuietKnown ==
  ASSUME PollOK, AllKnown,
         \/ \E t \in Txns : Enqueue(t) \/ Pass(t)
         \/ Recover
  PROVE  Takes /\ AllKnown'
<1>1. UNCHANGED <<nodeVars, actor, chan, poll>>
  BY DEF Enqueue, Pass, Recover, submitterVars
<1>2. Takes
  <2>1. CASE \E t \in Txns : Enqueue(t)
    BY <2>1, CreateTakes DEF Enqueue, PollOK, WorkInv
  <2>2. CASE \E t \in Txns : Pass(t)
    BY <2>2, StoreTakes DEF Pass
  <2>3. CASE Recover
    <3>1. PICK S \in SUBSET Recoverable : RecoverStaleProcessing(S)
      BY <2>3 DEF Recover, Stale
    <3> QED BY <3>1, RecoverTakes DEF PollOK, WorkInv
  <2> QED BY <2>1, <2>2, <2>3
<1> QED BY <1>1, <1>2, OthersKnown, NodeFrameKnown DEF AllKnown

LEMMA InitKnown == Init => AllKnown
<1> SUFFICES ASSUME Init PROVE AllKnown
  OBVIOUS
<1>1. HandsKnown
  BY DEF Init, SubmitterInit, HandsKnown, HandKnown, Off, Holding, Procedures
<1>2. ChansKnown
  <2>1. \A h \in Hosts : chan[h] = <<>>
    BY DEF Init, SubmitterInit
  <2> QED BY <2>1 DEF ChansKnown
<1>3. PollsKnown
  BY DEF Init, PollerInit, PollsKnown, Resting
<1>4. NodeKnown
  BY DEF Init, NodeInit, NodeKnown
<1> QED BY <1>1, <1>2, <1>3, <1>4 DEF AllKnown

LEMMA NextKnown ==
  ASSUME Inv, AllKnown, [Next]_vars
  PROVE  Takes /\ AllKnown'
<1>0. PollOK /\ WorkInv /\ NodeTypeOK
  BY InvParts DEF PollOK, WorkInv
<1>1. CASE \E h \in Hosts : Work(h)
  BY <1>0, <1>1, WorkKnown
<1>2. CASE \E h \in Hosts : Poll(h)
  BY <1>0, <1>2, PollStepKnown DEF Poll, PollStep
<1>3. CASE \E h \in Hosts : Crash(h)
  BY <1>0, <1>3, CrashKnown
<1>4. CASE Node
  BY <1>0, <1>4, NodeStepKnown
<1>5. CASE UNCHANGED vars
  <2>1. Takes /\ UNCHANGED <<nodeVars, actor, chan, poll>>
    BY <1>5, StoreTakes DEF vars, submitterVars
  <2> QED BY <2>1, OthersKnown, NodeFrameKnown DEF AllKnown
<1> QED BY <1>0, <1>1, <1>2, <1>3, <1>4, <1>5, QuietKnown DEF Next

-----------------------------------------------------------------------------
(* The pipeline, step by step, is the service.                             *)

LEMMA InitServes == Init => Promise!Init
BY DEF Init, StoreInit, NodeInit, SubmitterInit, Promise!Init, Taken, OnChain, Own, Statuses

\* A step that tells nothing and commits nothing takes a request, or stutters.
LEMMA TakeServes ==
  ASSUME Takes, OnChain' = OnChain, told' = told
  PROVE  [Promise!Next]_(Promise!vars)
<1>1. CASE Taken' = Taken
  BY <1>1 DEF Promise!vars
<1>2. CASE \E t \in Txns : Taken' = Taken \cup {t}
  BY <1>2 DEF Promise!Next, Promise!Take
<1> QED BY <1>1, <1>2 DEF Takes

\* A webhook may be sent of a request that was taken, and a confirmation only
\* of one that the chain has executed.
LEMMA TellServes ==
  ASSUME NEW t \in Txns, t \in Taken, NEW outcome \in Terminal,
         outcome = "confirmed" => Executed(t),
         told' = [told EXCEPT ![t] = @ \cup {outcome}],
         Taken' = Taken, OnChain' = OnChain
  PROVE  [Promise!Next]_(Promise!vars)
<1>1. Executed(t) => \E e \in OnChain : e.hash.txn = t /\ e.ok
  BY DEF Executed, OnChain
<1>2. Promise!Tell(t, outcome)
  BY <1>1 DEF Promise!Tell
<1> QED BY <1>2 DEF Promise!Next

\* A commit executes a transaction of a request that was taken, or a foreign
\* one, which is nothing to the service.
LEMMA CommitServes ==
  ASSUME NodeTypeOK, NodeKnown, CommitNext, Taken' = Taken, told' = told
  PROVE  [Promise!Next]_(Promise!vars)
<1> DEFINE tx == log[committed + 1]
<1>1. /\ committed \in Nat /\ committed + 1 \in 1 .. Len(log)
      /\ committed' = committed + 1 /\ log' = log
  BY DEF NodeTypeOK, CommitNext
<1>2. \A j : j \in 1 .. committed' <=> j \in 1 .. committed \/ j = committed + 1
  BY <1>1
<1>3. \A j : Own(j)' <=> Own(j)
  BY <1>1 DEF Own
<1>4. CASE Own(committed + 1)
  <2>1. OnChain' = OnChain \cup {tx}
    BY <1>1, <1>2, <1>3, <1>4 DEF OnChain
  <2>2. tx.hash.txn \in Taken
    BY <1>1, <1>4 DEF NodeKnown
  <2>3. Promise!Execute(tx) /\ tx \in OnChain'
    BY <2>1, <2>2 DEF Promise!Execute
  <2> QED BY <2>3 DEF Promise!Next
<1>5. CASE ~Own(committed + 1)
  <2>1. OnChain' = OnChain
    BY <1>1, <1>2, <1>3, <1>5 DEF OnChain
  <2> QED BY <2>1 DEF Promise!vars
<1> QED BY <1>4, <1>5

LEMMA WorkerServes ==
  ASSUME PollOK, AllKnown, NEW a \in Actors, WorkerSteps(a), Takes
  PROVE  [Promise!Next]_(Promise!vars)
<1>1. WorkInv /\ HandsKnown /\ Grows
  BY ProcedureSound, ProduceSound, ConsumeSound DEF WorkerSteps, PollOK, AllKnown, Quiet
<1>2. committed' = committed
  BY NodeMoves DEF nodeVars, SubmitAccepted, SubmitError, Accept, Abandon
<1>3. OnChain' = OnChain
  BY <1>1, <1>2, ChainStays DEF WorkInv
<1>4. CASE NotifyFailed(a) /\ told' # told
  <2>1. told' = [told EXCEPT ![Rec(a).txn] = @ \cup {"failed"}] /\ Taken' = Taken
    BY <1>4, SameTaken DEF NotifyFailed, storeVars
  <2>2. Rec(a).txn \in Taken /\ Rec(a).txn \in Txns /\ "failed" \in Terminal
    BY <1>1, <1>4, NotifyFailedMoves DEF Taken, Terminal
  <2> QED BY <1>3, <2>1, <2>2, TellServes
<1> QED BY <1>3, <1>4, ToldMoves, TakeServes

LEMMA PollServes ==
  ASSUME PollOK, AllKnown, NEW h \in Hosts, NEW t \in Txns, Takes,
         PollList(h, t) \/ PollLookup(h, t) \/ PollWrite(h, t) \/ PollNotify(h, t)
  PROVE  [Promise!Next]_(Promise!vars)
<1>1. OnChain' = OnChain
  <2>1. UNCHANGED nodeVars
    BY DEF PollList, PollLookup, PollWrite, PollNotify
  <2> QED BY <2>1, NodeFrame, ChainStays DEF PollOK, WorkInv, nodeVars
<1>2. CASE told' = told
  BY <1>1, <1>2, TakeServes
<1>3. CASE PollNotify(h, t) /\ told' # told
  <2> DEFINE v == poll[h][t].verdict
  <2>1. told' = [told EXCEPT ![t] = @ \cup {v}] /\ Taken' = Taken
    BY <1>3, SameTaken DEF PollNotify, storeVars
  <2>2. PollSound(poll[h][t], t) /\ poll[h][t].pc = "tell"
    BY <1>3, PollHeld DEF PollOK, PollNotify
  <2>3. v \in Terminal /\ (v = "confirmed" => Executed(t))
    BY <2>2 DEF PollSound, Sound, Succeeded, Is, Executed, Own
  <2>4. t \in Taken
    BY <2>2 DEF AllKnown, PollsKnown
  <2> HIDE DEF v
  <2> QED BY <1>1, <2>1, <2>3, <2>4, TellServes
<1> QED BY <1>2, <1>3 DEF PollList, PollLookup, PollWrite, submitterVars

\* Steps that move neither a worker nor a poller: the node's are the ones that
\* the service shows.
LEMMA OthersServe ==
  ASSUME NodeTypeOK, AllKnown, Takes,
         \/ \E t \in Txns : Enqueue(t) \/ Pass(t)
         \/ \E h \in Hosts : Crash(h) \/ Spawn(h)
         \/ Recover \/ Node \/ UNCHANGED vars
  PROVE  [Promise!Next]_(Promise!vars)
<1>1. told' = told
  BY DEF Enqueue, Pass, Crash, Spawn, Recover, Node, vars, submitterVars
<1>2. CASE Node
  <2>1. CASE CommitNext
    BY <1>1, <1>2, <2>1, NodeStepKnown, CommitServes DEF AllKnown
  <2>2. CASE DropLast \/ Land \/ External
    <3>1. Grows /\ committed' = committed
      BY <2>2, DropSound, LandSound, ExternalSound DEF DropLast, Land, Accept, External
    <3> QED BY <1>1, <3>1, ChainStays, TakeServes
  <2> QED BY <1>2, <2>1, <2>2 DEF Node
<1>3. CASE ~Node
  <2>1. UNCHANGED nodeVars
    BY <1>3 DEF Enqueue, Pass, Crash, Spawn, Recover, vars
  <2> QED BY <1>1, <2>1, NodeFrame, ChainStays, TakeServes DEF nodeVars
<1> QED BY <1>2, <1>3

LEMMA StepServes ==
  ASSUME Inv, AllKnown, [Next]_vars
  PROVE  [Promise!Next]_(Promise!vars)
<1>1. PollOK /\ NodeTypeOK /\ Takes
  BY InvParts, NextKnown DEF PollOK, WorkInv
<1>2. CASE \E h \in Hosts : Work(h)
  <2>1. PICK h \in Hosts : Work(h)
    BY <1>2
  <2>2. Producer(h) \in Actors /\ Consumer(h) \in Actors
    BY DEF Producer, Consumer, Actors, Roles
  <2> QED BY <1>1, <2>1, <2>2, WorkerServes, OthersServe DEF Work, WorkerSteps
<1>3. CASE \E h \in Hosts : Poll(h)
  BY <1>1, <1>3, PollServes DEF Poll, PollStep
<1> QED BY <1>1, <1>2, <1>3, OthersServe DEF Next

\* The pipeline implements the service it is to its clients, for any number of
\* requests and hosts and under every fault: a request that was taken is never
\* lost, only what was asked for is executed, and no webhook is sent of an
\* unknown request, nor a confirmation of what the chain has not executed.
THEOREM Implements == Spec => ImplementsService
<1>1. Init => AllKnown
  BY InitKnown
<1>2. Inv /\ AllKnown /\ [Next]_vars => AllKnown'
  BY NextKnown
<1>3. Inv /\ AllKnown /\ [Next]_vars => [Promise!Next]_(Promise!vars)
  BY StepServes
<1> QED BY <1>1, <1>2, <1>3, InitServes, InvHolds, PTL
        DEF Spec, ImplementsService, Promise!Spec

-----------------------------------------------------------------------------
(* The in-memory store: each statement of the queue, from a sound state.   *)

LEMMA Sized ==
  ASSUME StoreInv
  PROVE  /\ nextSeq \in Nat
         /\ \A t \in Txns : rows[t].seq \in Nat \cup {None}
         /\ \A t \in Txns : rows[t].status = "processing" => rows[t].seq # None
BY DEF StoreInv, StoreTypeOK, RowsSound, Sound, Numbered, Row

LEMMA ClaimAgrees ==
  ASSUME StoreInv, NEW t \in Txns, ClaimOldest(t)
  PROVE  Candidate(t) /\ Leaves(MemoryClaim(t))
<1>1. Candidate(t)
  BY DEF ClaimOldest, Candidate, InStatus, Txns
<1>2. rows' = [rows EXCEPT ![t].status = "processing", ![t].seq = nextSeq]
  BY DEF ClaimOldest, StoreInv, StoreTypeOK
<1> QED BY <1>1, <1>2 DEF ClaimOldest, Leaves, MemoryClaim, Holds

LEMMA CounterAgrees ==
  ASSUME StoreInv, NEW n \in Nat
  PROVE  /\ ReleaseSequence /\ ~Underflows(1) => Leaves(MemoryRelease)
         /\ ReconcileSequence(n) => Leaves(MemoryReconcile(n))
         /\ ForceResetSequenceToChain(n) => Leaves(MemoryReset(n))
<1>1. ReleaseSequence /\ ~Underflows(1) => Leaves(MemoryRelease)
  BY Sized DEF ReleaseSequence, Lowered, Leaves, MemoryRelease, Holds
<1>2. ReconcileSequence(n) => Leaves(MemoryReconcile(n))
  BY DEF ReconcileSequence, Leaves, MemoryReconcile, Holds
<1>3. SubmittedFrom(n) = {t \in Txns : /\ rows[t].status = "submitted" /\ rows[t].seq # None
                                      /\ rows[t].seq >= n}
  BY DEF SubmittedFrom, InStatus
<1>4. ForceResetSequenceToChain(n) => Leaves(MemoryReset(n))
  BY <1>3 DEF ForceResetSequenceToChain, Leaves, MemoryReset, Holds
<1> QED BY <1>1, <1>2, <1>4

\* Rows given back, and one number for each.
LEMMA GiveBackAgrees ==
  ASSUME StoreInv, NEW S \in SUBSET Txns, GiveBack(S, Cardinality(S)),
         ~Underflows(Cardinality(S))
  PROVE  /\ rows' = [t \in Txns |-> IF t \in S THEN Back(rows[t]) ELSE rows[t]]
         /\ nextSeq' = Less(Cardinality(S))
         /\ S = {} => nextSeq' = nextSeq
<1>1. Cardinality(S) \in Nat /\ nextSeq \in Nat
  BY FiniteRequests, Sized
<1>2. /\ rows' = [t \in Txns |-> IF t \in S THEN Back(rows[t]) ELSE rows[t]]
      /\ nextSeq' = Lowered(Cardinality(S))
  BY DEF GiveBack, Back
<1>3. Lowered(Cardinality(S)) = Less(Cardinality(S))
  BY <1>1 DEF Lowered, Less
<1>4. S = {} => Cardinality(S) = 0
  BY FS_EmptySet
<1> QED BY <1>1, <1>2, <1>3, <1>4 DEF Lowered

LEMMA ShiftAgrees ==
  ASSUME StoreInv, NEW n \in Nat, ShiftSenderSequences(n), ~Underflows(Cardinality(Above(n)))
  PROVE  Leaves(MemoryShift(n))
<1> DEFINE above == {t \in Txns : /\ rows[t].seq # None
                                 /\ rows[t].status \in {"queued", "processing"}
                                 /\ ~(rows[t].seq <= n)}
<1>1. Above(n) = above
  BY Sized DEF Above, InStatus
<1>2. Above(n) \in SUBSET Txns
  BY DEF Above, InStatus
<1>3. /\ rows' = [t \in Txns |-> IF t \in above THEN Back(rows[t]) ELSE rows[t]]
      /\ nextSeq' = Less(Cardinality(above))
      /\ above = {} => nextSeq' = nextSeq
  BY <1>1, <1>2, GiveBackAgrees DEF ShiftSenderSequences
<1> QED BY <1>3 DEF Leaves, MemoryShift, Holds

\* Here the two statements differ unless every row in processing has a number.
LEMMA RecoverAgrees ==
  ASSUME StoreInv, NEW S \in SUBSET Recoverable, RecoverStaleProcessing(S),
         ~Underflows(Cardinality(S))
  PROVE  Leaves(MemoryRecover(S))
<1> DEFINE back == {t \in S : /\ rows[t].status = "processing" /\ rows[t].seq # None
                             /\ rows[t].hash = None}
<1>1. \A t \in S : /\ t \in Txns /\ rows[t].status = "processing"
                   /\ rows[t].hash = None /\ rows[t].seq # None
  BY Sized DEF Recoverable, InStatus
<1>2. back = S /\ {t \in S : rows[t].seq # None} = S /\ S \in SUBSET Txns
  BY <1>1
<1>3. /\ rows' = [t \in Txns |-> IF t \in back THEN Back(rows[t]) ELSE rows[t]]
      /\ nextSeq' = Less(Cardinality(back))
  BY <1>2, GiveBackAgrees DEF RecoverStaleProcessing
<1> QED BY <1>3 DEF Leaves, MemoryRecover, Holds

\* From every state the pipeline reaches, whatever the number of requests and
\* of hosts, MySQL's queue statements leave what the methods of the in-memory
\* store would: the tests run against a store that behaves like the real one.
THEOREM StoresAgreeHolds == Spec => StoresAgree
<1>1. Inv /\ Inv' => Agreement
  <2> SUFFICES ASSUME Inv, Inv' PROVE Agreement
    OBVIOUS
  <2>1. StoreInv /\ nextSeq \in Nat /\ nextSeq' \in Nat
    BY DEF Inv, TypeOK, CopiesSound, StoreInv, StoreTypeOK
  <2>2. \A n \in 0 .. nextSeq + nextSeq' : n \in Nat
    BY <2>1
  <2> QED BY <2>1, <2>2, ClaimAgrees, CounterAgrees, ShiftAgrees, RecoverAgrees DEF Agreement
<1> QED BY <1>1, InvHolds, PTL DEF StoresAgree, Spec

=============================================================================
