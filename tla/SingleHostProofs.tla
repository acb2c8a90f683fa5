-------------------------- MODULE SingleHostProofs --------------------------
(***************************************************************************)
(* What the pipeline promises when one host serves the sender: theorems    *)
(* for any number of requests, proved from the invariants of SingleHost.   *)
(***************************************************************************)
EXTENDS SingleHost, ConformanceProofs

-----------------------------------------------------------------------------
(* How an actor moves.                                                     *)

OthersStay(a) == \A b \in Actors : b # a => actor'[b] = actor[b]

\* The actor as it is after its step.
Becomes(a, pc, rec, hash, todo, ret) ==
  /\ actor'[a].pc = pc /\ actor'[a].rec = rec /\ actor'[a].hash = hash
  /\ actor'[a].todo = todo /\ actor'[a].ret = ret
  /\ OthersStay(a)

LEMMA TwoRoles ==
  ASSUME NEW h \in Hosts
  PROVE  /\ Producer(h) \in Actors /\ Consumer(h) \in Actors
         /\ Producer(h) # Consumer(h)
         /\ \A g \in Hosts : g # h => /\ Producer(g) # Producer(h) /\ Producer(g) # Consumer(h)
                                      /\ Consumer(g) # Producer(h) /\ Consumer(g) # Consumer(h)
BY DEF Producer, Consumer, Actors, Roles

LEMMA GotoBecomes ==
  ASSUME ActorInv, NEW a \in Actors, NEW pc, Goto(a, pc)
  PROVE  Becomes(a, pc, actor[a].rec, actor[a].hash, actor[a].todo, actor[a].ret)
<1>1. actor \in [Actors -> ActorStates] /\ actor[a] \in ActorStates
  BY DEF ActorInv
<1> QED BY <1>1 DEF Goto, Becomes, OthersStay, ActorStates

LEMMA CallBecomes ==
  ASSUME ActorInv, NEW a \in Actors, NEW pc, NEW rec, NEW ret, Call(a, pc, rec, ret)
  PROVE  Becomes(a, pc, rec, actor[a].hash, actor[a].todo, ret)
<1>1. actor \in [Actors -> ActorStates] /\ actor[a] \in ActorStates
  BY DEF ActorInv
<1> QED BY <1>1 DEF Call, Becomes, OthersStay, ActorStates

LEMMA LeaveBecomes ==
  ASSUME ActorInv, NEW a \in Actors, NEW pc, Leave(a, pc)
  PROVE  Becomes(a, pc, None, None, {}, "off")
<1>1. actor \in [Actors -> ActorStates]
  BY DEF ActorInv
<1> QED BY <1>1 DEF Leave, Becomes, OthersStay, Off

LEMMA ReturnBecomes ==
  ASSUME ActorInv, NEW a \in Actors, Return(a)
  PROVE  Becomes(a, actor[a].ret, None, None, actor[a].todo, "off")
<1>1. actor \in [Actors -> ActorStates]
  BY DEF ActorInv
<1> QED BY <1>1 DEF Return, Becomes, OthersStay, Off

-----------------------------------------------------------------------------
(* Each step of a worker, as far as the invariants look at it.             *)

Remains(a, pc) == Becomes(a, pc, actor[a].rec, actor[a].hash, actor[a].todo, actor[a].ret)
Departs(a, pc) == Becomes(a, pc, None, None, {}, "off")
ComesBack(a) == Becomes(a, actor[a].ret, None, None, actor[a].todo, "off")

LEMMA ProcedureEffects ==
  ASSUME ActorInv, NEW a \in Actors
  PROVE
  /\ Requeue(a) =>
       /\ actor[a].pc = "requeue"
       /\ ComesBack(a) \/ Remains(a, "release")
  /\ Release(a) => actor[a].pc = "release" /\ ComesBack(a)
  /\ Fail(a) => actor[a].pc = "fail" /\ (Remains(a, "notify") \/ Remains(a, "shift"))
  /\ Shift(a) => actor[a].pc = "shift" /\ Remains(a, "notify")
  /\ NotifyFailed(a) => actor[a].pc = "notify" /\ ComesBack(a)
  /\ FetchAccount(a) =>
       actor[a].pc = "account" /\ (Remains(a, "counter") \/ Remains(a, "requeue"))
  /\ AdjustCounter(a) => actor[a].pc = "counter" /\ Remains(a, "list")
  /\ ListSiblings(a) =>
       /\ actor[a].pc = "list"
       /\ \/ Fails(a) /\ Remains(a, "sibling")
          \/ Becomes(a, "sibling", actor[a].rec, actor[a].hash,
                     {Row(t) : t \in Recoverable \ {Rec(a).txn}}, actor[a].ret)
  /\ RequeueSibling(a) =>
       /\ actor[a].pc = "sibling"
       /\ \E rec \in actor[a].todo :
            /\ \/ Succeeds(a) /\ Update(Requeued(rec))
               \/ Fails(a) /\ UNCHANGED storeVars
            /\ Becomes(a, "sibling", actor[a].rec, actor[a].hash,
                       actor[a].todo \ {rec}, actor[a].ret)
  /\ RequeueReconciled(a) =>
       actor[a].pc = "sibling" /\ actor[a].todo = {} /\ ComesBack(a)
<1>1. actor \in [Actors -> ActorStates] /\ actor[a] \in ActorStates
  BY DEF ActorInv
<1>2. Requeue(a) => actor[a].pc = "requeue" /\ (ComesBack(a) \/ Remains(a, "release"))
  BY ReturnBecomes, GotoBecomes DEF Requeue, At, ComesBack, Remains
<1>3. /\ Release(a) => actor[a].pc = "release" /\ ComesBack(a)
      /\ NotifyFailed(a) => actor[a].pc = "notify" /\ ComesBack(a)
      /\ RequeueReconciled(a) =>
           actor[a].pc = "sibling" /\ actor[a].todo = {} /\ ComesBack(a)
  BY ReturnBecomes DEF Release, NotifyFailed, RequeueReconciled, At, ComesBack
<1>4. /\ Fail(a) => actor[a].pc = "fail" /\ (Remains(a, "notify") \/ Remains(a, "shift"))
      /\ Shift(a) => actor[a].pc = "shift" /\ Remains(a, "notify")
      /\ AdjustCounter(a) => actor[a].pc = "counter" /\ Remains(a, "list")
  BY GotoBecomes DEF Fail, Shift, AdjustCounter, At, Remains
<1>5. FetchAccount(a) =>
       actor[a].pc = "account" /\ (Remains(a, "counter") \/ Remains(a, "requeue"))
  <2>1. ASSUME actor' = [actor EXCEPT ![a].pc = "counter", ![a].chainSeq = ChainSequence]
        PROVE  Remains(a, "counter")
    BY <1>1, <2>1 DEF Remains, Becomes, OthersStay, ActorStates
  <2> QED BY <2>1, GotoBecomes DEF FetchAccount, At, Remains
<1>6. ListSiblings(a) =>
       /\ actor[a].pc = "list"
       /\ \/ Fails(a) /\ Remains(a, "sibling")
          \/ Becomes(a, "sibling", actor[a].rec, actor[a].hash,
                     {Row(t) : t \in Recoverable \ {Rec(a).txn}}, actor[a].ret)
  <2>1. ASSUME NEW S, actor' = [actor EXCEPT ![a].pc = "sibling", ![a].todo = S]
        PROVE  Becomes(a, "sibling", actor[a].rec, actor[a].hash, S, actor[a].ret)
    BY <1>1, <2>1 DEF Becomes, OthersStay, ActorStates
  <2> QED BY <2>1, GotoBecomes DEF ListSiblings, At, Remains
<1>7. ASSUME RequeueSibling(a)
      PROVE  \E rec \in actor[a].todo :
            /\ \/ Succeeds(a) /\ Update(Requeued(rec))
               \/ Fails(a) /\ UNCHANGED storeVars
            /\ Becomes(a, "sibling", actor[a].rec, actor[a].hash,
                       actor[a].todo \ {rec}, actor[a].ret)
  <2>1. PICK rec \in actor[a].todo :
          /\ \/ Succeeds(a) /\ Update(Requeued(rec))
             \/ Fails(a) /\ UNCHANGED storeVars
          /\ actor' = [actor EXCEPT ![a].todo = @ \ {rec}]
    BY <1>7 DEF RequeueSibling
  <2>2. Becomes(a, "sibling", actor[a].rec, actor[a].hash,
                actor[a].todo \ {rec}, actor[a].ret)
    BY <1>1, <1>7, <2>1 DEF Becomes, OthersStay, ActorStates, RequeueSibling, At
  <2> QED BY <2>1, <2>2
<1>8. RequeueSibling(a) => actor[a].pc = "sibling"
  BY DEF RequeueSibling, At
<1> QED BY <1>2, <1>3, <1>4, <1>5, <1>6, <1>7, <1>8

LEMMA ProduceEffects ==
  ASSUME StoreInv, ActorInv, NEW a \in Actors
  PROVE
  /\ Claim(a) =>
       /\ actor[a].pc = "claim" /\ ~Cancelled(a)
       /\ \E t \in Txns :
            /\ ClaimOldest(t)
            /\ \E rec \in [txn : {t}, status : {"processing"}, seq : Nat,
                           hash : {rows[t].hash}] :
                 Becomes(a, "load", rec, actor[a].hash, actor[a].todo, actor[a].ret)
  /\ StopProducing(a) => actor[a].pc = "claim" /\ Departs(a, "off")
  /\ Load(a) =>
       /\ actor[a].pc = "load"
       /\ \/ Fails(a) /\ Departs(a, "claim")
          \/ Becomes(a, "prepare", Row(actor[a].rec.txn), actor[a].hash,
                     actor[a].todo, actor[a].ret)
  /\ Unprepared(a) =>
       /\ actor[a].pc = "prepare"
       /\ \E pc \in PrepareFailures(a) :
            Becomes(a, pc, actor[a].rec, actor[a].hash, actor[a].todo, "claim")
  /\ Sign(a) =>
       /\ actor[a].pc = "prepare"
       /\ \E hash : Becomes(a, "push", actor[a].rec, hash, actor[a].todo, actor[a].ret)
  /\ Push(a) => actor[a].pc = "push" /\ Departs(a, "claim")
  /\ GiveUpPush(a) =>
       /\ actor[a].pc = "push" /\ Cancelled(a)
       /\ Becomes(a, "requeue", actor[a].rec, actor[a].hash, actor[a].todo, "off")
<1>1. actor \in [Actors -> ActorStates] /\ actor[a] \in ActorStates
  BY DEF ActorInv
<1>2. ASSUME Claim(a)
      PROVE  \E t \in Txns :
               /\ ClaimOldest(t)
               /\ \E rec \in [txn : {t}, status : {"processing"}, seq : Nat,
                              hash : {rows[t].hash}] :
                    Becomes(a, "load", rec, actor[a].hash, actor[a].todo, actor[a].ret)
  <2>1. PICK t \in Txns :
          /\ ClaimOldest(t)
          /\ actor' = [actor EXCEPT ![a].pc = "load",
               ![a].rec = [txn |-> t, status |-> "processing", seq |-> nextSeq,
                           hash |-> rows[t].hash]]
    BY <1>2 DEF Claim
  <2> DEFINE rec == [txn |-> t, status |-> "processing", seq |-> nextSeq,
                     hash |-> rows[t].hash]
  <2>2. rec \in [txn : {t}, status : {"processing"}, seq : Nat, hash : {rows[t].hash}]
    BY DEF StoreInv, StoreTypeOK
  <2> HIDE DEF rec
  <2>3. Becomes(a, "load", rec, actor[a].hash, actor[a].todo, actor[a].ret)
    BY <1>1, <2>1 DEF Becomes, OthersStay, ActorStates, rec
  <2> QED BY <2>1, <2>2, <2>3
<1>3. Claim(a) => actor[a].pc = "claim" /\ ~Cancelled(a)
  BY DEF Claim, At
<1>4. /\ StopProducing(a) => actor[a].pc = "claim" /\ Departs(a, "off")
      /\ Push(a) => actor[a].pc = "push" /\ Departs(a, "claim")
  BY LeaveBecomes DEF StopProducing, Push, At, Departs
<1>5. Load(a) =>
       /\ actor[a].pc = "load"
       /\ \/ Fails(a) /\ Departs(a, "claim")
          \/ Becomes(a, "prepare", Row(actor[a].rec.txn), actor[a].hash,
                     actor[a].todo, actor[a].ret)
  <2>1. ASSUME NEW rec, actor' = [actor EXCEPT ![a].pc = "prepare", ![a].rec = rec]
        PROVE  Becomes(a, "prepare", rec, actor[a].hash, actor[a].todo, actor[a].ret)
    BY <1>1, <2>1 DEF Becomes, OthersStay, ActorStates
  <2> QED BY <2>1, LeaveBecomes DEF Load, At, Departs, Rec
<1>6. /\ Unprepared(a) =>
           /\ actor[a].pc = "prepare"
           /\ \E pc \in PrepareFailures(a) :
                Becomes(a, pc, actor[a].rec, actor[a].hash, actor[a].todo, "claim")
      /\ GiveUpPush(a) =>
           /\ actor[a].pc = "push" /\ Cancelled(a)
           /\ Becomes(a, "requeue", actor[a].rec, actor[a].hash, actor[a].todo, "off")
  BY CallBecomes DEF Unprepared, GiveUpPush, At, Rec
<1>7. Sign(a) =>
       /\ actor[a].pc = "prepare"
       /\ \E hash : Becomes(a, "push", actor[a].rec, hash, actor[a].todo, actor[a].ret)
  <2>1. ASSUME NEW hash, actor' = [actor EXCEPT ![a].pc = "push", ![a].hash = hash]
        PROVE  Becomes(a, "push", actor[a].rec, hash, actor[a].todo, actor[a].ret)
    BY <1>1, <2>1 DEF Becomes, OthersStay, ActorStates
  <2> QED BY <2>1 DEF Sign, At
<1> QED BY <1>2, <1>3, <1>4, <1>5, <1>6, <1>7

LEMMA ConsumeEffects ==
  ASSUME ActorInv, NEW a \in Actors
  PROVE
  /\ Receive(a) =>
       /\ actor[a].pc = "receive"
       /\ Becomes(a, "persist", Head(chan[a[1]]).rec, Head(chan[a[1]]).hash,
                  actor[a].todo, actor[a].ret)
  /\ PersistHash(a) =>
       /\ actor[a].pc = "persist"
       /\ LET hashed == [actor[a].rec EXCEPT !.hash = actor[a].hash]
              cleared == [actor[a].rec EXCEPT !.hash = None]
          IN \/ /\ StatusIs(hashed, "processing") /\ Update(hashed)
                /\ Becomes(a, "submit", hashed, actor[a].hash, actor[a].todo, actor[a].ret)
             \/ /\ ~StatusIs(hashed, "processing") /\ UNCHANGED storeVars
                /\ Departs(a, "stop")
             \/ /\ Fails(a) /\ UNCHANGED storeVars
                /\ Becomes(a, "requeue", cleared, actor[a].hash, actor[a].todo, "stop")
  /\ SubmitAccepted(a) => actor[a].pc = "submit" /\ Remains(a, "mark")
  /\ SubmitMisnumbered(a) =>
       /\ actor[a].pc = "submit"
       /\ Becomes(a, "account", [actor[a].rec EXCEPT !.hash = None], actor[a].hash,
                  actor[a].todo, "stop")
  /\ SubmitError(a) =>
       /\ actor[a].pc = "submit"
       /\ Becomes(a, IF RetriesOver(actor[a].rec.txn) THEN "fail" ELSE "requeue",
                  [actor[a].rec EXCEPT !.hash = None], actor[a].hash, actor[a].todo, "stop")
  /\ MarkSubmitted(a) =>
       /\ actor[a].pc = "mark"
       /\ \/ Update([actor[a].rec EXCEPT !.status = "submitted"]) /\ Departs(a, "receive")
          \/ Fails(a) /\ UNCHANGED storeVars /\ Departs(a, "stop")
  /\ StopPipeline(a) => actor[a].pc = "stop" /\ Remains(a, "drain")
  /\ Drain(a) =>
       /\ actor[a].pc = "drain"
       /\ Becomes(a, "requeue", Head(chan[a[1]]).rec, actor[a].hash, actor[a].todo, "drain")
  /\ DrainAccount(a) =>
       actor[a].pc = "drain" /\ (Remains(a, "drainReconcile") \/ Departs(a, "sweepList"))
  /\ DrainReconcile(a) => actor[a].pc = "drainReconcile" /\ Departs(a, "sweepList")
  /\ Finish(a) => actor[a].pc = "receive" /\ Departs(a, "sweepList")
  /\ SweepList(a) =>
       /\ actor[a].pc = "sweepList"
       /\ \/ Fails(a) /\ Remains(a, "sweep")
          \/ Becomes(a, "sweep", actor[a].rec, actor[a].hash,
                     {Row(t) : t \in Recoverable}, actor[a].ret)
  /\ Sweep(a) =>
       /\ actor[a].pc = "sweep"
       /\ \E rec \in actor[a].todo :
            Becomes(a, "requeue", rec, actor[a].hash, actor[a].todo \ {rec}, "sweep")
  /\ Exit(a) => actor[a].pc = "sweep" /\ actor[a].todo = {} /\ Departs(a, "off")
<1>1. actor \in [Actors -> ActorStates] /\ actor[a] \in ActorStates
  BY DEF ActorInv
<1>2. ASSUME NEW pc, NEW rec, NEW hash,
             actor' = [actor EXCEPT ![a].pc = pc, ![a].rec = rec, ![a].hash = hash]
      PROVE  Becomes(a, pc, rec, hash, actor[a].todo, actor[a].ret)
  BY <1>1, <1>2 DEF Becomes, OthersStay, ActorStates
<1>3. ASSUME NEW pc, NEW rec, actor' = [actor EXCEPT ![a].pc = pc, ![a].rec = rec]
      PROVE  Becomes(a, pc, rec, actor[a].hash, actor[a].todo, actor[a].ret)
  BY <1>1, <1>3 DEF Becomes, OthersStay, ActorStates
<1>4. ASSUME NEW pc, NEW todo, actor' = [actor EXCEPT ![a].pc = pc, ![a].todo = todo]
      PROVE  Becomes(a, pc, actor[a].rec, actor[a].hash, todo, actor[a].ret)
  BY <1>1, <1>4 DEF Becomes, OthersStay, ActorStates
<1>5. Receive(a) =>
       /\ actor[a].pc = "receive"
       /\ Becomes(a, "persist", Head(chan[a[1]]).rec, Head(chan[a[1]]).hash,
                  actor[a].todo, actor[a].ret)
  BY <1>2 DEF Receive, At
<1>6. ASSUME PersistHash(a)
      PROVE  LET hashed == [actor[a].rec EXCEPT !.hash = actor[a].hash]
                 cleared == [actor[a].rec EXCEPT !.hash = None]
             IN \/ /\ StatusIs(hashed, "processing") /\ Update(hashed)
                   /\ Becomes(a, "submit", hashed, actor[a].hash, actor[a].todo, actor[a].ret)
                \/ /\ ~StatusIs(hashed, "processing") /\ UNCHANGED storeVars
                   /\ Departs(a, "stop")
                \/ /\ Fails(a) /\ UNCHANGED storeVars
                   /\ Becomes(a, "requeue", cleared, actor[a].hash, actor[a].todo, "stop")
  BY <1>3, <1>6, LeaveBecomes, CallBecomes DEF PersistHash, Departs, Rec
<1>7. PersistHash(a) => actor[a].pc = "persist"
  BY DEF PersistHash, At
<1>8. /\ SubmitAccepted(a) => actor[a].pc = "submit" /\ Remains(a, "mark")
      /\ StopPipeline(a) => actor[a].pc = "stop" /\ Remains(a, "drain")
  BY GotoBecomes DEF SubmitAccepted, StopPipeline, At, Remains
<1>9. /\ SubmitMisnumbered(a) =>
           /\ actor[a].pc = "submit"
           /\ Becomes(a, "account", [actor[a].rec EXCEPT !.hash = None], actor[a].hash,
                      actor[a].todo, "stop")
      /\ SubmitError(a) =>
           /\ actor[a].pc = "submit"
           /\ Becomes(a, IF RetriesOver(actor[a].rec.txn) THEN "fail" ELSE "requeue",
                      [actor[a].rec EXCEPT !.hash = None], actor[a].hash, actor[a].todo, "stop")
      /\ Drain(a) =>
           /\ actor[a].pc = "drain"
           /\ Becomes(a, "requeue", Head(chan[a[1]]).rec, actor[a].hash, actor[a].todo, "drain")
  BY CallBecomes DEF SubmitMisnumbered, SubmitError, Drain, At, Rec
<1>10. /\ MarkSubmitted(a) =>
            /\ actor[a].pc = "mark"
            /\ \/ Update([actor[a].rec EXCEPT !.status = "submitted"]) /\ Departs(a, "receive")
               \/ Fails(a) /\ UNCHANGED storeVars /\ Departs(a, "stop")
       /\ DrainReconcile(a) => actor[a].pc = "drainReconcile" /\ Departs(a, "sweepList")
       /\ Finish(a) => actor[a].pc = "receive" /\ Departs(a, "sweepList")
       /\ Exit(a) => actor[a].pc = "sweep" /\ actor[a].todo = {} /\ Departs(a, "off")
  BY LeaveBecomes DEF MarkSubmitted, DrainReconcile, Finish, Exit, At, Rec, Departs
<1>11. DrainAccount(a) =>
       actor[a].pc = "drain" /\ (Remains(a, "drainReconcile") \/ Departs(a, "sweepList"))
  <2>1. ASSUME actor' = [actor EXCEPT ![a].pc = "drainReconcile", ![a].chainSeq = ChainSequence]
        PROVE  Remains(a, "drainReconcile")
    BY <1>1, <2>1 DEF Remains, Becomes, OthersStay, ActorStates
  <2> QED BY <2>1, LeaveBecomes DEF DrainAccount, At, Departs
<1>12. SweepList(a) =>
       /\ actor[a].pc = "sweepList"
       /\ \/ Fails(a) /\ Remains(a, "sweep")
          \/ Becomes(a, "sweep", actor[a].rec, actor[a].hash,
                     {Row(t) : t \in Recoverable}, actor[a].ret)
  BY <1>4, GotoBecomes DEF SweepList, At, Remains
<1>13. Sweep(a) =>
       /\ actor[a].pc = "sweep"
       /\ \E rec \in actor[a].todo :
            Becomes(a, "requeue", rec, actor[a].hash, actor[a].todo \ {rec}, "sweep")
  <2>1. ASSUME NEW rec, actor' = [actor EXCEPT ![a].pc = "requeue", ![a].rec = rec,
                           ![a].ret = "sweep", ![a].todo = @ \ {rec}]
        PROVE  Becomes(a, "requeue", rec, actor[a].hash, actor[a].todo \ {rec}, "sweep")
    BY <1>1, <2>1 DEF Becomes, OthersStay, ActorStates
  <2> QED BY <2>1 DEF Sweep, At
<1> QED BY <1>5, <1>6, <1>7, <1>8, <1>9, <1>10, <1>11, <1>12, <1>13

\* The dispatcher starts a worker, and a crash ends one.
LEMMA SpawnEffects ==
  ASSUME ActorInv, NEW h \in Hosts, Spawn(h)
  PROVE  /\ Prod(h).pc = "off" /\ Cons(h).pc = "off"
         /\ Prod(h)'.pc = "claim" /\ Cons(h)'.pc = "receive"
         /\ Prod(h)'.todo = Prod(h).todo /\ Cons(h)'.todo = Cons(h).todo
         /\ \A g \in Hosts : g # h => Prod(g)' = Prod(g) /\ Cons(g)' = Cons(g)
<1>1. actor \in [Actors -> ActorStates]
      /\ actor[Producer(h)] \in ActorStates /\ actor[Consumer(h)] \in ActorStates
  BY TwoRoles DEF ActorInv
<1> QED BY <1>1, TwoRoles DEF Spawn, At, Prod, Cons, ActorStates

LEMMA CrashEffects ==
  ASSUME ActorInv, ChanInv, NEW h \in Hosts, Crash(h)
  PROVE  /\ Prod(h)' = Off /\ Cons(h)' = Off /\ chan'[h] = <<>>
         /\ \A g \in Hosts : g # h =>
              Prod(g)' = Prod(g) /\ Cons(g)' = Cons(g) /\ chan'[g] = chan[g]
<1>1. Producer(h)[1] = h /\ Consumer(h)[1] = h
      /\ \A g \in Hosts : Producer(g)[1] = g /\ Consumer(g)[1] = g
  BY DEF Producer, Consumer
<1> QED BY <1>1, TwoRoles DEF Crash, Prod, Cons, ActorInv, ChanInv

-----------------------------------------------------------------------------
(* The two goroutines keep to their program texts, with any number of      *)
(* hosts and under every fault.                                            *)

LEMMA ProcedureQuiet ==
  ASSUME NEW a \in Actors, Procedure(a)
  PROVE  UNCHANGED <<nodeVars, age, signed, chan, cancelled>>
BY DEF Procedure, Requeue, Release, Fail, Shift, NotifyFailed, FetchAccount, AdjustCounter,
       ListSiblings, RequeueSibling, RequeueReconciled

LEMMA ProducerProcedureShape ==
  ASSUME WorkInv, NEW h \in Hosts, Shape(h), HashInHand(h), Procedure(Producer(h))
  PROVE  Shape(h)' /\ HashInHand(h)'
<1> DEFINE p == Producer(h)
           c == Consumer(h)
<1>1. p \in Actors /\ c \in Actors /\ p # c /\ actor[p] \in ActorStates
  BY TwoRoles DEF WorkInv, ActorInv
<1>2. chan' = chan /\ accepted' = accepted
  BY <1>1, ProcedureQuiet DEF nodeVars
<1> SUFFICES ProducerShape(h)' /\ actor'[c] = actor[c] /\ actor[p].pc # "off"
  BY <1>2 DEF Shape, HashInHand, ConsumerShape, Winding, Sweeping, Prod, Cons
<1>3. actor[p].pc \in Procedures => actor[p].ret \in {"off", "claim"}
  BY DEF Shape, ProducerShape, Prod
<1>4. actor[p].pc # "sibling" => actor[p].todo = {}
  BY DEF Shape, ProducerShape, Prod
<1> HIDE DEF p, c
<1>5. CASE Requeue(p) \/ Release(p) \/ Fail(p) \/ Shift(p) \/ NotifyFailed(p)
           \/ FetchAccount(p) \/ AdjustCounter(p)
  <2>1. actor[p].pc \in Procedures \ {"sibling"}
        /\ (ComesBack(p) \/ \E pc \in Procedures : Remains(p, pc))
    BY <1>1, <1>5, ProcedureEffects DEF WorkInv, Procedures
  <2> QED BY <1>1, <1>3, <1>4, <2>1
          DEF ComesBack, Remains, Becomes, OthersStay, ProducerShape, Procedures, Prod, p
<1>6. CASE ListSiblings(p) \/ RequeueSibling(p)
  <2>1. /\ actor[p].pc \in Procedures /\ actor'[p].pc = "sibling"
        /\ actor'[p].ret = actor[p].ret /\ OthersStay(p)
    BY <1>1, <1>6, ProcedureEffects DEF WorkInv, Procedures, Remains, Becomes
  <2> QED BY <1>1, <1>3, <2>1 DEF OthersStay, ProducerShape, Procedures, Prod, p
<1>7. CASE RequeueReconciled(p)
  <2>1. actor[p].pc \in Procedures /\ actor[p].todo = {} /\ ComesBack(p)
    BY <1>1, <1>7, ProcedureEffects DEF WorkInv, Procedures
  <2> QED BY <1>1, <1>3, <2>1
          DEF ComesBack, Becomes, OthersStay, ProducerShape, Procedures, Prod, p
<1> QED BY <1>5, <1>6, <1>7 DEF Procedure, p

LEMMA ConsumerProcedureShape ==
  ASSUME WorkInv, NEW h \in Hosts, Shape(h), HashInHand(h), Procedure(Consumer(h))
  PROVE  Shape(h)' /\ HashInHand(h)'
<1> DEFINE p == Producer(h)
           c == Consumer(h)
<1>1. p \in Actors /\ c \in Actors /\ p # c /\ actor[c] \in ActorStates
  BY TwoRoles DEF WorkInv, ActorInv
<1>2. chan' = chan
  BY <1>1, ProcedureQuiet
<1>3. actor[c].pc \in Procedures => actor[c].ret \in {"stop", "drain"} \/ Sweeping(h)
  BY DEF Shape, ConsumerShape, Cons
<1>4. actor[c].todo # {} => actor[c].pc \in {"sibling", "sweep"} \/ Sweeping(h)
  BY DEF Shape, ConsumerShape, Cons
<1>5. Sweeping(h) <=> actor[c].pc \in {"requeue", "release"} /\ actor[c].ret = "sweep"
  BY DEF Sweeping, Cons
<1>6. Winding(h) => actor[p].pc = "off" /\ chan[h] = <<>>
  BY DEF Shape, Prod
<1>7. ProducerShape(h)
  BY DEF Shape
<1> HIDE DEF p, c
<1>8. actor[c].pc \in Procedures /\ OthersStay(c)
      /\ \/ ComesBack(c) /\ (actor[c].pc = "sibling" => actor[c].todo = {})
         \/ /\ actor'[c].pc \in Procedures /\ actor'[c].ret = actor[c].ret
            /\ \/ actor'[c].pc = "sibling" /\ actor[c].pc \in {"list", "sibling"}
               \/ actor'[c].todo = actor[c].todo /\ actor[c].pc \notin {"sibling", "release"}
                  /\ (actor[c].pc = "requeue" => actor'[c].pc = "release")
  BY <1>1, ProcedureEffects DEF Procedure, WorkInv, Procedures, Remains, ComesBack, Becomes, c
<1>9. actor'[p] = actor[p]
  BY <1>1, <1>8 DEF OthersStay
<1>10. CASE ComesBack(c) /\ (actor[c].pc = "sibling" => actor[c].todo = {})
  <2>1. actor'[c].pc = actor[c].ret /\ actor'[c].todo = actor[c].todo
    BY <1>10 DEF ComesBack, Becomes
  <2> QED BY <1>2, <1>3, <1>4, <1>5, <1>6, <1>7, <1>8, <1>9, <2>1
          DEF Shape, HashInHand, ProducerShape, ConsumerShape, Winding, Sweeping, Procedures,
              Prod, Cons, p, c
<1>11. CASE /\ actor'[c].pc \in Procedures /\ actor'[c].ret = actor[c].ret
            /\ \/ actor'[c].pc = "sibling" /\ actor[c].pc \in {"list", "sibling"}
               \/ actor'[c].todo = actor[c].todo /\ actor[c].pc \notin {"sibling", "release"}
                  /\ (actor[c].pc = "requeue" => actor'[c].pc = "release")
  BY <1>2, <1>3, <1>4, <1>5, <1>6, <1>7, <1>8, <1>9, <1>11
     DEF Shape, HashInHand, ProducerShape, ConsumerShape, Winding, Sweeping, Procedures,
         Prod, Cons, p, c
<1> QED BY <1>8, <1>10, <1>11

LEMMA ProduceShape ==
  ASSUME WorkInv, NEW h \in Hosts, Shape(h), HashInHand(h), Produce(Producer(h))
  PROVE  Shape(h)' /\ HashInHand(h)'
<1> DEFINE p == Producer(h)
           c == Consumer(h)
<1>1. p \in Actors /\ c \in Actors /\ p # c /\ p[1] = h
  BY TwoRoles DEF Producer
<1>2. accepted' = accepted
  BY DEF Produce, Claim, StopProducing, Load, Unprepared, Sign, Push, GiveUpPush, nodeVars
<1>3. actor[p].todo = {} \/ actor[p].pc = "sibling"
  BY DEF Shape, ProducerShape, Prod
<1> HIDE DEF p, c
<1>4. /\ actor[p].pc \in {"claim", "load", "prepare", "push"} /\ OthersStay(p)
      /\ actor'[p].todo = {}
      /\ \/ actor'[p].pc \in {"off", "claim", "load", "prepare", "push"}
         \/ actor'[p].pc \in Procedures /\ actor'[p].ret \in {"claim", "off"}
  <2>1. PrepareFailures(p) \subseteq Procedures
    BY DEF PrepareFailures, Procedures
  <2> QED BY <1>1, <1>3, <2>1, ProduceEffects
          DEF Produce, WorkInv, Becomes, Departs, Procedures, p
<1>5. actor'[c] = actor[c] /\ ~Winding(h)
  BY <1>1, <1>4 DEF OthersStay, Shape, Prod, p
<1> QED BY <1>2, <1>4, <1>5
        DEF Shape, HashInHand, ProducerShape, ConsumerShape, Winding, Sweeping, Procedures,
            Prod, Cons, p, c

LEMMA ConsumeShape ==
  ASSUME WorkInv, NEW h \in Hosts, Shape(h), HashInHand(h), Consume(Consumer(h))
  PROVE  Shape(h)' /\ HashInHand(h)'
<1> DEFINE p == Producer(h)
           c == Consumer(h)
<1>1. p \in Actors /\ c \in Actors /\ p # c /\ c[1] = h /\ At(p, "off") = (actor[p].pc = "off")
  BY TwoRoles DEF Consumer, At
<1>2. actor[c].pc \in Procedures \/ actor[c].pc \in {"sweep"} \/ actor[c].todo = {}
  BY DEF Shape, ConsumerShape, Cons, Sweeping, Procedures
<1>3. Winding(h) => actor[p].pc = "off" /\ chan[h] = <<>>
  BY DEF Shape, Prod
<1>4. ProducerShape(h)
  BY DEF Shape
<1>5. Winding(h) <=> \/ actor[c].pc \in {"off", "drainReconcile", "sweepList", "sweep"}
                     \/ actor[c].pc \in {"requeue", "release"} /\ actor[c].ret = "sweep"
  BY DEF Winding, Sweeping, Cons
<1>6. Signed(Rec(c), actor[c].hash) \/ actor[c].pc # "persist"
  BY <1>1, Held DEF At
<1>7. actor[c].pc = "submit" => actor[c].rec.hash = actor[c].hash
  BY DEF HashInHand, Cons
<1> HIDE DEF p, c
<1>9. CASE Receive(c) \/ MarkSubmitted(c) \/ Finish(c)
  <2>1. /\ OthersStay(c) /\ actor[c].pc \in {"receive", "mark"}
        /\ actor'[c].todo = {}
        /\ \/ actor'[c].pc \in {"persist", "receive", "stop"}
           \/ actor'[c].pc = "sweepList" /\ actor[p].pc = "off" /\ chan[h] = <<>> /\ chan' = chan
    BY <1>1, <1>2, <1>9, ConsumeEffects
       DEF Becomes, Departs, WorkInv, MarkSubmitted, Finish, Closed, p, Procedures
  <2> QED BY <1>1, <1>4, <2>1
          DEF OthersStay, Shape, HashInHand, ProducerShape, ConsumerShape, Winding, Sweeping,
              Prod, Cons, p, c, Procedures
<1>10. CASE PersistHash(c)
  <2>1. /\ OthersStay(c) /\ actor[c].pc = "persist" /\ actor'[c].todo = {}
        /\ \/ actor'[c].pc = "submit" /\ actor'[c].rec.hash = actor'[c].hash
           \/ actor'[c].pc = "stop"
           \/ actor'[c].pc = "requeue" /\ actor'[c].ret = "stop"
    BY <1>1, <1>2, <1>6, <1>10, ConsumeEffects
       DEF Becomes, Departs, WorkInv, Rec, Signed, Sound, Records, Procedures
  <2> QED BY <1>1, <1>4, <2>1
          DEF OthersStay, Shape, HashInHand, ProducerShape, ConsumerShape, Winding, Sweeping,
              Prod, Cons, p, c, Procedures
<1>11. CASE SubmitAccepted(c)
  <2>1. /\ OthersStay(c) /\ actor[c].pc = "submit" /\ actor'[c].todo = {}
        /\ actor'[c].pc = "mark" /\ actor'[c].rec.hash = actor'[c].hash
        /\ actor'[c].hash \in accepted'
    BY <1>1, <1>2, <1>7, <1>11, ConsumeEffects
       DEF Becomes, Remains, WorkInv, SubmitAccepted, Accept, Procedures
  <2> QED BY <1>1, <1>4, <2>1
          DEF OthersStay, Shape, HashInHand, ProducerShape, ConsumerShape, Winding, Sweeping,
              Prod, Cons, p, c, Procedures
<1>12. CASE SubmitMisnumbered(c) \/ SubmitError(c) \/ Drain(c) \/ StopPipeline(c)
  <2>1. /\ OthersStay(c) /\ actor'[c].todo = {}
        /\ \/ actor'[c].pc \in Procedures /\ actor'[c].ret \in {"stop", "drain"}
           \/ actor'[c].pc = "drain"
    BY <1>1, <1>2, <1>12, ConsumeEffects
       DEF Becomes, Remains, WorkInv, Procedures
  <2> QED BY <1>1, <1>4, <2>1
          DEF OthersStay, Shape, HashInHand, ProducerShape, ConsumerShape, Winding, Sweeping,
              Prod, Cons, p, c, Procedures
<1>13. CASE DrainAccount(c) \/ DrainReconcile(c) \/ SweepList(c) \/ Sweep(c) \/ Exit(c)
  <2>1. /\ OthersStay(c) /\ chan' = chan
        /\ actor[c].pc \in {"drain", "drainReconcile", "sweepList", "sweep"}
        /\ actor[c].pc = "drain" => actor[p].pc = "off" /\ chan[h] = <<>>
        /\ \/ actor'[c].pc \in {"drainReconcile", "sweepList", "off"} /\ actor'[c].todo = {}
           \/ actor'[c].pc = "sweep"
           \/ actor'[c].pc = "requeue" /\ actor'[c].ret = "sweep"
    BY <1>1, <1>2, <1>13, ConsumeEffects
       DEF Becomes, Remains, Departs, WorkInv, Procedures, DrainAccount, DrainReconcile,
           SweepList, Sweep, Exit, Closed, p
  <2> QED BY <1>1, <1>3, <1>4, <1>5, <2>1
          DEF OthersStay, Shape, HashInHand, ProducerShape, ConsumerShape, Winding, Sweeping,
              Prod, Cons, p, c, Procedures
<1> QED BY <1>9, <1>10, <1>11, <1>12, <1>13 DEF Consume, c

LEMMA SpawnShape ==
  ASSUME WorkInv, NEW h \in Hosts, Shape(h), Spawn(h)
  PROVE  Shape(h)' /\ HashInHand(h)'
BY SpawnEffects DEF WorkInv, Shape, HashInHand, ProducerShape, ConsumerShape, Winding,
                    Sweeping, Procedures

\* Other hosts, and steps that are not a worker's.
LEMMA ShapeStays ==
  ASSUME NEW g \in Hosts, Shape(g), HashInHand(g), accepted \subseteq accepted',
         Prod(g)' = Prod(g), Cons(g)' = Cons(g), chan'[g] = chan[g]
  PROVE  Shape(g)' /\ HashInHand(g)'
BY DEF Shape, HashInHand, ProducerShape, ConsumerShape, Winding, Sweeping

\* What the node has accepted it has accepted for good.
LEMMA AcceptedGrows == [Next]_vars => accepted \subseteq accepted'
<1>1. ASSUME NEW a \in Actors, Procedure(a) \/ Produce(a) \/ Consume(a)
      PROVE  accepted \subseteq accepted'
  BY <1>1, NodeMoves DEF WorkerSteps, nodeVars, SubmitAccepted, SubmitError, Accept, Abandon
<1>2. ASSUME NEW h \in Hosts, Work(h)
      PROVE  accepted \subseteq accepted'
  BY <1>1, <1>2, TwoRoles DEF Work, Spawn, nodeVars
<1>3. ASSUME Node PROVE accepted \subseteq accepted'
  BY <1>3 DEF Node, CommitNext, DropLast, Land, Accept, External
<1> QED BY <1>2, <1>3 DEF Next, vars, Enqueue, Pass, Poll, PollStep, PollList, PollLookup,
           PollWrite, PollNotify, Crash, Recover, nodeVars

\* A worker's step touches its own host only.
LEMMA WorkStaysAtHome ==
  ASSUME WorkInv, NEW h \in Hosts, NEW g \in Hosts, g # h,
         Work(h)
  PROVE  Prod(g)' = Prod(g) /\ Cons(g)' = Cons(g) /\ chan'[g] = chan[g]
<1>1. ASSUME NEW a \in {Producer(h), Consumer(h)}, Procedure(a) \/ Produce(a) \/ Consume(a)
      PROVE  Prod(g)' = Prod(g) /\ Cons(g)' = Cons(g) /\ chan'[g] = chan[g]
  <2>1. a \in Actors /\ a[1] = h
    <3>1. Producer(h)[1] = h /\ Consumer(h)[1] = h
      BY DEF Producer, Consumer
    <3> QED BY <1>1, <3>1, TwoRoles
  <2>2. OthersStay(a)
    BY <1>1, <2>1, ProcedureEffects, ProduceEffects, ConsumeEffects
       DEF WorkInv, Procedure, Produce, Consume, Remains, Departs, ComesBack, Becomes
  <2>3. chan'[g] = chan[g]
    <3>1. \/ chan' = chan
          \/ \E s : chan' = [chan EXCEPT ![h] = s]
      BY <1>1, <2>1, ChanMoves DEF WorkerSteps, Push, Receive, Drain
    <3> QED BY <3>1 DEF WorkInv, ChanInv
  <2>4. Producer(g) # a /\ Consumer(g) # a
    BY <1>1, TwoRoles
  <2>5. Producer(g) \in Actors /\ Consumer(g) \in Actors
    BY TwoRoles
  <2> QED BY <2>2, <2>3, <2>4, <2>5 DEF OthersStay, Prod, Cons
<1>2. CASE Spawn(h)
  BY <1>2, SpawnEffects DEF WorkInv, Spawn
<1> QED BY <1>1, <1>2 DEF Work

LEMMA WorkersShapedNext == Inv /\ WorkersShaped /\ [Next]_vars => WorkersShaped'
<1> SUFFICES ASSUME Inv, WorkersShaped, [Next]_vars, NEW g \in Hosts
             PROVE  Shape(g)' /\ HashInHand(g)'
  BY DEF WorkersShaped
<1>1. WorkInv /\ Shape(g) /\ HashInHand(g) /\ accepted \subseteq accepted'
  BY InvParts, AcceptedGrows DEF PollOK, WorkersShaped
<1>2. CASE Work(g)
  BY <1>1, <1>2, ProducerProcedureShape, ConsumerProcedureShape, ProduceShape, ConsumeShape,
     SpawnShape DEF Work
<1>3. ASSUME NEW h \in Hosts, h # g, Work(h)
      PROVE  Shape(g)' /\ HashInHand(g)'
  BY <1>1, <1>3, WorkStaysAtHome, ShapeStays
<1>4. ASSUME NEW h \in Hosts, Crash(h)
      PROVE  Shape(g)' /\ HashInHand(g)'
  <2>1. CASE h = g
    BY <1>1, <1>4, <2>1, CrashEffects
       DEF WorkInv, Off, Shape, HashInHand, ProducerShape, ConsumerShape, Winding, Sweeping,
           Procedures
  <2>2. CASE h # g
    BY <1>1, <1>4, <2>2, CrashEffects, ShapeStays DEF WorkInv
  <2> QED BY <2>1, <2>2
<1>5. CASE \/ \E t \in Txns : Enqueue(t) \/ Pass(t)
           \/ \E h \in Hosts : Poll(h)
           \/ Recover \/ Node \/ UNCHANGED vars
  <2>1. UNCHANGED <<actor, chan>>
    BY <1>5 DEF Enqueue, Pass, Poll, PollStep, PollList, PollLookup, PollWrite, PollNotify,
                Recover, Node, vars, submitterVars
  <2> QED BY <1>1, <2>1, ShapeStays DEF Prod, Cons
<1> QED BY <1>2, <1>3, <1>4, <1>5 DEF Next

LEMMA WorkersShapedInit == Init => WorkersShaped
BY TwoRoles DEF Init, SubmitterInit, Off, WorkersShaped, Shape, HashInHand, ProducerShape,
   ConsumerShape, Winding, Sweeping, Procedures, Prod, Cons

\* Whatever fails, the consumer submits the very hash it has persisted, takes a
\* transaction for accepted only when it is, and winds up, sweeps and exits only
\* after its producer has ended and the channel is empty.
THEOREM WorkersShapedHolds == Spec => []WorkersShaped
BY InvHolds, WorkersShapedInit, WorkersShapedNext, PTL DEF Spec

-----------------------------------------------------------------------------
(* What each step does to a row.                                           *)

Written(t, rec, status) ==
  rec.txn = t /\ rows'[t] = [status |-> status, seq |-> rec.seq, hash |-> rec.hash]

\* Row t goes back to the queue from the table itself, not from a copy.
Dequeued(t) ==
  /\ rows[t].status \in {"queued", "processing"}
  /\ rows'[t].status = "queued" /\ rows'[t].hash = rows[t].hash

LEMMA WrittenFields ==
  ASSUME NEW t, NEW rec, NEW status, Written(t, rec, status)
  PROVE  /\ rec.txn = t /\ rows'[t].status = status
         /\ rows'[t].seq = rec.seq /\ rows'[t].hash = rec.hash
BY DEF Written

LEMMA UpdateRow ==
  ASSUME StoreInv, NEW rec \in Records, Update(rec), NEW t \in Txns
  PROVE  rows'[t] = rows[t] \/ Written(t, rec, rec.status)
BY DEF StoreInv, StoreTypeOK, Update, Written, Records

LEMMA UpdatedRow ==
  ASSUME StoreInv, NEW rec \in Records, Update(rec)
  PROVE  /\ Written(rec.txn, rec, rec.status)
         /\ \A t \in Txns : t # rec.txn => rows'[t] = rows[t]
BY DEF StoreInv, StoreTypeOK, Update, Written, Records

LEMMA RequeuedRow ==
  ASSUME StoreInv, NEW rec, Sound(rec), Update(Requeued(rec)), NEW t \in Txns
  PROVE  rows'[t] = rows[t] \/ Written(t, Requeued(rec), "queued")
<1>1. Requeued(rec) \in Records /\ Requeued(rec).status = "queued"
  BY Derived DEF Sound, Requeued, Records
<1>2. rows'[t] = rows[t] \/ Written(t, Requeued(rec), Requeued(rec).status)
  BY <1>1, UpdateRow
<1> QED BY <1>1, <1>2

LEMMA FailedRow ==
  ASSUME StoreInv, NEW rec, Sound(rec), Update([rec EXCEPT !.status = "failed"]), NEW t \in Txns
  PROVE  rows'[t] = rows[t] \/ Written(t, rec, "failed")
<1> DEFINE new == [rec EXCEPT !.status = "failed"]
<1>1. /\ new \in Records /\ new.status = "failed"
      /\ Written(t, new, "failed") => Written(t, rec, "failed")
  BY DEF Sound, Records, Statuses, Terminal, Written
<1>2. rows'[t] = rows[t] \/ Written(t, new, new.status)
  BY <1>1, UpdateRow
<1> QED BY <1>1, <1>2

LEMMA GiveBackRow ==
  ASSUME StoreInv, NEW S, NEW burned, GiveBack(S, burned), NEW t \in Txns
  PROVE  \/ rows'[t] = rows[t]
         \/ t \in S /\ rows'[t].status = "queued" /\ rows'[t].hash = rows[t].hash
<1>1. CASE UNCHANGED storeVars
  BY <1>1 DEF storeVars
<1>2. CASE ~UNCHANGED storeVars
  <2>1. rows' = [u \in Txns |-> IF u \in S
                   THEN [rows[u] EXCEPT !.status = "queued", !.seq = None]
                   ELSE rows[u]]
    BY <1>2 DEF GiveBack
  <2>2. rows[t] \in [status : Statuses, seq : Nat \cup {None}, hash : Hashes \cup {None}]
    BY DEF StoreInv, StoreTypeOK
  <2> QED BY <2>1, <2>2
<1> QED BY <1>1, <1>2

LEMMA ClaimRow ==
  ASSUME StoreInv, NEW t \in Txns, ClaimOldest(t), NEW u \in Txns
  PROVE  IF u = t THEN /\ rows[t].status = "queued"
                       /\ rows'[t].status = "processing" /\ rows'[t].hash = rows[t].hash
                  ELSE rows'[u] = rows[u]
BY DEF StoreInv, StoreTypeOK, ClaimOldest

LEMMA CreateRow ==
  ASSUME StoreInv, NEW t \in Txns, Create(t), NEW u \in Txns
  PROVE  IF u = t THEN /\ rows[t].status = "absent"
                       /\ rows'[t].status = "queued" /\ rows'[t].hash = rows[t].hash
                  ELSE rows'[u] = rows[u]
BY DEF StoreInv, StoreTypeOK, Create

\* A failure procedure writes the record in hand, or one of its list.
LEMMA ProcedureRow ==
  ASSUME WorkInv, NEW a \in Actors, Procedure(a), NEW t \in Txns
  PROVE  \/ rows'[t] = rows[t]
         \/ actor[a].pc = "shift" /\ Dequeued(t)
         \/ actor[a].pc = "fail" /\ Written(t, actor[a].rec, "failed")
         \/ /\ actor[a].pc \in {"requeue", "sibling"}
            /\ Written(t, Requeued(actor[a].rec), "queued")
         \/ /\ actor[a].pc = "sibling"
            /\ \E rec \in actor[a].todo : Written(t, Requeued(rec), "queued")
<1>1. StoreInv
  BY DEF WorkInv
<1>2. actor[a].pc \in Procedures => Sound(actor[a].rec)
  BY Held DEF At, Rec
<1>3. \A rec \in actor[a].todo : Sound(rec)
  BY Held DEF At
<1>6. CASE Requeue(a) \/ RequeueReconciled(a)
  <2>1. /\ actor[a].pc \in {"requeue", "sibling"} /\ Sound(actor[a].rec)
        /\ UNCHANGED storeVars \/ Update(Requeued(actor[a].rec))
    BY <1>2, <1>6 DEF Requeue, RequeueReconciled, At, Procedures, Rec
  <2> QED BY <1>1, <2>1, RequeuedRow DEF storeVars
<1>7. CASE Fail(a)
  <2>1. /\ actor[a].pc = "fail" /\ Sound(actor[a].rec)
        /\ UNCHANGED storeVars \/ Update([actor[a].rec EXCEPT !.status = "failed"])
    BY <1>2, <1>7 DEF Fail, At, Procedures, Rec
  <2> QED BY <1>1, <2>1, FailedRow DEF storeVars
<1>8. CASE Shift(a)
  <2>1. actor[a].pc = "shift"
        /\ (UNCHANGED storeVars
            \/ GiveBack(Above(actor[a].rec.seq), Cardinality(Above(actor[a].rec.seq))))
    BY <1>8 DEF Shift, At, ShiftSenderSequences, Rec
  <2>2. \A u \in Above(actor[a].rec.seq) : rows[u].status \in {"queued", "processing"}
    BY DEF Above, InStatus
  <2> QED BY <1>1, <2>1, <2>2, GiveBackRow DEF storeVars, Dequeued
<1>9. CASE RequeueSibling(a)
  <2>1. PICK rec \in actor[a].todo : UNCHANGED storeVars \/ Update(Requeued(rec))
    BY <1>9 DEF RequeueSibling
  <2> QED BY <1>1, <1>3, <1>9, <2>1, RequeuedRow DEF storeVars, RequeueSibling, At
<1>10. CASE Release(a) \/ NotifyFailed(a) \/ FetchAccount(a) \/ AdjustCounter(a) \/ ListSiblings(a)
  BY <1>10 DEF Release, NotifyFailed, FetchAccount, AdjustCounter, ListSiblings, storeVars,
               ReleaseSequence, ForceResetSequenceToChain, ReconcileSequence
<1> QED BY <1>6, <1>7, <1>8, <1>9, <1>10 DEF Procedure

\* The producer claims; the consumer persists hashes and marks rows submitted.
LEMMA ProduceRow ==
  ASSUME WorkInv, NEW a \in Actors, Produce(a), NEW t \in Txns
  PROVE  \/ rows'[t] = rows[t]
         \/ /\ Claim(a) /\ rows[t].status = "queued"
            /\ rows'[t].status = "processing" /\ rows'[t].hash = rows[t].hash
BY ClaimRow DEF WorkInv, Produce, Claim, StopProducing, Load, Unprepared, Sign, Push, GiveUpPush,
                storeVars

LEMMA ConsumeRow ==
  ASSUME WorkInv, NEW a \in Actors, Consume(a), NEW t \in Txns
  PROVE  \/ rows'[t] = rows[t]
         \/ /\ actor[a].pc = "persist" /\ rows[t].status = "processing"
            /\ Written(t, [actor[a].rec EXCEPT !.hash = actor[a].hash], actor[a].rec.status)
         \/ actor[a].pc = "mark" /\ Written(t, actor[a].rec, "submitted")
<1>1. StoreInv
  BY DEF WorkInv
<1>2. CASE PersistHash(a)
  <2>1. actor[a].pc = "persist" /\ Signed(actor[a].rec, actor[a].hash)
    BY <1>2, Held DEF PersistHash, Rec, At
  <2> DEFINE hashed == [actor[a].rec EXCEPT !.hash = actor[a].hash]
  <2>2. hashed \in Records /\ hashed.status = actor[a].rec.status
    BY <2>1 DEF Signed, Sound, Records
  <2>3. UNCHANGED storeVars \/ (StatusIs(hashed, "processing") /\ Update(hashed))
    BY <1>2 DEF PersistHash, Rec
  <2> HIDE DEF hashed
  <2>4. rows'[t] = rows[t] \/ (Written(t, hashed, hashed.status) /\ rows[t].status = "processing")
    BY <1>1, <2>2, <2>3, UpdateRow DEF storeVars, StatusIs, Written
  <2> QED BY <2>1, <2>2, <2>4 DEF hashed
<1>3. CASE MarkSubmitted(a)
  <2>1. actor[a].pc = "mark" /\ Signed(actor[a].rec, actor[a].hash)
    BY <1>3, Held DEF MarkSubmitted, Rec, At
  <2> DEFINE sub == [actor[a].rec EXCEPT !.status = "submitted"]
  <2>2. /\ sub \in Records /\ sub.status = "submitted"
        /\ Written(t, sub, "submitted") => Written(t, actor[a].rec, "submitted")
    BY <2>1 DEF Signed, Sound, Records, Statuses, Written
  <2>3. UNCHANGED storeVars \/ Update(sub)
    BY <1>3 DEF MarkSubmitted, Rec
  <2> HIDE DEF sub
  <2> QED BY <1>1, <2>1, <2>2, <2>3, UpdateRow DEF storeVars
<1>4. CASE ~(PersistHash(a) \/ MarkSubmitted(a))
  BY <1>4 DEF Consume, Receive, SubmitAccepted, SubmitMisnumbered, SubmitError, StopPipeline, Drain,
              DrainAccount, DrainReconcile, Finish, SweepList, Sweep, Exit, storeVars,
              ReconcileSequence
<1> QED BY <1>2, <1>3, <1>4

\* The poller, which holds the very row it has listed.
LEMMA PollRow ==
  ASSUME PollOK, NEW h \in Hosts, Poll(h), NEW t \in Txns
  PROVE  \/ rows'[t] = rows[t]
         \/ /\ poll[h][t].pc = "write" /\ rows[t].status = poll[h][t].rec.status
            /\ Written(t, poll[h][t].rec, poll[h][t].verdict)
            /\ PollSound(poll[h][t], t)
<1>1. PICK u \in Txns : PollList(h, u) \/ PollLookup(h, u) \/ PollWrite(h, u) \/ PollNotify(h, u)
  BY DEF Poll, PollStep
<1>2. CASE PollWrite(h, u)
  <2> DEFINE rec == poll[h][u].rec
             new == [rec EXCEPT !.status = poll[h][u].verdict]
  <2>1. poll[h][u].pc = "write" /\ PollSound(poll[h][u], u)
    BY <1>2 DEF PollWrite, PollOK, PollerInv, PollsSound
  <2>2. rec \in Records /\ rec.txn = u /\ poll[h][u].verdict \in Terminal
    BY <2>1 DEF PollSound, Sound
  <2>3. /\ new \in Records /\ new.status = poll[h][u].verdict
        /\ Written(t, new, poll[h][u].verdict) => Written(t, rec, poll[h][u].verdict)
    BY <2>2 DEF Records, Statuses, Written
  <2>4. UNCHANGED storeVars \/ (StatusIs(rec, rec.status) /\ Update(new))
    BY <1>2 DEF PollWrite
  <2> HIDE DEF new
  <2>5. StoreInv
    BY DEF PollOK, WorkInv
  <2>6. rows'[t] = rows[t]
        \/ (StatusIs(rec, rec.status) /\ Written(t, new, poll[h][u].verdict))
    BY <2>3, <2>4, <2>5, UpdateRow DEF storeVars
  <2> QED BY <2>1, <2>2, <2>3, <2>6 DEF Written, StatusIs
<1>3. CASE PollList(h, u) \/ PollLookup(h, u) \/ PollNotify(h, u)
  BY <1>3 DEF PollList, PollLookup, PollNotify, storeVars
<1> QED BY <1>1, <1>2, <1>3

LEMMA RecoverRow ==
  ASSUME WorkInv, Recover, NEW t \in Txns
  PROVE  rows'[t] = rows[t] \/ (t \in Recoverable /\ Dequeued(t))
<1>1. PICK S \in SUBSET Stale : RecoverStaleProcessing(S)
  BY DEF Recover
<1>2. S \subseteq Recoverable /\ \A u \in Recoverable : rows[u].status = "processing"
  BY DEF Stale, Recoverable, InStatus
<1> QED BY <1>1, <1>2, GiveBackRow DEF RecoverStaleProcessing, WorkInv, Dequeued

-----------------------------------------------------------------------------
(* What each step does to the channel.                                     *)

LEMMA PushedItem ==
  ASSUME WorkInv, NEW h \in Hosts, Push(Producer(h))
  PROVE  /\ Len(chan[h]) \in Nat /\ Len(chan'[h]) = Len(chan[h]) + 1
         /\ \A i \in 1 .. Len(chan[h]) : chan'[h][i] = chan[h][i]
         /\ chan'[h][Len(chan[h]) + 1].rec = Prod(h).rec
<1> DEFINE a == Producer(h)
           item == [rec |-> Rec(a), hash |-> actor[a].hash]
<1>1. a \in Actors /\ a[1] = h
  BY TwoRoles DEF Producer
<1>2. Signed(Rec(a), actor[a].hash)
  BY <1>1, Held DEF Push
<1>3. item \in Items /\ item.rec = Prod(h).rec
  BY <1>2 DEF Signed, Sound, Items, Rec, Prod
<1> HIDE DEF item
<1>4. chan[h] \in Seq(Items) /\ chan'[h] = Append(chan[h], item)
  BY <1>1 DEF WorkInv, ChanInv, Push, item
<1> QED BY <1>3, <1>4

LEMMA PoppedItem ==
  ASSUME WorkInv, NEW h \in Hosts, chan[h] # <<>>, chan' = [chan EXCEPT ![h] = Tail(@)]
  PROVE  /\ Len(chan[h]) \in Nat /\ Len(chan[h]) >= 1
         /\ Len(chan'[h]) = Len(chan[h]) - 1
         /\ \A i \in 1 .. Len(chan'[h]) : i + 1 \in 1 .. Len(chan[h])
                                         /\ chan'[h][i] = chan[h][i + 1]
         /\ Head(chan[h]) = chan[h][1]
<1>1. chan[h] \in Seq(Items) /\ chan'[h] = Tail(chan[h])
  BY DEF WorkInv, ChanInv
<1>2. Len(chan[h]) \in Nat /\ Len(chan[h]) >= 1 /\ Head(chan[h]) = chan[h][1]
  BY <1>1
<1>3. /\ Len(Tail(chan[h])) = Len(chan[h]) - 1
      /\ \A i \in 1 .. Len(Tail(chan[h])) : Tail(chan[h])[i] = chan[h][i + 1]
  BY <1>1, HeadTailProperties
<1>4. ASSUME NEW i \in 1 .. Len(chan[h]) - 1
      PROVE  i + 1 \in 1 .. Len(chan[h])
  BY <1>2
<1> QED BY <1>1, <1>2, <1>3, <1>4

Waiting(h) == {chan[h][i].rec : i \in 1 .. Len(chan[h])}

LEMMA PushedWaiting ==
  ASSUME WorkInv, NEW h \in Hosts, Push(Producer(h))
  PROVE  Waiting(h)' = Waiting(h) \cup {Prod(h).rec}
<1>1. /\ Len(chan[h]) + 1 \in 1 .. Len(chan'[h])
      /\ \A i \in 1 .. Len(chan'[h]) : i \in 1 .. Len(chan[h]) \/ i = Len(chan[h]) + 1
      /\ \A i \in 1 .. Len(chan[h]) : i \in 1 .. Len(chan'[h])
  BY PushedItem
<1>2. Prod(h).rec \in Waiting(h)' /\ Waiting(h) \subseteq Waiting(h)'
  BY <1>1, PushedItem DEF Waiting
<1>3. Waiting(h)' \subseteq Waiting(h) \cup {Prod(h).rec}
  BY <1>1, PushedItem DEF Waiting
<1> QED BY <1>2, <1>3

LEMMA PoppedWaiting ==
  ASSUME WorkInv, NEW h \in Hosts, chan[h] # <<>>, chan' = [chan EXCEPT ![h] = Tail(@)]
  PROVE  /\ Waiting(h)' \subseteq Waiting(h)
         /\ Head(chan[h]).rec \in Waiting(h)
<1>1. 1 \in 1 .. Len(chan[h])
  BY PoppedItem
<1> QED BY <1>1, PoppedItem DEF Waiting

LEMMA WaitingRecords ==
  ASSUME WorkInv, NEW h \in Hosts
  PROVE  /\ \A rec \in Waiting(h) : Sound(rec) /\ rec \in Records
         /\ chan[h] = <<>> => Waiting(h) = {}
         /\ chan'[h] = chan[h] => Waiting(h)' = Waiting(h)
BY DEF Waiting, WorkInv, ChanInv, ChansSound, Signed, Sound

-----------------------------------------------------------------------------
(* Submitted and confirmed rows.                                           *)

\* What is on chain stays there.
LEMMA ChainGrows == Inv /\ [Next]_vars => Grows
<1> SUFFICES ASSUME Inv, [Next]_vars PROVE Grows
  OBVIOUS
<1>1. PollOK /\ WorkInv /\ NodeTypeOK
  BY InvParts DEF PollOK, WorkInv
<1>2. ASSUME NEW h \in Hosts, Work(h) PROVE Grows
  <2>1. ASSUME NEW a \in Actors, Procedure(a) \/ Produce(a) \/ Consume(a) PROVE Grows
    BY <1>1, <2>1, ProcedureSound, ProduceSound, ConsumeSound DEF Quiet
  <2> QED BY <1>1, <1>2, <2>1, TwoRoles, SpawnSound DEF Work, Quiet
<1>3. ASSUME Node PROVE Grows
  BY <1>1, <1>3, LandSound, CommitSound, DropSound, ExternalSound DEF Node
<1>4. CASE UNCHANGED nodeVars
  BY <1>1, <1>4, NodeFrame
<1> QED BY <1>2, <1>3, <1>4
        DEF Next, vars, Enqueue, Pass, Poll, PollStep, PollList, PollLookup,
           PollWrite, PollNotify, Crash, Recover

\* What a row says of the chain, read as the two properties do.
Backed(row, t) ==
  /\ row.status = "submitted" => row.hash \in accepted /\ row.hash.txn = t
  /\ row.status = "confirmed" => row.hash # None /\ row.hash.txn = t /\ Succeeded(row.hash)

LEMMA RowsBacked ==
  SubmittedWasAccepted /\ ConfirmedIsOnChain <=> \A t \in Txns : Backed(rows[t], t)
BY DEF SubmittedWasAccepted, ConfirmedIsOnChain, Backed

LEMMA RowsBackedNext ==
  (\A t \in Txns : Backed(rows[t], t)') => (SubmittedWasAccepted /\ ConfirmedIsOnChain)'
BY DEF SubmittedWasAccepted, ConfirmedIsOnChain, Backed

LEMMA BackedStays ==
  ASSUME Inv, [Next]_vars, NEW t \in Txns, Backed(rows[t], t),
         rows'[t] = rows[t] \/ rows'[t].status \in {"queued", "processing", "failed"}
  PROVE  Backed(rows[t], t)'
<1>1. /\ accepted \subseteq accepted'
      /\ \A hash : Succeeded(hash) => Succeeded(hash)'
  BY AcceptedGrows, ChainGrows, GrowsKeeps, InvParts DEF PollOK, WorkInv
<1> QED BY <1>1 DEF Backed

\* The steps other than the consumer's writes put no unbacked row into the table.
LEMMA WorkBacked ==
  ASSUME Inv, [Next]_vars, NEW h \in Hosts, Work(h), HashInHand(h), NoneRevived(h),
         \A t \in Txns : Backed(rows[t], t)
  PROVE  \A t \in Txns : Backed(rows[t], t)'
<1>0. WorkInv /\ Producer(h) \in Actors /\ Consumer(h) \in Actors
  BY InvParts, TwoRoles DEF PollOK
<1> SUFFICES ASSUME NEW t \in Txns PROVE Backed(rows[t], t)'
  OBVIOUS
<1>1. ASSUME NEW a \in Actors, Procedure(a)
      PROVE  Backed(rows[t], t)'
  <2>1. rows'[t] = rows[t] \/ rows'[t].status \in {"queued", "failed"}
    BY <1>0, <1>1, ProcedureRow, WrittenFields DEF Dequeued
  <2> QED BY <2>1, BackedStays
<1>2. ASSUME NEW a \in Actors, Produce(a)
      PROVE  Backed(rows[t], t)'
  BY <1>0, <1>2, ProduceRow, BackedStays
<1>3. CASE Consume(Consumer(h))
  <2> DEFINE c == Consumer(h)
  <2>1. CASE rows'[t] = rows[t]
    BY <2>1, BackedStays
  <2>2. CASE /\ actor[c].pc = "persist" /\ rows[t].status = "processing"
             /\ Written(t, [actor[c].rec EXCEPT !.hash = actor[c].hash], actor[c].rec.status)
    <3>1. actor[c].rec \in OnTheWay(h) /\ Sending(h)
      BY <2>2 DEF OnTheWay, Cons, Sending
    <3>2. actor[c].rec.txn = t /\ actor[c].rec \in Records
      BY <1>0, <2>2, Held DEF Written, At, Signed, Sound, Rec, Records
    <3>3. rows'[t].status \notin Beyond
      BY <2>2, <3>1, <3>2 DEF NoneRevived, Beyond, Terminal, Written
    <3> QED BY <3>3 DEF Beyond, Terminal, Backed
  <2>3. CASE actor[c].pc = "mark" /\ Written(t, actor[c].rec, "submitted")
    <3>1. actor[c].rec.hash \in accepted
      BY <2>3 DEF HashInHand, Cons
    <3>2. actor[c].rec.txn = t /\ actor[c].hash.txn = t /\ actor[c].rec.hash = actor[c].hash
      BY <1>0, <2>3, Held DEF Written, At, Signed, Rec, HashInHand, Cons
    <3> QED BY <2>3, <3>1, <3>2, AcceptedGrows DEF Backed, Written
  <2> QED BY <1>0, <1>3, <2>1, <2>2, <2>3, ConsumeRow
<1>4. CASE Spawn(h)
  BY <1>4, BackedStays DEF Spawn, storeVars
<1> QED BY <1>0, <1>1, <1>2, <1>3, <1>4 DEF Work

LEMMA OthersBacked ==
  ASSUME Inv, [Next]_vars, ~\E h \in Hosts : Work(h),
         \A t \in Txns : Backed(rows[t], t)
  PROVE  \A t \in Txns : Backed(rows[t], t)'
<1>0. PollOK /\ WorkInv /\ StoreInv
  BY InvParts DEF PollOK, WorkInv
<1> SUFFICES ASSUME NEW t \in Txns PROVE Backed(rows[t], t)'
  OBVIOUS
<1>1. CASE \E u \in Txns : Enqueue(u)
  BY <1>0, <1>1, CreateRow, BackedStays DEF Enqueue
<1>2. CASE \E h \in Hosts : Poll(h)
  <2>1. PICK h \in Hosts : Poll(h)
    BY <1>2
  <2>2. CASE rows'[t] = rows[t]
    BY <2>2, BackedStays
  <2>3. CASE /\ poll[h][t].pc = "write" /\ Written(t, poll[h][t].rec, poll[h][t].verdict)
             /\ PollSound(poll[h][t], t)
    <3>1. /\ poll[h][t].verdict \in Terminal
          /\ poll[h][t].verdict = "confirmed" =>
               /\ Succeeded(poll[h][t].rec.hash)
               /\ poll[h][t].rec.hash # None /\ poll[h][t].rec.hash.txn = t
      BY <2>3 DEF PollSound, Sound, Written, Succeeded, Is
    <3>2. \A hash : Succeeded(hash) => Succeeded(hash)'
      BY <1>0, ChainGrows, GrowsKeeps DEF WorkInv
    <3> QED BY <2>3, <3>1, <3>2 DEF Backed, Written, Terminal
  <2> QED BY <1>0, <2>1, <2>2, <2>3, PollRow
<1>3. CASE Recover
  BY <1>0, <1>3, RecoverRow, BackedStays DEF Dequeued
<1>4. CASE \/ \E u \in Txns : Pass(u)
           \/ \E h \in Hosts : Crash(h)
           \/ Node \/ UNCHANGED vars
  BY <1>4, BackedStays DEF Pass, Crash, Node, vars, storeVars
<1> QED BY <1>1, <1>2, <1>3, <1>4 DEF Next

-----------------------------------------------------------------------------
(* No copy revives a row that has gone past processing, while the consumer *)
(* meets no failure.                                                       *)

LEMMA OnTheWayIs ==
  ASSUME WorkInv, NEW h \in Hosts
  PROVE  /\ OnTheWay(h) = Waiting(h) \cup {rec \in {Cons(h).rec} : Cons(h).pc = "persist"}
         /\ \A rec \in OnTheWay(h) : rec.txn \in Txns
         /\ Prod(h).pc \in {"prepare", "push"} => Prod(h).rec.txn \in Txns
<1>1. OnTheWay(h) = Waiting(h) \cup {rec \in {Cons(h).rec} : Cons(h).pc = "persist"}
  BY DEF OnTheWay, Waiting
<1>2. Cons(h).pc = "persist" => Cons(h).rec \in Records
  BY TwoRoles, Held DEF At, Cons, Rec, Signed, Sound
<1>3. Prod(h).pc \in {"prepare", "push"} => Prod(h).rec \in Records
  BY TwoRoles, Held DEF At, Prod, Rec, Signed, Sound
<1> QED BY <1>1, <1>2, <1>3, WaitingRecords DEF Records

BeyondStays == \A t \in Txns : rows[t].status \in Beyond => rows'[t].status \in Beyond

LEMMA NoneRevivedStays ==
  ASSUME WorkInv, NEW h \in Hosts, NoneRevived(h), BeyondStays,
         Sending(h)' => Sending(h), OnTheWay(h)' \subseteq OnTheWay(h), Prod(h)' = Prod(h)
  PROVE  NoneRevived(h)'
<1>1. \A t : ProducerHas(h, t)' <=> ProducerHas(h, t)
  BY DEF ProducerHas
<1> QED BY <1>1, OnTheWayIs DEF NoneRevived, BeyondStays

\* The producer: what it cannot write it cannot come to write.
LEMMA ProducerRevivesNone ==
  ASSUME WorkInv, NEW h \in Hosts, Shape(h), NoneRevived(h),
         Procedure(Producer(h)) \/ Produce(Producer(h))
  PROVE  NoneRevived(h)'
<1> DEFINE p == Producer(h)
           c == Consumer(h)
<1>1. p \in Actors /\ c \in Actors /\ p # c /\ p[1] = h /\ actor[p] \in ActorStates
  BY TwoRoles DEF Producer, WorkInv, ActorInv
<1>2. CASE Procedure(p)
  <2>1. chan' = chan /\ actor[p].pc \in Procedures /\ OthersStay(p)
    BY <1>1, <1>2, ProcedureQuiet, ProcedureEffects
       DEF WorkInv, Procedure, Procedures, Remains, ComesBack, Becomes
  <2>2. actor'[c] = actor[c] /\ OnTheWay(h)' = OnTheWay(h)
        /\ (Sending(h)' <=> Sending(h))
    BY <1>1, <2>1 DEF OthersStay, OnTheWay, Sending, Cons, c
  <2>3. actor'[p].pc \in Procedures \cup {"off", "claim"}
    BY <1>1, <1>2, ProducerProcedureShape, ProcedureEffects
       DEF WorkInv, Procedure, Procedures, Remains, ComesBack, Becomes, Shape, ProducerShape,
           Prod, p
  <2>4. ASSUME NEW t \in Txns, rows[t].status \in Beyond, ~ProducerHas(h, t)
        PROVE  rows'[t].status \in Beyond /\ ~ProducerHas(h, t)'
    <3>1. /\ actor[p].rec.txn # t /\ \A rec \in actor[p].todo : rec.txn # t
          /\ \A rec \in Records : Requeued(rec).txn = rec.txn
      BY <2>1, <2>4 DEF ProducerHas, Prod, Procedures, Requeued, Records
    <3>2. Sound(actor[p].rec) /\ \A rec \in actor[p].todo : Sound(rec)
      BY <1>1, <2>1, Held DEF At, Rec
    <3>3. rows'[t] = rows[t]
      BY <1>1, <1>2, <2>4, <3>1, <3>2, ProcedureRow, WrittenFields
         DEF Dequeued, Beyond, Terminal, Sound
    <3>4. t \notin Recoverable
      BY <2>4 DEF Recoverable, InStatus, Beyond, Terminal
    <3>5. /\ actor'[p].rec.txn # t \/ actor'[p].pc \in {"off", "claim"}
          /\ \A rec \in actor'[p].todo : rec.txn # t
      <4>1. \A rec \in {Row(u) : u \in Recoverable \ {Rec(p).txn}} : rec.txn # t
        BY <3>4 DEF Row
      <4>2. actor[p].ret \in {"off", "claim"}
        BY <2>1 DEF Shape, ProducerShape, Prod
      <4> HIDE DEF p
      <4> QED BY <1>1, <1>2, <3>1, <4>1, <4>2, ProcedureEffects
              DEF WorkInv, Procedure, Remains, ComesBack, Becomes
    <3> QED BY <2>4, <3>3, <3>5 DEF ProducerHas, Prod
  <2> QED BY <2>2, <2>3, <2>4, OnTheWayIs DEF NoneRevived, Prod, Procedures
<1>3. CASE Produce(p)
  <2>1. actor[p].todo = {} \/ actor[p].pc = "sibling"
    BY DEF Shape, ProducerShape, Prod
  <2>2. PrepareFailures(p) \subseteq Procedures
    BY DEF PrepareFailures, Procedures
  <2>3. /\ OthersStay(p) /\ actor'[p].todo = {}
        /\ actor[p].pc \in {"claim", "load", "prepare", "push"}
    BY <1>1, <1>3, <2>1, <2>2, ProduceEffects DEF Produce, WorkInv, Becomes, Departs
  <2>4. actor'[c] = actor[c] /\ (Sending(h)' <=> Sending(h))
    BY <1>1, <2>3 DEF OthersStay, Sending, Cons, c
  <2>5. CASE Claim(p)
    <3>1. chan' = chan
      BY <2>5 DEF Claim
    <3>2. PICK u \in Txns : /\ ClaimOldest(u)
                            /\ actor'[p].rec.txn = u /\ actor'[p].pc = "load"
      BY <1>1, <2>5, ProduceEffects DEF WorkInv, Becomes
    <3>3. \A t \in Txns : IF t = u THEN rows[t].status = "queued" ELSE rows'[t] = rows[t]
      BY <3>2, ClaimRow DEF WorkInv
    <3>4. \A t \in Txns : rows[t].status \in Beyond =>
             rows'[t].status \in Beyond /\ ~ProducerHas(h, t)'
      BY <2>3, <3>2, <3>3 DEF Beyond, Terminal, ProducerHas, Prod
    <3> QED BY <2>4, <3>1, <3>2, <3>4, OnTheWayIs DEF NoneRevived, OnTheWay, Cons, Prod
  <2>6. CASE Push(p)
    <3>1. Waiting(h)' = Waiting(h) \cup {Prod(h).rec} /\ rows' = rows
      BY <2>6, PushedWaiting DEF Push, storeVars
    <3>2. actor'[p].pc = "claim" /\ actor[p].pc = "push"
      BY <1>1, <2>6, ProduceEffects DEF WorkInv, Departs, Becomes
    <3>3. OnTheWay(h)' = OnTheWay(h) \cup {Prod(h).rec}
      BY <2>4, <3>1 DEF OnTheWay, Waiting, Cons
    <3>4. \A t : ~ProducerHas(h, t)'
      BY <2>3, <3>2 DEF ProducerHas, Prod
    <3> QED BY <2>4, <3>1, <3>2, <3>3, <3>4, OnTheWayIs DEF NoneRevived, Prod
  <2>7. CASE Load(p) \/ Sign(p)
    <3>1. chan' = chan /\ rows' = rows
      BY <2>7 DEF Load, Sign, storeVars
    <3>2. \/ actor'[p].pc = "claim"
          \/ actor[p].pc = "load" /\ actor'[p].rec = Row(actor[p].rec.txn)
          \/ actor[p].pc = "prepare" /\ actor'[p].rec = actor[p].rec
      BY <1>1, <2>7, ProduceEffects DEF WorkInv, Departs, Becomes
    <3>3. \A t : ProducerHas(h, t)' => ProducerHas(h, t)
      BY <2>3, <3>2 DEF ProducerHas, Prod, Row
    <3>4. actor'[p].pc \in {"prepare", "push"} /\ actor'[p].rec.status \in Beyond =>
            rows[actor'[p].rec.txn].status \in Beyond \/ ~Sending(h)
      BY <3>2 DEF Row, NoneRevived, Prod
    <3> QED BY <2>4, <3>1, <3>3, <3>4 DEF NoneRevived, OnTheWay, Cons, Prod
  <2>8. CASE StopProducing(p) \/ Unprepared(p) \/ GiveUpPush(p)
    <3>1. chan' = chan /\ rows' = rows
      BY <2>8 DEF StopProducing, Unprepared, GiveUpPush, storeVars
    <3>2. \/ actor'[p].pc = "off"
          \/ actor'[p].pc \in Procedures /\ actor'[p].rec = actor[p].rec
             /\ actor[p].pc \in {"prepare", "push"}
      BY <1>1, <2>2, <2>8, ProduceEffects DEF WorkInv, Departs, Becomes, Procedures
    <3>3. \A t : ProducerHas(h, t)' => ProducerHas(h, t)
      BY <2>3, <3>2 DEF ProducerHas, Prod
    <3>4. actor'[p].pc \notin {"prepare", "push"}
      BY <3>2 DEF Procedures
    <3> QED BY <2>4, <3>1, <3>3, <3>4 DEF NoneRevived, OnTheWay, Cons, Prod
  <2> QED BY <1>3, <2>5, <2>6, <2>7, <2>8 DEF Produce
<1> QED BY <1>2, <1>3

LEMMA ConsumerRevivesNone ==
  ASSUME WorkInv, NEW h \in Hosts, Shape(h), NoneRevived(h),
         Procedure(Consumer(h)) \/ Consume(Consumer(h))
  PROVE  NoneRevived(h)'
<1> DEFINE p == Producer(h)
           c == Consumer(h)
<1>1. p \in Actors /\ c \in Actors /\ p # c /\ c[1] = h
  BY TwoRoles DEF Consumer
<1>2. CASE Procedure(c)
  <2>1. actor[c].pc \in Procedures
        /\ actor'[c].pc \in Procedures \cup {actor[c].ret}
    BY <1>1, <1>2, ProcedureEffects
       DEF WorkInv, Procedure, Procedures, Remains, ComesBack, Becomes
  <2>2. actor[c].ret \in {"stop", "drain", "sweep"}
    BY <2>1 DEF Shape, ConsumerShape, Sweeping, Cons
  <2>3. ~Sending(h)'
    BY <2>1, <2>2 DEF Sending, Cons, Procedures
  <2> QED BY <2>3 DEF NoneRevived
<1>3. ASSUME Consume(c), Sending(h)'
      PROVE  Receive(c) \/ PersistHash(c) \/ SubmitAccepted(c) \/ MarkSubmitted(c)
  BY <1>1, <1>3, ConsumeEffects
     DEF WorkInv, Consume, Sending, Cons, Departs, Remains, Becomes
<1>4. ASSUME Receive(c) \/ PersistHash(c) \/ SubmitAccepted(c) \/ MarkSubmitted(c), Sending(h)'
      PROVE  NoneRevived(h)'
  <2>1. Sending(h) /\ OthersStay(c)
    BY <1>1, <1>4, ConsumeEffects DEF WorkInv, Sending, Cons, Departs, Remains, Becomes
  <2>2. Prod(h)' = Prod(h)
    BY <1>1, <2>1 DEF OthersStay, Prod
  <2>3. OnTheWay(h)' \subseteq OnTheWay(h)
    <3>1. CASE Receive(c)
      <4>1. chan[h] # <<>> /\ chan' = [chan EXCEPT ![h] = Tail(@)]
            /\ actor'[c].rec = Head(chan[h]).rec
        BY <1>1, <3>1, ConsumeEffects DEF WorkInv, Receive, Becomes
      <4> QED BY <4>1, PoppedWaiting DEF OnTheWay, Waiting, Cons
    <3>2. CASE PersistHash(c) \/ SubmitAccepted(c) \/ MarkSubmitted(c)
      <4>1. chan' = chan /\ actor'[c].pc # "persist"
        BY <1>1, <3>2, ConsumeEffects
           DEF WorkInv, PersistHash, SubmitAccepted, MarkSubmitted, Departs, Remains, Becomes
      <4> QED BY <4>1 DEF OnTheWay, Cons
    <3> QED BY <1>4, <3>1, <3>2
  <2>4. BeyondStays
    <3> SUFFICES ASSUME NEW t \in Txns, rows[t].status \in Beyond
                 PROVE  rows'[t].status \in Beyond
      BY DEF BeyondStays
    <3>1. Consume(c) /\ rows[t].status # "processing"
      BY <1>4 DEF Consume, Beyond, Terminal
    <3>2. rows'[t] = rows[t] \/ Written(t, actor[c].rec, "submitted")
      BY <1>1, <3>1, ConsumeRow
    <3> QED BY <3>2, WrittenFields DEF Beyond
  <2> QED BY <2>1, <2>2, <2>3, <2>4, NoneRevivedStays
<1> QED BY <1>2, <1>3, <1>4 DEF NoneRevived

LEMMA NoneRevivedNext ==
  ASSUME Inv, [Next]_vars, WorkersShaped, NEW h \in Hosts, Hosts = {h}, NoneRevived(h)
  PROVE  NoneRevived(h)'
<1>1. PollOK /\ WorkInv /\ Shape(h) /\ StoreInv
  BY InvParts DEF WorkersShaped, PollOK, WorkInv
<1>2. CASE Work(h)
  <2>1. CASE Spawn(h)
    <3>1. chan[h] = <<>> /\ chan' = chan
      BY <1>1, <2>1, SpawnEffects DEF WorkInv, Shape, Winding, Spawn
    <3>2. OnTheWay(h)' = {} /\ Prod(h)'.pc = "claim"
      BY <1>1, <2>1, <3>1, SpawnEffects, WaitingRecords DEF WorkInv, OnTheWay, Waiting
    <3> QED BY <3>2 DEF NoneRevived
  <2> QED BY <1>1, <1>2, <2>1, ProducerRevivesNone, ConsumerRevivesNone DEF Work
<1>3. CASE Crash(h)
  <2>1. Cons(h)'.pc = "off"
    BY <1>1, <1>3, CrashEffects DEF WorkInv, Off
  <2> QED BY <2>1 DEF NoneRevived, Sending
<1>4. CASE \/ \E t \in Txns : Enqueue(t) \/ Pass(t)
           \/ Poll(h) \/ Recover \/ Node \/ UNCHANGED vars
  <2>1. UNCHANGED <<actor, chan>>
    BY <1>4 DEF Enqueue, Pass, Poll, PollStep, PollList, PollLookup, PollWrite, PollNotify,
                Recover, Node, vars, submitterVars
  <2>2. BeyondStays
    <3> SUFFICES ASSUME NEW t \in Txns, rows[t].status \in Beyond
                 PROVE  rows'[t].status \in Beyond
      BY DEF BeyondStays
    <3>1. CASE \E u \in Txns : Enqueue(u)
      BY <1>1, <3>1, CreateRow DEF Enqueue, Beyond, Terminal
    <3>2. CASE Poll(h)
      BY <1>1, <3>2, PollRow, WrittenFields DEF PollSound, Beyond
    <3>3. CASE Recover
      BY <1>1, <3>3, RecoverRow DEF Recoverable, InStatus, Beyond, Terminal
    <3>4. CASE (\E u \in Txns : Pass(u)) \/ Node \/ UNCHANGED vars
      BY <3>4 DEF Pass, Node, vars, storeVars
    <3> QED BY <1>4, <3>1, <3>2, <3>3, <3>4
  <2> QED BY <1>1, <2>1, <2>2, NoneRevivedStays DEF Sending, OnTheWay, Prod, Cons
<1> QED BY <1>2, <1>3, <1>4 DEF Next

LEMMA StatusOnChainNext ==
  ASSUME Alone
  PROVE  Inv /\ StatusOnChain /\ [Next]_vars => StatusOnChain'
<1> SUFFICES ASSUME Inv, StatusOnChain, [Next]_vars PROVE StatusOnChain'
  OBVIOUS
<1>1. PICK h \in Hosts : Hosts = {h}
  BY DEF Alone
<1>2. /\ WorkersShaped /\ NoneRevived(h) /\ HashInHand(h)
      /\ \A t \in Txns : Backed(rows[t], t)
  BY <1>1, RowsBacked DEF StatusOnChain, WorkersShaped
<1>3. WorkersShaped'
  BY <1>2, WorkersShapedNext
<1>4. NoneRevived(h)'
  BY <1>1, <1>2, NoneRevivedNext
<1>5. \A t \in Txns : Backed(rows[t], t)'
  BY <1>1, <1>2, WorkBacked, OthersBacked
<1> QED BY <1>1, <1>3, <1>4, <1>5, RowsBackedNext DEF StatusOnChain

LEMMA StatusOnChainInit == Init => StatusOnChain
<1> SUFFICES ASSUME Init PROVE StatusOnChain
  OBVIOUS
<1>1. \A h \in Hosts : Cons(h).pc = "off"
  BY TwoRoles DEF Init, SubmitterInit, Off, Cons
<1>2. \A t \in Txns : rows[t].status = "absent"
  BY DEF Init, StoreInit
<1> QED BY <1>1, <1>2, WorkersShapedInit
        DEF StatusOnChain, NoneRevived, Sending, SubmittedWasAccepted, ConfirmedIsOnChain

\* With one host, whatever fails: until the consumer meets a failure it writes
\* no copy back that is older than the row's broadcast, so that what a row says
\* of the chain stays true.
THEOREM StatusOnChainHolds == ASSUME Alone PROVE Spec => []StatusOnChain
BY InvHolds, StatusOnChainInit, StatusOnChainNext, PTL DEF Spec

\* With one host, a row is confirmed only by a transaction of this very request
\* that the chain executed with success.
THEOREM ConfirmedHolds == ASSUME Alone PROVE Spec => []ConfirmedIsOnChain
BY StatusOnChainHolds, PTL DEF StatusOnChain

\* With one host, a submitted row carries the hash of a transaction of this
\* very request that the node has accepted.
THEOREM SubmittedHolds == ASSUME Alone PROVE Spec => []SubmittedWasAccepted
BY StatusOnChainHolds, PTL DEF StatusOnChain

-----------------------------------------------------------------------------
(* No row in processing is forgotten.                                      *)

\* What keeps the consumer's statements from failing.
LEMMA NoFault ==
  ASSUME MaxFaults = 0, WorkInv, NEW h \in Hosts
  PROVE  ~Fails(Consumer(h)) /\ (Fails(Producer(h)) => cancelled[h])
<1>1. faults \in Nat /\ ~Cancelled(Consumer(h)) /\ (Cancelled(Producer(h)) => cancelled[h])
  BY DEF WorkInv, RestOK, Cancelled, Consumer, Producer
<1> QED BY <1>1 DEF Fails

\* Nothing but a worker puts a row into processing.
LEMMA RecoverableShrinks ==
  ASSUME Inv, [Next]_vars, ~\E h \in Hosts : Work(h)
  PROVE  Recoverable' \subseteq Recoverable
<1>0. PollOK /\ WorkInv /\ StoreInv
  BY InvParts DEF PollOK, WorkInv
<1> SUFFICES ASSUME NEW t \in Txns, t \in Recoverable' PROVE t \in Recoverable
  BY DEF Recoverable, InStatus
<1>1. rows'[t] = rows[t] => t \in Recoverable
  BY DEF Recoverable, InStatus
<1>2. CASE \E u \in Txns : Enqueue(u)
  BY <1>0, <1>1, <1>2, CreateRow DEF Enqueue, Recoverable, InStatus
<1>3. CASE \E h \in Hosts : Poll(h)
  BY <1>0, <1>1, <1>3, PollRow, WrittenFields DEF PollSound, Terminal, Recoverable, InStatus
<1>4. CASE Recover
  BY <1>0, <1>1, <1>4, RecoverRow
<1>5. CASE \/ \E u \in Txns : Pass(u)
           \/ \E h \in Hosts : Crash(h)
           \/ Node \/ UNCHANGED vars
  BY <1>1, <1>5 DEF Pass, Crash, Node, vars, storeVars
<1> QED BY <1>2, <1>3, <1>4, <1>5 DEF Next

\* The producer has ended when the worker winds up.
LEMMA WindingWork ==
  ASSUME WorkInv, NEW h \in Hosts, Shape(h), Winding(h), Work(h)
  PROVE  Spawn(h) \/ Procedure(Consumer(h)) \/ Consume(Consumer(h))
<1>1. actor[Producer(h)].pc = "off" /\ Producer(h) \in Actors
  BY TwoRoles DEF Shape, Prod
<1>2. ~Procedure(Producer(h)) /\ ~Produce(Producer(h))
  BY <1>1 DEF Procedure, Produce, At, Requeue, Release, Fail, Shift, NotifyFailed, FetchAccount,
       AdjustCounter, ListSiblings, RequeueSibling, RequeueReconciled,
       Claim, StopProducing, Load, Unprepared, Sign, Push, GiveUpPush
<1> QED BY <1>2 DEF Work

\* One step of the sweep.
LEMMA SweepStep ==
  ASSUME MaxFaults = 0, WorkInv, NEW h \in Hosts, Shape(h),
         Procedure(Consumer(h)) \/ Consume(Consumer(h)),
         Cons(h).pc = "sweep" \/ Sweeping(h) => Recoverable \subseteq InSweep(h)
  PROVE  /\ Cons(h)'.pc = "off" => Recoverable' = {}
         /\ (Cons(h).pc = "sweep" \/ Sweeping(h))' => Recoverable' \subseteq InSweep(h)'
<1> DEFINE c == Consumer(h)
<1>1. c \in Actors /\ c[1] = h /\ ~Fails(c)
  BY TwoRoles, NoFault DEF Consumer
<1>2. ConsumerShape(h)
  BY DEF Shape
<1>3. InSweep(h) = {rec.txn : rec \in actor[c].todo}
                   \cup {rec.txn : rec \in {x \in {actor[c].rec} : actor[c].pc = "requeue"}}
  BY DEF InSweep, Cons
<1>4. InSweep(h)' = {rec.txn : rec \in actor'[c].todo}
                   \cup {rec.txn : rec \in {x \in {actor'[c].rec} : actor'[c].pc = "requeue"}}
  BY DEF InSweep, Cons
<1>5. rows' = rows => Recoverable' = Recoverable
  BY DEF Recoverable, InStatus
<1>6. CASE Requeue(c)
  <2>1. /\ actor[c].pc = "requeue" /\ Update(Requeued(actor[c].rec))
        /\ actor'[c].todo = actor[c].todo /\ actor'[c].pc \in {"release", actor[c].ret}
        /\ actor[c].ret \in {"stop", "drain", "sweep"}
    BY <1>1, <1>2, <1>6, ProcedureEffects
       DEF WorkInv, Requeue, Rec, ComesBack, Remains, Becomes, ConsumerShape, Sweeping, Cons,
           Procedures
  <2>2. Sound(actor[c].rec)
    BY <1>1, <2>1, Held DEF At, Rec, Procedures
  <2>3. Recoverable' \subseteq Recoverable \ {actor[c].rec.txn}
    <3>1. /\ Requeued(actor[c].rec) \in Records
          /\ Requeued(actor[c].rec).txn = actor[c].rec.txn
          /\ Requeued(actor[c].rec).status = "queued"
      BY <2>2, Derived DEF Sound, Requeued, Records
    <3> DEFINE new == Requeued(actor[c].rec)
    <3>2. StoreInv /\ new \in Records /\ Update(new)
      BY <2>1, <3>1 DEF WorkInv
    <3> HIDE DEF new
    <3>3. /\ rows'[new.txn].status = new.status
          /\ \A t \in Txns : t # new.txn => rows'[t] = rows[t]
      BY <3>2, UpdatedRow, WrittenFields
    <3> QED BY <3>1, <3>3 DEF Recoverable, InStatus, new
  <2>4. ASSUME Sweeping(h) PROVE Recoverable' \subseteq InSweep(h)'
    BY <1>3, <1>4, <2>1, <2>3, <2>4
  <2>5. (Cons(h).pc = "sweep" \/ Sweeping(h))' => Sweeping(h)
    BY <1>1, <1>6, <2>1, ProcedureEffects
       DEF WorkInv, Sweeping, Cons, ComesBack, Remains, Becomes
  <2> QED BY <2>1, <2>4, <2>5 DEF Cons
<1>7. CASE Procedure(c) /\ ~Requeue(c)
  <2>1. (Cons(h).pc = "sweep" \/ Sweeping(h))' => Release(c) /\ Sweeping(h)
    BY <1>1, <1>2, <1>7, ProcedureEffects
       DEF Procedure, WorkInv, Sweeping, Cons, ComesBack, Remains, Becomes, ConsumerShape,
           Procedures
  <2>2. Release(c) => rows' = rows /\ actor'[c].todo = actor[c].todo /\ actor[c].pc = "release"
    BY <1>1, ProcedureEffects
       DEF Release, WorkInv, ComesBack, Becomes, storeVars, ReleaseSequence
  <2>3. Cons(h)'.pc # "off"
    BY <1>1, <1>2, <1>7, ProcedureEffects
       DEF Procedure, WorkInv, Sweeping, Cons, ComesBack, Remains, Becomes, ConsumerShape,
           Procedures
  <2> QED BY <1>3, <1>4, <1>5, <2>1, <2>2, <2>3
<1>8. CASE SweepList(c) \/ Sweep(c) \/ Exit(c)
  <2>1. rows' = rows
    BY <1>8 DEF SweepList, Sweep, Exit, storeVars
  <2>2. CASE SweepList(c)
    <3>1. actor'[c].todo = {Row(t) : t \in Recoverable} /\ actor'[c].pc = "sweep"
      BY <1>1, <2>2, ConsumeEffects DEF WorkInv, Becomes
    <3>2. \A t \in Recoverable : Row(t) \in actor'[c].todo /\ Row(t).txn = t
      BY <3>1 DEF Row
    <3> QED BY <1>4, <1>5, <2>1, <3>1, <3>2 DEF Cons
  <2>3. CASE Sweep(c)
    <3>1. PICK rec \in actor[c].todo :
            Becomes(c, "requeue", rec, actor[c].hash, actor[c].todo \ {rec}, "sweep")
      BY <1>1, <2>3, ConsumeEffects DEF WorkInv
    <3>2. InSweep(h) \subseteq InSweep(h)'
      <4>1. actor[c].pc = "sweep"
        BY <2>3 DEF Sweep, At
      <4> QED BY <1>3, <1>4, <3>1, <4>1 DEF Becomes
    <3> QED BY <1>5, <2>1, <2>3, <3>1, <3>2 DEF Becomes, Cons, Sweep, At
  <2>4. CASE Exit(c)
    BY <1>1, <1>3, <1>5, <2>1, <2>4, ConsumeEffects DEF WorkInv, Departs, Becomes, Sweeping, Cons
  <2> QED BY <1>8, <2>2, <2>3, <2>4
<1>9. CASE Consume(c) /\ ~(SweepList(c) \/ Sweep(c) \/ Exit(c))
  BY <1>1, <1>9, ConsumeEffects
     DEF Consume, WorkInv, Departs, Remains, Becomes, Sweeping, Cons
<1> QED BY <1>6, <1>7, <1>8, <1>9

LEMMA SweepCoversNext ==
  ASSUME MaxFaults = 0, Inv, [Next]_vars, WorkersShaped, NEW h \in Hosts, Hosts = {h},
         SweepCovers(h)
  PROVE  SweepCovers(h)'
<1>0. PollOK /\ WorkInv /\ Shape(h)
  BY InvParts DEF WorkersShaped, PollOK
<1>1. CASE Work(h)
  <2>1. crashes' = crashes
    BY <1>1 DEF Work
  <2>2. CASE Spawn(h)
    BY <1>0, <2>2, SpawnEffects DEF WorkInv, SweepCovers, Sweeping
  <2>3. CASE Procedure(Consumer(h)) \/ Consume(Consumer(h))
    BY <1>0, <2>1, <2>3, SweepStep DEF SweepCovers
  <2>4. CASE Procedure(Producer(h)) \/ Produce(Producer(h))
    <3>1. Producer(h) \in Actors /\ Consumer(h) \in Actors /\ Producer(h) # Consumer(h)
      BY TwoRoles
    <3>2. OthersStay(Producer(h))
      BY <1>0, <2>4, <3>1, ProcedureEffects, ProduceEffects
         DEF WorkInv, Procedure, Produce, Remains, Departs, ComesBack, Becomes
    <3>3. Cons(h)' = Cons(h)
      BY <3>1, <3>2 DEF OthersStay, Cons
    <3>4. ~Winding(h) \/ Consume(Consumer(h)) \/ Procedure(Consumer(h)) \/ Spawn(h)
      BY <1>0, <1>1, WindingWork
    <3> QED BY <2>2, <2>3, <3>3, <3>4 DEF SweepCovers, Winding, Sweeping
  <2> QED BY <1>1, <2>2, <2>3, <2>4 DEF Work
<1>2. CASE Crash(h)
  BY <1>2, InvParts DEF Crash, SweepCovers
<1>3. CASE ~Work(h) /\ ~Crash(h)
  <2>1. Recoverable' \subseteq Recoverable
    BY <1>3, RecoverableShrinks
  <2>2. UNCHANGED <<actor, crashes>>
    BY <1>3 DEF Next, Enqueue, Pass, Poll, PollStep, PollList, PollLookup, PollWrite, PollNotify,
                Recover, Node, vars, submitterVars
  <2> QED BY <2>1, <2>2 DEF SweepCovers, Sweeping, InSweep, Cons
<1> QED BY <1>1, <1>2, <1>3

LEMMA SweepCoversHolds ==
  ASSUME Alone, MaxFaults = 0
  PROVE  Spec => [](\A h \in Hosts : SweepCovers(h))
<1>1. Init => \A h \in Hosts : SweepCovers(h)
  <2>1. Init => Recoverable = {}
    BY DEF Init, StoreInit, Recoverable, InStatus
  <2>2. Init => \A h \in Hosts : Cons(h).pc = "off"
    BY TwoRoles DEF Init, SubmitterInit, Off, Cons
  <2> QED BY <2>1, <2>2 DEF SweepCovers, Sweeping
<1>2. Inv /\ WorkersShaped /\ (\A h \in Hosts : SweepCovers(h)) /\ [Next]_vars
      => (\A h \in Hosts : SweepCovers(h))'
  BY SweepCoversNext DEF Alone
<1> QED BY <1>1, <1>2, InvHolds, WorkersShapedHolds, PTL DEF Spec

\* With one host and no failing statements, a worker that has exited leaves no
\* unhashed row in processing, unless the host has died: what the cancelled
\* producer could not give back is on the list of the sweep.
THEOREM NoOrphansHolds == ASSUME Alone, MaxFaults = 0 PROVE Spec => []NoOrphans
<1>1. (\A h \in Hosts : SweepCovers(h)) => NoOrphans
  <2>1. \A h \in Hosts : (\A r \in Roles : At(<<h, r>>, "off")) => Cons(h).pc = "off"
    BY DEF Roles, At, Cons, Consumer
  <2> QED BY <2>1 DEF SweepCovers, NoOrphans
<1> QED BY <1>1, SweepCoversHolds, PTL

-----------------------------------------------------------------------------
(* One broadcast per request.                                              *)

\* What a broadcast means for the row and for the worker.
SettledFor(h, t) ==
  Broadcast(t) => /\ rows[t].status \notin {"absent", "queued"} /\ rows[t].hash # None
                  /\ LetGo(h, t)

Hands(h) ==
  /\ QueuedUnhashed /\ CopiesUnhashed(h) /\ HeldOnce(h)
  /\ \A t \in Txns : SettledFor(h, t)

\* The requests that the worker speaks of are the sender's.
LEMMA HandTxns ==
  ASSUME WorkInv, NEW h \in Hosts
  PROVE  /\ Prod(h).pc \in Procedures \cup {"load", "prepare", "push"} => Prod(h).rec.txn \in Txns
         /\ Cons(h).pc \in Procedures \cup {"persist", "submit", "mark"} => Cons(h).rec.txn \in Txns
         /\ \A i \in 1 .. Len(chan[h]) : chan[h][i].rec.txn \in Txns
         /\ Prod(h).pc \in {"push"} => Prod(h).rec.seq # None
         /\ Cons(h).pc \in {"persist", "submit", "mark"} =>
              Cons(h).hash \in Hashes /\ Cons(h).hash.txn = Cons(h).rec.txn
<1>1. \A rec : Sound(rec) => rec.txn \in Txns
  BY DEF Sound, Records
<1>2. \A rec, hash : Signed(rec, hash) => /\ rec.txn \in Txns /\ rec.seq # None
                                          /\ hash \in Hashes /\ hash.txn = rec.txn
  BY <1>1 DEF Signed
<1>3. \A i \in 1 .. Len(chan[h]) : Signed(chan[h][i].rec, chan[h][i].hash)
  BY DEF WorkInv, ChanInv, ChansSound
<1>4. /\ Prod(h).pc \in Procedures \cup {"load", "prepare"} => Sound(Prod(h).rec)
      /\ Prod(h).pc = "push" => Signed(Prod(h).rec, Prod(h).hash)
      /\ Cons(h).pc \in Procedures => Sound(Cons(h).rec)
      /\ Cons(h).pc \in {"persist", "submit", "mark"} => Signed(Cons(h).rec, Cons(h).hash)
  BY TwoRoles, Held DEF At, Rec, Prod, Cons
<1> QED BY <1>1, <1>2, <1>3, <1>4

LEMMA SteadyFailures ==
  ASSUME Steady, NothingExpires, WorkInv, NEW a \in Actors, actor[a].pc = "prepare"
  PROVE  PrepareFailures(a) = {"requeue"}
<1>1. Rec(a).txn \in Txns
  BY Held DEF At, Sound, Records
<1> QED BY <1>1 DEF PrepareFailures, Expired, Steady, NothingExpires

\* The goroutines keep to the parts of their text that the steady pipeline
\* comes to.
LEMMA ProducerSteady ==
  ASSUME Steady, NothingExpires, WorkInv, NEW h \in Hosts, Shape(h), SteadyShape(h),
         Procedure(Producer(h)) \/ Produce(Producer(h))
  PROVE  SteadyShape(h)' /\ Cons(h)' = Cons(h)
<1> DEFINE p == Producer(h)
           c == Consumer(h)
<1>1. p \in Actors /\ c \in Actors /\ p # c
  BY TwoRoles
<1>2. actor[p].pc \in Procedures => actor[p].pc \in {"requeue", "release"}
                                   /\ actor[p].ret \in {"off", "claim"}
  BY DEF Shape, ProducerShape, SteadyShape, Prod, Procedures
<1>3. /\ OthersStay(p)
      /\ actor'[p].pc \in {"off", "claim", "load", "prepare", "push", "requeue", "release"}
  BY <1>1, <1>2, SteadyFailures, ProcedureEffects, ProduceEffects
     DEF WorkInv, Procedure, Procedures, Produce, Remains, ComesBack, Departs, Becomes
<1> QED BY <1>1, <1>3 DEF OthersStay, SteadyShape, Prod, Cons

LEMMA ConsumerSteady ==
  ASSUME Steady, NothingExpires, WorkInv, NEW h \in Hosts, Shape(h), SteadyShape(h),
         Procedure(Consumer(h)) \/ Consume(Consumer(h))
  PROVE  SteadyShape(h)' /\ Prod(h)' = Prod(h)
<1> DEFINE p == Producer(h)
           c == Consumer(h)
<1>1. p \in Actors /\ c \in Actors /\ p # c
  BY TwoRoles
<1>2. actor[c].pc \in Procedures => actor[c].pc \notin {"fail", "shift", "notify"}
                                   /\ actor[c].ret \in {"stop", "drain", "sweep"}
  BY DEF Shape, ConsumerShape, SteadyShape, Sweeping, Cons
<1>3. actor[c].pc = "submit" => ~RetriesOver(actor[c].rec.txn)
  BY HandTxns DEF RetriesOver, NothingExpires, Cons
<1>4. OthersStay(c) /\ actor'[c].pc \notin {"fail", "shift", "notify"}
  BY <1>1, <1>2, <1>3, ProcedureEffects, ConsumeEffects
     DEF WorkInv, Procedure, Procedures, Consume, Remains, ComesBack, Departs, Becomes
<1> QED BY <1>1, <1>4 DEF OthersStay, SteadyShape, Prod, Cons

\* The producer's steps, as far as they can disturb what is held.
LEMMA ProducerMoves ==
  ASSUME Steady, NothingExpires, WorkInv, NEW h \in Hosts, Shape(h), SteadyShape(h),
         CopiesUnhashed(h), Procedure(Producer(h)) \/ Produce(Producer(h))
  PROVE
  /\ accepted' = accepted /\ Cons(h)' = Cons(h) /\ Prod(h)'.todo = {}
  /\ \* The record goes back to the queue.
     \/ /\ ProducerBusy(h) /\ ~ProducerBusy(h)' /\ chan' = chan
        /\ Prod(h)'.pc # "load"
        /\ Prod(h)'.rec.hash = None \/ Prod(h)'.pc \in {"off", "claim"}
        /\ \A t \in Txns :
             \/ rows'[t] = rows[t]
             \/ /\ t = Prod(h).rec.txn
                /\ rows'[t].status = "queued" /\ rows'[t].hash = None
     \* A row is claimed.
     \/ /\ ~ProducerBusy(h) /\ Prod(h)'.pc = "load" /\ chan' = chan
        /\ \E u \in Txns :
             /\ rows[u].status = "queued"
             /\ Prod(h)'.rec.txn = u /\ Prod(h)'.rec.hash = rows[u].hash
             /\ rows'[u].status = "processing" /\ rows'[u].hash = rows[u].hash
             /\ \A t \in Txns : t # u => rows'[t] = rows[t]
     \* The record goes into the channel.
     \/ /\ Prod(h).pc = "push" /\ Prod(h)'.pc = "claim"
        /\ Push(Producer(h)) /\ rows' = rows
     \* The record stays in hand, or is left as it is.
     \/ /\ rows' = rows /\ chan' = chan /\ Prod(h)'.pc # "load"
        /\ \/ Prod(h)'.pc \in {"off", "claim"}
           \/ /\ Prod(h).pc = "load" /\ Prod(h)'.pc = "prepare"
              /\ Prod(h)'.rec = Row(Prod(h).rec.txn)
           \/ /\ Prod(h).pc \in {"prepare", "push"} /\ ProducerBusy(h)'
              /\ Prod(h)'.rec = Prod(h).rec
<1> DEFINE p == Producer(h)
           c == Consumer(h)
<1>1. p \in Actors /\ c \in Actors /\ p # c /\ Prod(h) = actor[p] /\ Prod(h)' = actor'[p]
  BY TwoRoles DEF Prod
<1>2. accepted' = accepted /\ Cons(h)' = Cons(h)
  BY <1>1, ProducerSteady, ProcedureQuiet
     DEF Produce, Claim, StopProducing, Load, Unprepared, Sign, Push, GiveUpPush, nodeVars
<1>3. actor[p].pc \in Procedures => actor[p].pc \in {"requeue", "release"}
                                   /\ actor[p].ret \in {"off", "claim"}
  BY DEF Shape, ProducerShape, SteadyShape, Prod, Procedures
<1>4. actor[p].todo = {}
  BY DEF Shape, ProducerShape, SteadyShape, Prod
<1>5. actor[p].pc \notin {"off", "claim"} => actor[p].rec.hash = None
  BY <1>1 DEF CopiesUnhashed
<1>6. CASE Requeue(p)
  <2>1. /\ actor[p].pc = "requeue" /\ chan' = chan /\ actor'[p].todo = {}
        /\ \/ actor'[p].pc = "release" /\ actor'[p].rec = actor[p].rec
           \/ actor'[p].pc \in {"off", "claim"}
    BY <1>1, <1>3, <1>4, <1>6, ProcedureEffects
       DEF WorkInv, Requeue, Procedures, ComesBack, Remains, Becomes
  <2>2. Sound(actor[p].rec)
    BY <1>1, <2>1, Held DEF At, Rec, Procedures
  <2>3. UNCHANGED storeVars \/ Update(Requeued(actor[p].rec))
    BY <1>6 DEF Requeue, Rec
  <2>4. /\ Requeued(actor[p].rec).hash = None
        /\ Requeued(actor[p].rec).txn = actor[p].rec.txn
    BY <1>5, <2>1, <2>2 DEF Sound, Records, Requeued
  <2>5. \A t \in Txns :
             \/ rows'[t] = rows[t]
             \/ /\ t = actor[p].rec.txn
                /\ rows'[t].status = "queued" /\ rows'[t].hash = None
    BY <2>2, <2>3, <2>4, RequeuedRow, WrittenFields DEF storeVars, WorkInv
  <2> QED BY <1>1, <1>2, <1>5, <2>1, <2>5 DEF ProducerBusy
<1>7. CASE Claim(p)
  <2>1. PICK u \in Txns : /\ ClaimOldest(u)
                          /\ actor[p].pc = "claim" /\ actor'[p].pc = "load"
                          /\ actor'[p].rec.txn = u /\ actor'[p].rec.hash = rows[u].hash
                          /\ actor'[p].todo = {}
    BY <1>1, <1>4, <1>7, ProduceEffects DEF WorkInv, Becomes
  <2>2. /\ rows[u].status = "queued"
        /\ rows'[u].status = "processing" /\ rows'[u].hash = rows[u].hash
        /\ \A t \in Txns : t # u => rows'[t] = rows[t]
    BY <2>1, ClaimRow DEF WorkInv
  <2>3. chan' = chan
    BY <1>7 DEF Claim
  <2> QED BY <1>1, <1>2, <2>1, <2>2, <2>3 DEF ProducerBusy
<1>8. CASE Push(p)
  BY <1>1, <1>2, <1>8, ProduceEffects DEF WorkInv, Departs, Becomes, Push, storeVars
<1>9. CASE Release(p) \/ StopProducing(p) \/ Load(p) \/ Unprepared(p) \/ Sign(p) \/ GiveUpPush(p)
  <2>1. rows' = rows /\ chan' = chan
    BY <1>9 DEF Release, StopProducing, Load, Unprepared, Sign, GiveUpPush, storeVars,
                ReleaseSequence
  <2>2. /\ actor'[p].todo = {} /\ actor'[p].pc # "load"
        /\ \/ actor'[p].pc \in {"off", "claim"}
           \/ /\ actor[p].pc = "load" /\ actor'[p].pc = "prepare"
              /\ actor'[p].rec = Row(actor[p].rec.txn)
           \/ /\ actor[p].pc \in {"prepare", "push"}
              /\ actor'[p].pc \in {"push", "requeue"} /\ actor'[p].rec = actor[p].rec
    BY <1>1, <1>3, <1>4, <1>9, SteadyFailures, ProcedureEffects, ProduceEffects
       DEF WorkInv, Procedures, ComesBack, Departs, Becomes
  <2> QED BY <1>1, <1>2, <2>1, <2>2 DEF ProducerBusy
<1>10. Procedure(p) => Requeue(p) \/ Release(p)
  BY <1>1, <1>3, ProcedureEffects DEF Procedure, WorkInv, Procedures
<1> QED BY <1>6, <1>7, <1>8, <1>9, <1>10 DEF Produce

\* Invariants that the producer cannot disturb when it neither moves the
\* channel nor touches a row that the others hold.
LEMMA HeldOnceStays ==
  ASSUME NEW h \in Hosts, HeldOnce(h), chan'[h] = chan[h], Cons(h)' = Cons(h),
         ProducerBusy(h)' => /\ Claimed(Prod(h).rec.txn)'
                             /\ Sending(h) => ~\E i \in 1 .. Len(chan[h]) :
                                                Prod(h)'.rec.txn = chan[h][i].rec.txn
                             /\ ConsumerBusy(h) => Prod(h)'.rec.txn # Cons(h).rec.txn,
         Sending(h) => /\ \A i \in 1 .. Len(chan[h]) :
                            rows'[chan[h][i].rec.txn] = rows[chan[h][i].rec.txn]
                       /\ Cons(h).pc \in {"persist", "submit"} =>
                            rows'[Cons(h).rec.txn] = rows[Cons(h).rec.txn]
  PROVE  HeldOnce(h)'
BY DEF HeldOnce, Sending, ConsumerBusy, Claimed, Persisted

LEMMA ProducerHands ==
  ASSUME Steady, NothingExpires, WorkInv, NEW h \in Hosts, Shape(h), HashInHand(h),
         SteadyShape(h), Hands(h),
         Procedure(Producer(h)) \/ Produce(Producer(h))
  PROVE  Hands(h)'
<1>0. /\ accepted' = accepted /\ Cons(h)' = Cons(h) /\ Prod(h)'.todo = {}
      /\ QueuedUnhashed /\ CopiesUnhashed(h) /\ HeldOnce(h)
      /\ \A t \in Txns : SettledFor(h, t)
      /\ \A t : Broadcast(t)' <=> Broadcast(t)
  BY ProducerMoves DEF Hands, Broadcast
<1>1. CASE /\ ProducerBusy(h) /\ ~ProducerBusy(h)' /\ chan' = chan
           /\ Prod(h)'.pc # "load"
           /\ Prod(h)'.rec.hash = None \/ Prod(h)'.pc \in {"off", "claim"}
           /\ \A t \in Txns :
                \/ rows'[t] = rows[t]
                \/ /\ t = Prod(h).rec.txn
                   /\ rows'[t].status = "queued" /\ rows'[t].hash = None
  <2>1. QueuedUnhashed'
    BY <1>0, <1>1 DEF QueuedUnhashed
  <2>2. CopiesUnhashed(h)'
    BY <1>0, <1>1 DEF CopiesUnhashed
  <2>3. HeldOnce(h)'
    <3>1. ASSUME Sending(h) PROVE
            /\ \A i \in 1 .. Len(chan[h]) : rows'[chan[h][i].rec.txn] = rows[chan[h][i].rec.txn]
            /\ Cons(h).pc \in {"persist", "submit"} =>
                 rows'[Cons(h).rec.txn] = rows[Cons(h).rec.txn]
      BY <1>0, <1>1, <3>1, HandTxns DEF HeldOnce, ConsumerBusy
    <3> QED BY <1>0, <1>1, <3>1, HeldOnceStays
  <2>4. ASSUME NEW t \in Txns PROVE SettledFor(h, t)'
    BY <1>0, <1>1 DEF SettledFor, LetGo
  <2> QED BY <2>1, <2>2, <2>3, <2>4 DEF Hands
<1>2. CASE /\ ~ProducerBusy(h) /\ Prod(h)'.pc = "load" /\ chan' = chan
           /\ \E u \in Txns :
                /\ rows[u].status = "queued"
                /\ Prod(h)'.rec.txn = u /\ Prod(h)'.rec.hash = rows[u].hash
                /\ rows'[u].status = "processing" /\ rows'[u].hash = rows[u].hash
                /\ \A t \in Txns : t # u => rows'[t] = rows[t]
  <2>1. PICK u \in Txns :
                /\ rows[u].status = "queued"
                /\ Prod(h)'.rec.txn = u /\ Prod(h)'.rec.hash = rows[u].hash
                /\ rows'[u].status = "processing" /\ rows'[u].hash = rows[u].hash
                /\ \A t \in Txns : t # u => rows'[t] = rows[t]
    BY <1>2
  <2>2. rows[u].hash = None /\ ~Broadcast(u)
    BY <1>0, <2>1 DEF QueuedUnhashed, SettledFor
  <2>3. QueuedUnhashed'
    BY <1>0, <2>1 DEF QueuedUnhashed
  <2>4. CopiesUnhashed(h)'
    BY <1>0, <1>2, <2>1, <2>2 DEF CopiesUnhashed
  <2>5. ASSUME Sending(h) PROVE
          /\ \A i \in 1 .. Len(chan[h]) : chan[h][i].rec.txn # u
          /\ ConsumerBusy(h) => Cons(h).rec.txn # u
    <3>1. Cons(h).pc = "mark" => Broadcast(Cons(h).rec.txn)
      BY HandTxns DEF HashInHand, Broadcast
    <3> QED BY <1>0, <2>1, <2>2, <2>5, <3>1 DEF HeldOnce, Claimed, Persisted, ConsumerBusy
  <2>6. HeldOnce(h)'
    <3>1. Claimed(Prod(h).rec.txn)'
      BY <2>1, <2>2 DEF Claimed
    <3>2. ConsumerBusy(h) => Sending(h)
      BY DEF ConsumerBusy, Sending
    <3>3. Sending(h) =>
            /\ \A i \in 1 .. Len(chan[h]) : rows'[chan[h][i].rec.txn] = rows[chan[h][i].rec.txn]
            /\ Cons(h).pc \in {"persist", "submit"} =>
                 rows'[Cons(h).rec.txn] = rows[Cons(h).rec.txn]
      BY <2>1, <2>5, HandTxns DEF ConsumerBusy
    <3> QED BY <1>0, <1>2, <2>1, <2>5, <3>1, <3>2, <3>3, HeldOnceStays
  <2>7. ASSUME NEW t \in Txns PROVE SettledFor(h, t)'
    BY <1>0, <1>2, <2>1, <2>2 DEF SettledFor, LetGo
  <2> QED BY <2>3, <2>4, <2>6, <2>7 DEF Hands
<1>3. CASE /\ Prod(h).pc = "push" /\ Prod(h)'.pc = "claim"
           /\ Push(Producer(h)) /\ rows' = rows
  <2>1. /\ Len(chan[h]) \in Nat /\ Len(chan'[h]) = Len(chan[h]) + 1
        /\ \A i \in 1 .. Len(chan[h]) : chan'[h][i] = chan[h][i]
        /\ chan'[h][Len(chan[h]) + 1].rec = Prod(h).rec
    BY <1>3, PushedItem
  <2>2. \A i \in 1 .. Len(chan'[h]) : i \in 1 .. Len(chan[h]) \/ i = Len(chan[h]) + 1
    BY <2>1
  <2>3. ~ProducerBusy(h)' /\ ProducerBusy(h) /\ Prod(h).rec.hash = None
    BY <1>0, <1>3 DEF ProducerBusy, CopiesUnhashed
  <2>4. QueuedUnhashed'
    BY <1>0, <1>3 DEF QueuedUnhashed
  <2>5. CopiesUnhashed(h)'
    BY <1>0, <1>3, <2>1, <2>2, <2>3 DEF CopiesUnhashed
  <2>6. HeldOnce(h)'
    <3> SUFFICES ASSUME Sending(h) PROVE HeldOnce(h)'
      BY <1>0 DEF HeldOnce, Sending
    <3>1. ASSUME NEW i \in 1 .. Len(chan'[h])
          PROVE  /\ Claimed(chan'[h][i].rec.txn)
                 /\ ConsumerBusy(h) => Cons(h).rec.txn # chan'[h][i].rec.txn
                 /\ \A j \in 1 .. Len(chan'[h]) :
                      chan'[h][i].rec.txn = chan'[h][j].rec.txn => i = j
      BY <1>0, <2>1, <2>2, <2>3 DEF HeldOnce
    <3> QED BY <1>0, <1>3, <2>3, <3>1 DEF HeldOnce, Sending, ConsumerBusy, Claimed, Persisted
  <2>7. ASSUME NEW t \in Txns PROVE SettledFor(h, t)'
    BY <1>0, <1>3, <2>1, <2>2, <2>3 DEF SettledFor, LetGo
  <2> QED BY <2>4, <2>5, <2>6, <2>7 DEF Hands
<1>4. CASE /\ rows' = rows /\ chan' = chan /\ Prod(h)'.pc # "load"
           /\ \/ Prod(h)'.pc \in {"off", "claim"}
              \/ /\ Prod(h).pc = "load" /\ Prod(h)'.pc = "prepare"
                 /\ Prod(h)'.rec = Row(Prod(h).rec.txn)
              \/ /\ Prod(h).pc \in {"prepare", "push"} /\ ProducerBusy(h)'
                 /\ Prod(h)'.rec = Prod(h).rec
  <2>1. ProducerBusy(h)' => /\ ProducerBusy(h) /\ Prod(h)'.rec.txn = Prod(h).rec.txn
    BY <1>4 DEF ProducerBusy, Row
  <2>2. Prod(h)'.pc \notin {"off", "claim"} => Prod(h)'.rec.hash = None
    BY <1>0, <1>4 DEF CopiesUnhashed, Row
  <2>3. QueuedUnhashed'
    BY <1>0, <1>4 DEF QueuedUnhashed
  <2>4. CopiesUnhashed(h)'
    BY <1>0, <1>4, <2>2 DEF CopiesUnhashed
  <2>5. HeldOnce(h)'
    BY <1>0, <1>4, <2>1 DEF HeldOnce, Sending, ConsumerBusy, Claimed, Persisted
  <2>6. ASSUME NEW t \in Txns PROVE SettledFor(h, t)'
    BY <1>0, <1>4, <2>1 DEF SettledFor, LetGo
  <2> QED BY <2>3, <2>4, <2>5, <2>6 DEF Hands
<1> QED BY <1>0, <1>1, <1>2, <1>3, <1>4, ProducerMoves

\* What the consumer may hold, seen as a set of records.
LEMMA ByWaiting ==
  ASSUME NEW h \in Hosts
  PROVE  /\ CopiesUnhashed(h) =>
              /\ \A rec \in Waiting(h) \cup Cons(h).todo : rec.hash = None
              /\ Cons(h).pc \in Procedures \cup {"persist"} => Cons(h).rec.hash = None
         /\ \A t : LetGo(h, t) =>
              /\ \A rec \in Waiting(h) \cup Cons(h).todo : rec.txn # t
              /\ Cons(h).pc \in Procedures \cup {"persist", "submit"} => Cons(h).rec.txn # t
BY DEF CopiesUnhashed, LetGo, Waiting

\* The consumer's steps on and after a failure.
LEMMA ConsumerFails ==
  ASSUME Steady, NothingExpires, WorkInv, NEW h \in Hosts, Shape(h), SteadyShape(h),
         CopiesUnhashed(h), Procedure(Consumer(h)) \/ Consume(Consumer(h)),
         ~Sending(h)'
  PROVE
  /\ accepted' = accepted /\ Cons(h)'.pc \notin {"persist", "submit"}
  /\ Waiting(h)' \subseteq Waiting(h)
  /\ \A t \in Txns :
       \/ rows'[t] = rows[t]
       \/ /\ rows'[t].status = "queued" /\ rows'[t].hash = None
          /\ \/ Cons(h).pc \in Procedures /\ Cons(h).rec.txn = t
             \/ \E rec \in Cons(h).todo : rec.txn = t
  /\ Cons(h)'.pc \in Procedures =>
       /\ Cons(h)'.rec.hash = None
       /\ \/ /\ Cons(h).pc \in Procedures \cup {"persist", "submit"}
             /\ Cons(h)'.rec.txn = Cons(h).rec.txn
          \/ Cons(h)'.rec \in Waiting(h) \cup Cons(h).todo
  /\ \A rec \in Cons(h)'.todo : rec \in Cons(h).todo \/ \E t \in Recoverable : rec = Row(t)
<1> DEFINE c == Consumer(h)
<1>1. c \in Actors /\ c[1] = h /\ Cons(h) = actor[c] /\ Cons(h)' = actor'[c]
  BY TwoRoles DEF Consumer, Cons
<1>2. /\ \A rec \in Waiting(h) \cup actor[c].todo : rec.hash = None
      /\ actor[c].pc \in Procedures \cup {"persist"} => actor[c].rec.hash = None
  BY <1>1, ByWaiting
<1>3. actor[c].pc \in Procedures => /\ actor[c].pc \notin {"fail", "shift", "notify"}
                                   /\ actor[c].ret \notin Procedures \cup {"persist", "submit"}
  BY <1>1 DEF Shape, ConsumerShape, SteadyShape, Sweeping, Procedures
<1>4. CASE Procedure(c)
  <2>1. UNCHANGED <<nodeVars, chan>> /\ actor[c].pc \in Procedures
    BY <1>1, <1>4, ProcedureQuiet, ProcedureEffects DEF WorkInv, Procedure, Procedures
  <2>2. /\ actor'[c].pc \notin {"persist", "submit"}
        /\ actor'[c].pc \in Procedures => actor'[c].rec = actor[c].rec
    BY <1>1, <1>3, <1>4, ProcedureEffects
       DEF WorkInv, Procedure, Procedures, ComesBack, Remains, Becomes
  <2>3. \A rec \in actor'[c].todo : rec \in actor[c].todo \/ \E t \in Recoverable : rec = Row(t)
    BY <1>1, <1>4, ProcedureEffects
       DEF WorkInv, Procedure, ComesBack, Remains, Becomes
  <2>4. ASSUME NEW t \in Txns, rows'[t] # rows[t]
        PROVE  /\ rows'[t].status = "queued" /\ rows'[t].hash = None
               /\ actor[c].rec.txn = t \/ \E rec \in actor[c].todo : rec.txn = t
    <3>1. \A rec : Sound(rec) => Requeued(rec).hash = rec.hash /\ Requeued(rec).txn = rec.txn
      BY DEF Sound, Records, Requeued
    <3>2. Sound(actor[c].rec) /\ \A rec \in actor[c].todo : Sound(rec)
      BY <1>1, <2>1, Held DEF At, Rec
    <3> QED BY <1>1, <1>2, <1>3, <1>4, <2>1, <2>4, <3>1, <3>2, ProcedureRow, WrittenFields
  <2> QED BY <1>1, <1>2, <2>1, <2>2, <2>3, <2>4, WaitingRecords DEF nodeVars
<1>5. CASE Consume(c)
  <2>1. rows' = rows
    BY <1>1, <1>5, ConsumeEffects
       DEF Consume, Sending, WorkInv, Becomes, Departs, Remains, storeVars,
           Receive, SubmitAccepted, SubmitMisnumbered, SubmitError, StopPipeline, Drain,
           DrainAccount, DrainReconcile, Finish, SweepList, Sweep, Exit, ReconcileSequence
  <2>2. accepted' = accepted
    BY <1>1, <1>5, ConsumeEffects
       DEF Consume, Sending, WorkInv, Becomes, Departs, Remains, nodeVars, Steady,
           Receive, PersistHash, MarkSubmitted, SubmitMisnumbered, SubmitError, StopPipeline, Drain,
           DrainAccount, DrainReconcile, Finish, SweepList, Sweep, Exit
  <2>3. Waiting(h)' \subseteq Waiting(h) /\ (Drain(c) => Head(chan[h]).rec \in Waiting(h))
    <3>1. chan' = chan \/ Receive(c) \/ Drain(c)
      BY <1>5 DEF Consume, SubmitAccepted, PersistHash, MarkSubmitted, SubmitMisnumbered,
           SubmitError, StopPipeline, DrainAccount, DrainReconcile, Finish, SweepList, Sweep, Exit
    <3>2. Receive(c) \/ Drain(c) => chan[h] # <<>> /\ chan' = [chan EXCEPT ![h] = Tail(@)]
      BY <1>1 DEF Receive, Drain
    <3> QED BY <3>1, <3>2, WaitingRecords, PoppedWaiting
  <2>4. /\ actor'[c].pc \notin {"persist", "submit"}
        /\ \A rec \in actor'[c].todo : rec \in actor[c].todo \/ \E t \in Recoverable : rec = Row(t)
    <3>1. \/ actor'[c].todo \subseteq actor[c].todo
          \/ actor'[c].todo = {Row(t) : t \in Recoverable}
      BY <1>1, <1>5, ConsumeEffects DEF WorkInv, Consume, Remains, Departs, Becomes
    <3> QED BY <1>1, <3>1 DEF Sending
  <2>5. ASSUME actor'[c].pc \in Procedures
        PROVE  \/ /\ actor[c].pc \in {"persist", "submit"}
                  /\ actor'[c].rec = [actor[c].rec EXCEPT !.hash = None]
               \/ actor'[c].rec \in Waiting(h) \cup actor[c].todo
    <3>1. PersistHash(c) \/ SubmitMisnumbered(c) \/ SubmitError(c) \/ Drain(c) \/ Sweep(c)
      BY <1>1, <1>5, <2>5, ConsumeEffects
         DEF WorkInv, Consume, Remains, Departs, Becomes, Procedures
    <3>2. PersistHash(c) \/ SubmitMisnumbered(c) \/ SubmitError(c) =>
            /\ actor[c].pc \in {"persist", "submit"}
            /\ actor'[c].rec = [actor[c].rec EXCEPT !.hash = None]
      BY <1>1, <2>4, <2>5, ConsumeEffects DEF WorkInv, Departs, Becomes, Procedures
    <3>3. Drain(c) => actor'[c].rec \in Waiting(h)
      BY <1>1, <2>3, ConsumeEffects DEF WorkInv, Becomes
    <3>4. Sweep(c) => actor'[c].rec \in actor[c].todo
      BY <1>1, ConsumeEffects DEF WorkInv, Becomes
    <3> QED BY <3>1, <3>2, <3>3, <3>4
  <2>6. actor[c].pc \in {"persist", "submit"} => actor[c].rec \in Records
    BY <1>1, Held DEF At, Rec, Signed, Sound
  <2>7. actor[c].pc \in {"persist", "submit"} =>
          /\ [actor[c].rec EXCEPT !.hash = None].hash = None
          /\ [actor[c].rec EXCEPT !.hash = None].txn = actor[c].rec.txn
    BY <2>6 DEF Records
  <2> QED BY <1>1, <1>2, <2>1, <2>2, <2>3, <2>4, <2>5, <2>7
<1> QED BY <1>4, <1>5

LEMMA ConsumerStops ==
  ASSUME Steady, NothingExpires, WorkInv, NEW h \in Hosts, Shape(h), SteadyShape(h), Hands(h),
         Procedure(Consumer(h)) \/ Consume(Consumer(h)),
         ~Sending(h)'
  PROVE  Hands(h)'
<1>1. /\ QueuedUnhashed /\ CopiesUnhashed(h)
      /\ \A t \in Txns : SettledFor(h, t)
      /\ Prod(h)' = Prod(h)
  BY ConsumerSteady DEF Hands
<1>2. /\ accepted' = accepted /\ Cons(h)'.pc \notin {"persist", "submit"}
      /\ Waiting(h)' \subseteq Waiting(h)
  BY <1>1, ConsumerFails
<1>3. \A t \in Txns :
        \/ rows'[t] = rows[t]
        \/ /\ rows'[t].status = "queued" /\ rows'[t].hash = None
           /\ \/ Cons(h).pc \in Procedures /\ Cons(h).rec.txn = t
              \/ \E rec \in Cons(h).todo : rec.txn = t
  BY <1>1, ConsumerFails
<1>4. Cons(h)'.pc \in Procedures =>
        /\ Cons(h)'.rec.hash = None
        /\ \/ /\ Cons(h).pc \in Procedures \cup {"persist", "submit"}
              /\ Cons(h)'.rec.txn = Cons(h).rec.txn
           \/ Cons(h)'.rec \in Waiting(h) \cup Cons(h).todo
  BY <1>1, ConsumerFails
<1>5. \A rec \in Cons(h)'.todo : rec \in Cons(h).todo \/ \E t \in Recoverable : rec = Row(t)
  BY <1>1, ConsumerFails
<1>6. \A i \in 1 .. Len(chan'[h]) : chan'[h][i].rec \in Waiting(h)
  BY <1>2 DEF Waiting
<1>7. QueuedUnhashed'
  BY <1>1, <1>3 DEF QueuedUnhashed
<1>8. CopiesUnhashed(h)'
  <2>1. \A rec \in Waiting(h) \cup Cons(h)'.todo : rec.hash = None
    BY <1>1, <1>5, ByWaiting DEF Recoverable, Row
  <2>2. Prod(h).pc = "load" => rows'[Prod(h).rec.txn].hash = None
    BY <1>1, <1>3, HandTxns DEF CopiesUnhashed
  <2>3. /\ Prod(h)'.pc \notin {"off", "claim"} => Prod(h)'.rec.hash = None
        /\ Prod(h)'.pc = "load" => rows'[Prod(h)'.rec.txn].hash = None
    BY <1>1, <2>2 DEF CopiesUnhashed
  <2> QED BY <1>2, <1>4, <1>6, <2>1, <2>3 DEF CopiesUnhashed
<1>9. HeldOnce(h)'
  BY DEF HeldOnce
<1>10. ASSUME NEW t \in Txns, Broadcast(t)'
       PROVE  SettledFor(h, t)'
  <2>1. /\ rows[t].status \notin {"absent", "queued"} /\ rows[t].hash # None /\ LetGo(h, t)
    BY <1>1, <1>2, <1>10 DEF SettledFor, Broadcast
  <2>2. /\ \A rec \in Waiting(h) \cup Cons(h).todo : rec.txn # t
        /\ Cons(h).pc \in Procedures \cup {"persist", "submit"} => Cons(h).rec.txn # t
        /\ ProducerBusy(h) => Prod(h).rec.txn # t
    BY <2>1, ByWaiting DEF LetGo
  <2>3. rows'[t] = rows[t]
    BY <1>3, <2>2
  <2>4. \A rec \in Cons(h)'.todo : rec.txn # t
    BY <1>5, <2>1, <2>2 DEF Recoverable, Row
  <2>5. ProducerBusy(h)' => Prod(h)'.rec.txn # t
    BY <1>1, <2>2 DEF ProducerBusy
  <2>6. LetGo(h, t)'
    BY <1>2, <1>4, <1>6, <2>2, <2>4, <2>5 DEF LetGo
  <2> QED BY <2>1, <2>3, <2>6 DEF SettledFor
<1> QED BY <1>7, <1>8, <1>9, <1>10 DEF Hands, SettledFor

\* The consumer's steps on the way to the broadcast.
LEMMA ConsumerProceeds ==
  ASSUME WorkInv, NEW h \in Hosts, Shape(h), HashInHand(h), NoneRevived(h),
         Procedure(Consumer(h)) \/ Consume(Consumer(h)), Sending(h)'
  PROVE
  /\ Sending(h) /\ Cons(h)'.todo = {} /\ Prod(h)' = Prod(h)
  /\ \* A record is received.
     \/ /\ Cons(h).pc = "receive" /\ Cons(h)'.pc = "persist"
        /\ chan[h] # <<>> /\ chan' = [chan EXCEPT ![h] = Tail(@)]
        /\ Cons(h)'.rec = Head(chan[h]).rec
        /\ UNCHANGED <<rows, accepted>>
     \* Its hash is persisted.
     \/ /\ Cons(h).pc = "persist" /\ Cons(h)'.pc = "submit"
        /\ Cons(h)'.rec.txn = Cons(h).rec.txn
        /\ rows'[Cons(h).rec.txn].status = "processing" /\ rows'[Cons(h).rec.txn].hash # None
        /\ \A t \in Txns : t # Cons(h).rec.txn => rows'[t] = rows[t]
        /\ UNCHANGED <<chan, accepted>>
     \* The node accepts it.
     \/ /\ Cons(h).pc = "submit" /\ Cons(h)'.pc = "mark" /\ Cons(h)'.rec = Cons(h).rec
        /\ accepted' = accepted \cup {Cons(h).hash}
        /\ UNCHANGED <<chan, rows>>
     \* The row is marked.
     \/ /\ Cons(h).pc = "mark" /\ Cons(h)'.pc = "receive"
        /\ rows'[Cons(h).rec.txn].status = "submitted" /\ rows'[Cons(h).rec.txn].hash # None
        /\ \A t \in Txns : t # Cons(h).rec.txn => rows'[t] = rows[t]
        /\ UNCHANGED <<chan, accepted>>
<1> DEFINE c == Consumer(h)
<1>1. /\ c \in Actors /\ c[1] = h /\ Cons(h) = actor[c] /\ Cons(h)' = actor'[c]
      /\ Producer(h) \in Actors /\ Producer(h) # c
  BY TwoRoles DEF Consumer, Cons
<1>2. ~Procedure(c)
  <2> SUFFICES ASSUME Procedure(c) PROVE FALSE
    OBVIOUS
  <2>1. actor[c].pc \in Procedures
        /\ actor'[c].pc \in Procedures \cup {actor[c].ret}
    BY <1>1, ProcedureEffects
       DEF WorkInv, Procedure, Procedures, Remains, ComesBack, Becomes
  <2>2. actor[c].ret \in {"stop", "drain", "sweep"}
    BY <2>1 DEF Shape, ConsumerShape, Sweeping, Cons
  <2> QED BY <2>1, <2>2 DEF Sending, Cons, Procedures
<1>3. Receive(c) \/ PersistHash(c) \/ SubmitAccepted(c) \/ MarkSubmitted(c)
  BY <1>1, <1>2, ConsumeEffects
     DEF WorkInv, Consume, Sending, Cons, Departs, Remains, Becomes
<1>4. Sending(h) /\ OthersStay(c)
  BY <1>1, <1>3, ConsumeEffects DEF WorkInv, Sending, Cons, Departs, Remains, Becomes
<1>5. Prod(h)' = Prod(h) /\ actor[c].todo = {}
  BY <1>1, <1>4 DEF OthersStay, Prod, Shape, ConsumerShape, Sending, Sweeping
<1>6. CASE Receive(c)
  <2>1. /\ actor[c].pc = "receive" /\ actor'[c].pc = "persist" /\ actor'[c].todo = {}
        /\ actor'[c].rec = Head(chan[h]).rec
    BY <1>1, <1>5, <1>6, ConsumeEffects DEF WorkInv, Becomes
  <2>2. /\ chan[h] # <<>> /\ chan' = [chan EXCEPT ![h] = Tail(@)]
        /\ UNCHANGED <<rows, accepted>>
    BY <1>1, <1>6 DEF Receive, storeVars, nodeVars
  <2> QED BY <1>1, <1>4, <1>5, <2>1, <2>2
<1>7. CASE PersistHash(c)
  <2> DEFINE hashed == [actor[c].rec EXCEPT !.hash = actor[c].hash]
  <2>1. /\ actor[c].pc = "persist" /\ UNCHANGED <<chan, accepted>>
    BY <1>7 DEF PersistHash, At, nodeVars
  <2>2. Signed(actor[c].rec, actor[c].hash) /\ actor[c].rec \in Records
    BY <1>1, <2>1, Held DEF At, Rec, Signed, Sound
  <2>3. /\ StatusIs(hashed, "processing") /\ Update(hashed)
        /\ Becomes(c, "submit", hashed, actor[c].hash, actor[c].todo, actor[c].ret)
    BY <1>1, <1>7, ConsumeEffects DEF WorkInv, Sending, Departs, Becomes
  <2>4. /\ hashed \in Records /\ hashed.txn = actor[c].rec.txn /\ hashed.txn \in Txns
        /\ hashed.status = actor[c].rec.status
        /\ hashed.hash = actor[c].hash /\ hashed.hash # None
    BY <2>2, NoneAssumption DEF Signed, Sound, Records
  <2>5. hashed.status = "processing"
    <3>1. rows[actor[c].rec.txn].status = "processing"
      BY <2>3, <2>4 DEF StatusIs
    <3>2. actor[c].rec \in OnTheWay(h)
      BY <1>1, <2>1 DEF OnTheWay
    <3>3. actor[c].rec.status \notin Beyond
      BY <1>4, <3>1, <3>2 DEF NoneRevived, Beyond, Terminal
    <3>4. actor[c].rec.status \in Statuses /\ actor[c].rec.status \notin {"absent", "queued"}
      BY <2>2 DEF Signed, Sound, Records, Numbered
    <3> QED BY <2>4, <3>3, <3>4 DEF Statuses, Beyond, Terminal
  <2>6. /\ actor'[c].pc = "submit" /\ actor'[c].rec = hashed /\ actor'[c].todo = {}
    BY <1>5, <2>3 DEF Becomes
  <2> HIDE DEF hashed
  <2>7. /\ rows'[hashed.txn].status = "processing" /\ rows'[hashed.txn].hash # None
        /\ \A t \in Txns : t # hashed.txn => rows'[t] = rows[t]
    BY <2>3, <2>4, <2>5, UpdatedRow, WrittenFields DEF WorkInv
  <2> QED BY <1>1, <1>4, <1>5, <2>1, <2>4, <2>6, <2>7
<1>8. CASE SubmitAccepted(c)
  <2>1. /\ actor[c].pc = "submit" /\ actor'[c].pc = "mark" /\ actor'[c].rec = actor[c].rec
        /\ actor'[c].todo = {}
    BY <1>1, <1>5, <1>8, ConsumeEffects DEF WorkInv, Remains, Becomes
  <2>2. accepted' = accepted \cup {actor[c].hash} /\ UNCHANGED <<chan, rows>>
    BY <1>8 DEF SubmitAccepted, Accept, storeVars
  <2> QED BY <1>1, <1>4, <1>5, <2>1, <2>2
<1>9. CASE MarkSubmitted(c)
  <2> DEFINE marked == [actor[c].rec EXCEPT !.status = "submitted"]
  <2>1. /\ actor[c].pc = "mark" /\ UNCHANGED <<chan, accepted>>
    BY <1>9 DEF MarkSubmitted, At, nodeVars
  <2>2. Signed(actor[c].rec, actor[c].hash) /\ actor[c].rec \in Records
    BY <1>1, <2>1, Held DEF At, Rec, Signed, Sound
  <2>3. Update(marked) /\ Departs(c, "receive")
    BY <1>1, <1>9, ConsumeEffects DEF WorkInv, Sending, Departs, Becomes
  <2>4. /\ marked \in Records /\ marked.txn = actor[c].rec.txn /\ marked.txn \in Txns
        /\ marked.status = "submitted"
        /\ marked.hash = actor[c].hash /\ marked.hash # None
    BY <1>1, <2>1, <2>2, NoneAssumption DEF Signed, Sound, Records, Statuses, HashInHand
  <2>5. actor'[c].pc = "receive" /\ actor'[c].todo = {}
    BY <2>3 DEF Departs, Becomes
  <2> HIDE DEF marked
  <2>6. /\ rows'[marked.txn].status = "submitted" /\ rows'[marked.txn].hash # None
        /\ \A t \in Txns : t # marked.txn => rows'[t] = rows[t]
    BY <2>3, <2>4, UpdatedRow, WrittenFields DEF WorkInv
  <2> QED BY <1>1, <1>4, <1>5, <2>1, <2>4, <2>5, <2>6
<1> QED BY <1>3, <1>6, <1>7, <1>8, <1>9

LEMMA ConsumerSends ==
  ASSUME WorkInv, NEW h \in Hosts, Shape(h), HashInHand(h), NoneRevived(h), Hands(h),
         Procedure(Consumer(h)) \/ Consume(Consumer(h)), Sending(h)'
  PROVE  Hands(h)'
<1> DEFINE txn == Cons(h).rec.txn
<1>1. /\ QueuedUnhashed /\ CopiesUnhashed(h) /\ HeldOnce(h)
      /\ \A t \in Txns : SettledFor(h, t)
  BY DEF Hands
<1>2. /\ Sending(h) /\ Cons(h)'.todo = {} /\ Prod(h)' = Prod(h)
      /\ Cons(h).pc \in {"persist", "submit", "mark"} => txn \in Txns
      /\ ProducerBusy(h)' <=> ProducerBusy(h)
  BY ConsumerProceeds, HandTxns DEF ProducerBusy
<1>3. ProducerBusy(h) => Prod(h).rec.txn \in Txns
  BY HandTxns DEF ProducerBusy, Procedures
<1>4. CASE /\ Cons(h).pc = "receive" /\ Cons(h)'.pc = "persist"
           /\ chan[h] # <<>> /\ chan' = [chan EXCEPT ![h] = Tail(@)]
           /\ Cons(h)'.rec = Head(chan[h]).rec
           /\ UNCHANGED <<rows, accepted>>
  <2>0. /\ Len(chan[h]) \in Nat /\ Len(chan[h]) >= 1 /\ Head(chan[h]) = chan[h][1]
        /\ \A i \in 1 .. Len(chan'[h]) :
             i + 1 \in 1 .. Len(chan[h]) /\ chan'[h][i] = chan[h][i + 1]
    BY <1>4, PoppedItem
  <2>1. /\ 1 \in 1 .. Len(chan[h]) /\ Cons(h)'.rec = chan[h][1].rec
        /\ \A i \in 1 .. Len(chan'[h]) :
             i + 1 \in 1 .. Len(chan[h]) /\ i + 1 # 1 /\ chan'[h][i] = chan[h][i + 1]
    BY <1>4, <2>0
  <2>2. \A t : Broadcast(t)' <=> Broadcast(t)
    BY <1>4 DEF Broadcast
  <2>3. QueuedUnhashed'
    BY <1>1, <1>4 DEF QueuedUnhashed
  <2>4. CopiesUnhashed(h)'
    BY <1>1, <1>2, <1>4, <2>1 DEF CopiesUnhashed
  <2>5. ASSUME NEW i \in 1 .. Len(chan'[h])
        PROVE  /\ Claimed(chan'[h][i].rec.txn)
               /\ \A j \in 1 .. Len(chan'[h]) :
                    chan'[h][i].rec.txn = chan'[h][j].rec.txn => i = j
               /\ ProducerBusy(h) => Prod(h).rec.txn # chan'[h][i].rec.txn
               /\ Cons(h)'.rec.txn # chan'[h][i].rec.txn
    <3>1. \A k \in 1 .. Len(chan[h]) :
            /\ Claimed(chan[h][k].rec.txn)
            /\ \A j \in 1 .. Len(chan[h]) : chan[h][k].rec.txn = chan[h][j].rec.txn => k = j
            /\ ProducerBusy(h) => Prod(h).rec.txn # chan[h][k].rec.txn
      BY <1>1, <1>2 DEF HeldOnce
    <3>2. i + 1 \in 1 .. Len(chan[h]) /\ i + 1 # 1 /\ chan'[h][i] = chan[h][i + 1]
      BY <2>1
    <3>3. ASSUME NEW j \in 1 .. Len(chan'[h]), chan'[h][i].rec.txn = chan'[h][j].rec.txn
          PROVE  i = j
      <4>1. j + 1 \in 1 .. Len(chan[h]) /\ chan'[h][j] = chan[h][j + 1]
        BY <2>1
      <4>2. i + 1 = j + 1
        BY <3>1, <3>2, <3>3, <4>1
      <4> QED BY <4>2
    <3> QED BY <2>1, <3>1, <3>2, <3>3
  <2>6. /\ Claimed(Cons(h)'.rec.txn)
        /\ ProducerBusy(h) => Prod(h).rec.txn # Cons(h)'.rec.txn /\ Claimed(Prod(h).rec.txn)
    BY <1>1, <1>2, <2>1 DEF HeldOnce
  <2>7. HeldOnce(h)'
    BY <1>2, <1>4, <2>5, <2>6 DEF HeldOnce, ConsumerBusy, Claimed, Persisted
  <2>8. ASSUME NEW t \in Txns PROVE SettledFor(h, t)'
    BY <1>1, <1>2, <1>4, <2>1, <2>2 DEF SettledFor, LetGo
  <2> QED BY <2>3, <2>4, <2>7, <2>8 DEF Hands
<1>5. CASE /\ Cons(h).pc = "persist" /\ Cons(h)'.pc = "submit"
           /\ Cons(h)'.rec.txn = txn
           /\ rows'[txn].status = "processing" /\ rows'[txn].hash # None
           /\ \A t \in Txns : t # txn => rows'[t] = rows[t]
           /\ UNCHANGED <<chan, accepted>>
  <2>1. \A t : Broadcast(t)' <=> Broadcast(t)
    BY <1>5 DEF Broadcast
  <2>2. /\ ProducerBusy(h) => Prod(h).rec.txn # txn
        /\ \A i \in 1 .. Len(chan[h]) : chan[h][i].rec.txn # txn
    BY <1>1, <1>2, <1>5 DEF HeldOnce, ConsumerBusy
  <2>3. QueuedUnhashed'
    BY <1>1, <1>2, <1>5 DEF QueuedUnhashed
  <2>4. CopiesUnhashed(h)'
    BY <1>1, <1>2, <1>3, <1>5, <2>2 DEF CopiesUnhashed, ProducerBusy, Procedures
  <2>5. HeldOnce(h)'
    BY <1>1, <1>2, <1>3, <1>5, <2>2, HandTxns
       DEF HeldOnce, ConsumerBusy, Claimed, Persisted
  <2>6. ASSUME NEW t \in Txns PROVE SettledFor(h, t)'
    BY <1>1, <1>2, <1>5, <2>1, <2>2 DEF SettledFor, LetGo
  <2> QED BY <2>3, <2>4, <2>5, <2>6 DEF Hands
<1>6. CASE /\ Cons(h).pc = "submit" /\ Cons(h)'.pc = "mark" /\ Cons(h)'.rec = Cons(h).rec
           /\ accepted' = accepted \cup {Cons(h).hash}
           /\ UNCHANGED <<chan, rows>>
  <2>1. Cons(h).hash.txn = txn
    BY <1>6, HandTxns
  <2>2. \A t : Broadcast(t)' => Broadcast(t) \/ t = txn
    BY <1>6, <2>1 DEF Broadcast
  <2>3. /\ ProducerBusy(h) => Prod(h).rec.txn # txn
        /\ \A i \in 1 .. Len(chan[h]) : chan[h][i].rec.txn # txn
        /\ Persisted(txn)
    BY <1>1, <1>2, <1>6 DEF HeldOnce, ConsumerBusy
  <2>4. QueuedUnhashed'
    BY <1>1, <1>6 DEF QueuedUnhashed
  <2>5. CopiesUnhashed(h)'
    BY <1>1, <1>2, <1>6 DEF CopiesUnhashed, Procedures
  <2>6. HeldOnce(h)'
    BY <1>1, <1>2, <1>6 DEF HeldOnce, ConsumerBusy, Claimed, Persisted
  <2>7. ASSUME NEW t \in Txns, Broadcast(t)'
        PROVE  SettledFor(h, t)'
    <3>1. rows[t].status \notin {"absent", "queued"} /\ rows[t].hash # None
      BY <1>1, <2>2, <2>3, <2>7 DEF SettledFor, Persisted
    <3>2. /\ ProducerBusy(h) => Prod(h).rec.txn # t
          /\ \A i \in 1 .. Len(chan[h]) : chan[h][i].rec.txn # t
      BY <1>1, <2>2, <2>3, <2>7 DEF SettledFor, LetGo
    <3> QED BY <1>2, <1>6, <3>1, <3>2 DEF SettledFor, LetGo, Procedures
  <2> QED BY <2>4, <2>5, <2>6, <2>7 DEF Hands, SettledFor
<1>7. CASE /\ Cons(h).pc = "mark" /\ Cons(h)'.pc = "receive"
           /\ rows'[txn].status = "submitted" /\ rows'[txn].hash # None
           /\ \A t \in Txns : t # txn => rows'[t] = rows[t]
           /\ UNCHANGED <<chan, accepted>>
  <2>1. \A t : Broadcast(t)' <=> Broadcast(t)
    BY <1>7 DEF Broadcast
  <2>2. /\ ProducerBusy(h) => Prod(h).rec.txn # txn
        /\ \A i \in 1 .. Len(chan[h]) : chan[h][i].rec.txn # txn
    BY <1>1, <1>2, <1>7 DEF HeldOnce, ConsumerBusy
  <2>3. QueuedUnhashed'
    BY <1>1, <1>2, <1>7 DEF QueuedUnhashed
  <2>4. CopiesUnhashed(h)'
    BY <1>1, <1>2, <1>3, <1>7, <2>2 DEF CopiesUnhashed, ProducerBusy, Procedures
  <2>5. HeldOnce(h)'
    BY <1>1, <1>2, <1>3, <1>7, <2>2, HandTxns
       DEF HeldOnce, ConsumerBusy, Claimed, Persisted
  <2>6. ASSUME NEW t \in Txns PROVE SettledFor(h, t)'
    BY <1>1, <1>2, <1>7, <2>1, <2>2 DEF SettledFor, LetGo, Procedures
  <2> QED BY <2>3, <2>4, <2>5, <2>6 DEF Hands
<1> QED BY <1>4, <1>5, <1>6, <1>7, ConsumerProceeds

LEMMA ConsumerHands ==
  ASSUME Steady, NothingExpires, WorkInv, NEW h \in Hosts, Shape(h), HashInHand(h),
         SteadyShape(h), NoneRevived(h), Hands(h),
         Procedure(Consumer(h)) \/ Consume(Consumer(h))
  PROVE  Hands(h)'
BY ConsumerStops, ConsumerSends

LEMMA SpawnHands ==
  ASSUME WorkInv, NEW h \in Hosts, Shape(h), Hands(h), Spawn(h)
  PROVE  Hands(h)'
<1>1. /\ Prod(h)'.pc = "claim" /\ Cons(h)'.pc = "receive" /\ chan'[h] = <<>>
      /\ Cons(h)'.todo = Cons(h).todo
      /\ UNCHANGED <<rows, accepted>>
  BY SpawnEffects DEF WorkInv, Shape, Winding, Spawn, storeVars, nodeVars
<1>2. Cons(h)'.todo = {}
  BY <1>1, SpawnEffects DEF WorkInv, Shape, ConsumerShape, Sweeping
<1>3. ~ProducerBusy(h)' /\ ~ConsumerBusy(h)'
  BY <1>1 DEF ProducerBusy, ConsumerBusy
<1> QED BY <1>1, <1>2, <1>3
  DEF Hands, QueuedUnhashed, CopiesUnhashed, HeldOnce, SettledFor, LetGo, Broadcast, Procedures

LEMMA CrashHands ==
  ASSUME WorkInv, NEW h \in Hosts, Hands(h), Crash(h)
  PROVE  Hands(h)'
<1>1. /\ Prod(h)' = Off /\ Cons(h)' = Off /\ chan'[h] = <<>>
      /\ UNCHANGED <<rows, accepted>>
  BY CrashEffects DEF WorkInv, Crash, storeVars, nodeVars
<1>2. /\ Prod(h)'.pc = "off" /\ Cons(h)'.pc = "off" /\ Cons(h)'.todo = {}
  BY <1>1 DEF Off
<1>3. ~ProducerBusy(h)' /\ ~ConsumerBusy(h)' /\ ~Sending(h)'
  BY <1>2 DEF ProducerBusy, ConsumerBusy, Sending
<1> QED BY <1>1, <1>2, <1>3
  DEF Hands, QueuedUnhashed, CopiesUnhashed, HeldOnce, SettledFor, LetGo, Broadcast, Procedures

\* The worker's hands are not disturbed by who writes only rows that have been
\* broadcast, or that wait or are forgotten.
Spares(h, t) ==
  \/ rows'[t] = rows[t]
  \/ Broadcast(t) /\ rows'[t].status \in Terminal /\ rows'[t].hash # None
  \/ /\ rows[t].hash = None /\ (Sending(h) => ~HoldsRow(h, t))
     /\ rows'[t].status = "queued" /\ rows'[t].hash = None

LEMMA SparedHands ==
  ASSUME WorkInv, NEW h \in Hosts, Hands(h), UNCHANGED <<actor, chan, accepted>>,
         \A t \in Txns : Spares(h, t)
  PROVE  Hands(h)'
<1>1. /\ QueuedUnhashed /\ CopiesUnhashed(h) /\ HeldOnce(h)
      /\ \A t \in Txns : SettledFor(h, t)
  BY DEF Hands
<1>2. Prod(h)' = Prod(h) /\ Cons(h)' = Cons(h) /\ \A t : Broadcast(t)' <=> Broadcast(t)
  BY DEF Prod, Cons, Broadcast
<1>3. QueuedUnhashed'
  BY <1>1 DEF QueuedUnhashed, Spares, Terminal
<1>4. CopiesUnhashed(h)'
  <2>1. ASSUME Prod(h).pc = "load" PROVE rows'[Prod(h).rec.txn].hash = None
    <3>1. Prod(h).rec.txn \in Txns /\ ProducerBusy(h)
      BY <2>1, HandTxns DEF ProducerBusy
    <3> QED BY <1>1, <2>1, <3>1 DEF CopiesUnhashed, Spares, SettledFor, LetGo
  <2> QED BY <1>1, <1>2, <2>1 DEF CopiesUnhashed
<1>5. HeldOnce(h)'
  <2>1. ASSUME NEW t \in Txns, Sending(h), HoldsRow(h, t)
        PROVE  rows'[t] = rows[t]
    <3>1. ~Broadcast(t)
      BY <1>1, <2>1 DEF SettledFor, LetGo, HoldsRow
    <3> QED BY <2>1, <3>1 DEF Spares
  <2>2. ProducerBusy(h) => Prod(h).rec.txn \in Txns
    BY HandTxns DEF ProducerBusy, Procedures
  <2> QED BY <1>1, <1>2, <2>1, <2>2, HandTxns
      DEF HeldOnce, HoldsRow, Sending, ProducerBusy, ConsumerBusy, Claimed, Persisted
<1>6. ASSUME NEW t \in Txns PROVE SettledFor(h, t)'
  BY <1>1, <1>2 DEF SettledFor, LetGo, Spares, Terminal, ProducerBusy
<1> QED BY <1>3, <1>4, <1>5, <1>6 DEF Hands

LEMMA EnqueueSpares ==
  ASSUME WorkInv, NEW h \in Hosts, Hands(h), NEW u \in Txns, Enqueue(u), NEW t \in Txns
  PROVE  Spares(h, t)
<1>1. \/ rows'[t] = rows[t]
      \/ /\ rows[t].status = "absent"
         /\ rows'[t].status = "queued" /\ rows'[t].hash = rows[t].hash
  BY CreateRow DEF Enqueue, WorkInv
<1>2. CASE /\ rows[t].status = "absent"
           /\ rows'[t].status = "queued" /\ rows'[t].hash = rows[t].hash
  <2>1. rows[t].hash = None
    BY <1>2 DEF Hands, QueuedUnhashed
  <2>2. Sending(h) => ~HoldsRow(h, t)
    BY <1>2 DEF Hands, HeldOnce, HoldsRow, Claimed, Persisted
  <2> QED BY <1>2, <2>1, <2>2 DEF Spares
<1> QED BY <1>1, <1>2 DEF Spares

\* What the worker holds counts as held by the recovery.
LEMMA HeldInHand ==
  ASSUME WorkInv, NEW h \in Hosts, NEW t \in Txns, HoldsRow(h, t)
  PROVE  t \in InHand(h)
<1> DEFINE one(x) == IF Rec(<<h, x>>) = None THEN {} ELSE {Rec(<<h, x>>).txn}
           held == UNION {one(x) : x \in Roles}
           waiting == {chan[h][j].rec.txn : j \in 1 .. Len(chan[h])}
           listed == {rec.txn : rec \in UNION {actor[<<h, r>>].todo : r \in Roles}}
<1>0. InHand(h) = held \cup waiting \cup listed
  BY DEF InHand
<1> HIDE DEF held, waiting, listed
<1>1. held \subseteq InHand(h) /\ waiting \subseteq InHand(h)
  BY <1>0
<1>2. ASSUME NEW r \in Roles, Rec(<<h, r>>) # None
      PROVE  Rec(<<h, r>>).txn \in InHand(h)
  <2>1. Rec(<<h, r>>).txn \in one(r)
    BY <1>2
  <2>2. one(r) \in {one(x) : x \in Roles}
    OBVIOUS
  <2> HIDE DEF one
  <2> QED BY <1>1, <2>1, <2>2 DEF held
<1>3. /\ ProducerBusy(h) => Rec(Producer(h)) \in Records
      /\ Cons(h).pc \in {"persist", "submit"} => Rec(Consumer(h)) \in Records
  BY TwoRoles, Held DEF At, Prod, Cons, ProducerBusy, Procedures, Signed, Sound
<1>4. /\ ProducerBusy(h) => Prod(h).rec.txn \in InHand(h)
      /\ Cons(h).pc \in {"persist", "submit"} => Cons(h).rec.txn \in InHand(h)
  BY <1>2, <1>3, NoneAssumption DEF Producer, Consumer, Roles, Rec, Prod, Cons
<1>5. ASSUME NEW i \in 1 .. Len(chan[h]) PROVE chan[h][i].rec.txn \in InHand(h)
  BY <1>1 DEF waiting
<1> QED BY <1>4, <1>5 DEF HoldsRow

LEMMA RecoverSpares ==
  ASSUME Steady, WorkInv, NEW h \in Hosts, Recover, NEW t \in Txns
  PROVE  Spares(h, t)
<1>1. PICK S \in SUBSET Stale : RecoverStaleProcessing(S)
  BY DEF Recover
<1>2. S \subseteq Recoverable /\ \A u \in S : rows[u].status = "processing" /\ rows[u].hash = None
  BY DEF Stale, Recoverable, InStatus
<1>3. rows'[t] = rows[t] \/ (t \in S /\ Dequeued(t))
  BY <1>1, <1>2, GiveBackRow DEF RecoverStaleProcessing, WorkInv, Dequeued
<1>4. t \in S => ~HoldsRow(h, t)
  BY HeldInHand DEF Stale, Steady
<1> QED BY <1>2, <1>3, <1>4 DEF Spares, Dequeued

\* A verdict is about a broadcast transaction.
LEMMA VerdictBroadcast ==
  ASSUME LogPlaced, NodeTypeOK, NEW p, NEW t, PollSound(p, t), VerdictTrue(p),
         p.pc \in {"write", "tell"}
  PROVE  /\ p.rec.hash \in accepted /\ p.rec.hash # None /\ p.rec.hash.txn = t /\ Broadcast(t)
         /\ p.verdict \in {"confirmed", "failed"}
<1>1. p.verdict \in {"confirmed", "failed"} /\ \E i \in 1 .. committed : Is(i, p.rec.hash)
  BY DEF VerdictTrue, Succeeded, FailedOnChain
<1>2. PICK i \in 1 .. committed : log[i].hash = p.rec.hash /\ Own(i)
  BY <1>1 DEF Is, Own
<1>3. i \in 1 .. Len(log)
  BY DEF NodeTypeOK
<1>4. p.rec.hash \in accepted
  BY <1>2, <1>3 DEF LogPlaced
<1>5. p.rec.hash # None /\ p.rec.hash.txn = t
  BY <1>2 DEF PollSound, Sound, Own
<1> QED BY <1>1, <1>4, <1>5 DEF Broadcast

LEMMA PollSpares ==
  ASSUME PollOK, NEW h \in Hosts, LogPlaced, \A t \in Txns : VerdictTrue(poll[h][t]),
         Poll(h), NEW t \in Txns
  PROVE  Spares(h, t)
<1>1. CASE /\ poll[h][t].pc = "write" /\ Written(t, poll[h][t].rec, poll[h][t].verdict)
           /\ PollSound(poll[h][t], t)
  <2>1. /\ poll[h][t].rec.hash # None /\ Broadcast(t)
        /\ poll[h][t].verdict \in {"confirmed", "failed"}
    BY <1>1, VerdictBroadcast DEF PollOK, WorkInv
  <2> QED BY <1>1, <2>1, WrittenFields DEF Spares, Terminal
<1> QED BY <1>1, PollRow DEF Spares

LEMMA SettledAll ==
  ASSUME NEW h \in Hosts, Hosts = {h}
  PROVE  /\ SentOnce => Hands(h) /\ SteadyShape(h)
         /\ /\ LogPlaced /\ NothingExpires /\ Hands(h) /\ SteadyShape(h)
            /\ \A t \in Txns : VerdictTrue(poll[h][t]) /\ ToldTrue(t)
            => SentOnce
BY DEF SentOnce, Hands, SettledFor, NoneResent

\* Accepting the hash of a request that was not broadcast.
LEMMA AcceptPlaced ==
  ASSUME NodeTypeOK, LogPlaced, NEW hash \in Hashes, NEW ok \in BOOLEAN, Accept(hash, ok),
         ~Broadcast(hash.txn)
  PROVE  LogPlaced'
<1>1. /\ Len(log) \in Nat /\ Len(log') = Len(log) + 1
      /\ log'[Len(log) + 1].hash = hash
      /\ \A i \in 1 .. Len(log) : log'[i] = log[i]
      /\ accepted' = accepted \cup {hash} /\ hash.seq = Len(log)
  BY DEF Accept, NodeTypeOK, ExpectedSequence
<1>2. ASSUME NEW i \in 1 .. Len(log'), Own(i)'
      PROVE  log'[i].hash \in accepted' /\ log'[i].hash.seq = i - 1
  <2>1. CASE i = Len(log) + 1
    BY <1>1, <2>1
  <2>2. CASE i \in 1 .. Len(log)
    <3>1. log'[i] = log[i] /\ Own(i)
      BY <1>1, <1>2, <2>2 DEF Own
    <3> QED BY <1>1, <2>2, <3>1 DEF LogPlaced
  <2> QED BY <1>1, <2>1, <2>2
<1>3. ASSUME NEW x \in accepted', NEW y \in accepted', x.txn = y.txn
      PROVE  x = y
  BY <1>1, <1>3 DEF LogPlaced, Broadcast
<1> QED BY <1>2, <1>3 DEF LogPlaced

LEMMA WorkNode ==
  ASSUME Steady, NEW h \in Hosts, Work(h)
  PROVE  UNCHANGED nodeVars \/ SubmitAccepted(Consumer(h))
<1>1. Producer(h) \in Actors /\ Consumer(h) \in Actors
  BY TwoRoles
<1>2. Procedure(Producer(h)) \/ Procedure(Consumer(h)) => UNCHANGED nodeVars
  BY <1>1, ProcedureQuiet
<1>3. Produce(Producer(h)) \/ Spawn(h) => UNCHANGED nodeVars
  BY DEF Produce, Claim, StopProducing, Load, Unprepared, Sign, Push, GiveUpPush, Spawn
<1>4. Consume(Consumer(h)) => UNCHANGED nodeVars \/ SubmitAccepted(Consumer(h))
  BY DEF Consume, Steady, Receive, PersistHash, SubmitMisnumbered, SubmitError, MarkSubmitted,
         StopPipeline, Drain, DrainAccount, DrainReconcile, Finish, SweepList, Sweep, Exit
<1> QED BY <1>2, <1>3, <1>4 DEF Work

\* The log and the hashes, at each step.
LEMMA LogPlacedNext ==
  ASSUME Steady, Inv, [Next]_vars, NEW h \in Hosts, Hosts = {h}, LogPlaced, NothingExpires,
         Hands(h)
  PROVE  LogPlaced' /\ underway' = {}
<1>1. WorkInv /\ NodeTypeOK /\ PollOK /\ underway = {}
  BY InvParts DEF PollOK, WorkInv, NothingExpires
<1>2. CASE UNCHANGED nodeVars
  BY <1>1, <1>2 DEF LogPlaced, Own, nodeVars
<1>3. CASE SubmitAccepted(Consumer(h))
  <2> DEFINE c == Consumer(h)
  <2>1. /\ At(c, "submit") /\ c \in Actors
        /\ Accept(actor[c].hash, Executes(actor[c].hash))
    BY <1>3, TwoRoles DEF SubmitAccepted
  <2>2. /\ actor[c].hash \in Hashes /\ actor[c].hash.txn = Rec(c).txn
        /\ Rec(c).txn \in Txns
    BY <1>1, <2>1, Held DEF Signed, Sound, Records
  <2>3. ~Broadcast(Rec(c).txn)
    BY <2>1, <2>2 DEF Hands, SettledFor, LetGo, Cons, At, Rec
  <2> QED BY <1>1, <2>1, <2>2, <2>3, AcceptPlaced DEF Accept, Executes
<1>4. CASE Node
  <2>1. ~Land
    BY <1>1 DEF Land
  <2>2. CASE CommitNext
    BY <1>1, <2>2 DEF CommitNext, LogPlaced, Own
  <2>3. CASE DropLast
    <3>1. /\ Len(log') = Len(log) - 1 /\ Len(log) \in Nat
          /\ \A i \in 1 .. Len(log) - 1 : log'[i] = log[i]
      BY <1>1, <2>3, DropLog
    <3>2. \A i \in 1 .. Len(log') : i \in 1 .. Len(log) /\ log'[i] = log[i]
      BY <3>1
    <3> QED BY <1>1, <2>3, <3>2 DEF DropLast, LogPlaced, Own
  <2>4. CASE External
    <3>1. /\ Len(log') = Len(log) + 1 /\ Len(log) \in Nat
          /\ log'[Len(log) + 1].hash = None
          /\ \A i \in 1 .. Len(log) : log'[i] = log[i]
      BY <1>1, <2>4 DEF External, NodeTypeOK
    <3>2. \A i \in 1 .. Len(log') : Own(i)' => i \in 1 .. Len(log) /\ log'[i] = log[i]
      BY <3>1 DEF Own
    <3> QED BY <1>1, <2>4, <3>2 DEF External, LogPlaced, Own
  <2> QED BY <1>4, <2>1, <2>2, <2>3, <2>4 DEF Node
<1>5. CASE ~Node /\ ~\E g \in Hosts : Work(g)
  <2>1. UNCHANGED nodeVars
    BY <1>5 DEF Next, Enqueue, Pass, Poll, PollStep, PollList, PollLookup, PollWrite, PollNotify,
                Recover, Crash, vars
  <2> QED BY <1>2, <2>1
<1> QED BY <1>2, <1>3, <1>4, <1>5, WorkNode

LEMMA AgeStays ==
  ASSUME Steady, NothingExpires, [Next]_vars
  PROVE  age' = age
<1>1. ASSUME NEW t \in Txns, Pass(t) PROVE FALSE
  BY <1>1 DEF Pass, NothingExpires, Steady
<1>2. ASSUME NEW a, Procedure(a) \/ Produce(a) \/ Consume(a) PROVE age' = age
  BY <1>2 DEF Procedure, Requeue, Release, Fail, Shift, NotifyFailed, FetchAccount,
       AdjustCounter, ListSiblings, RequeueSibling, RequeueReconciled,
       Produce, Claim, StopProducing, Load, Unprepared, Sign, Push, GiveUpPush,
       Consume, Receive, PersistHash, SubmitAccepted, SubmitMisnumbered, SubmitError,
       MarkSubmitted, StopPipeline, Drain, DrainAccount, DrainReconcile, Finish, SweepList,
       Sweep, Exit
<1>3. ASSUME NEW h \in Hosts, Work(h) \/ Poll(h) \/ Crash(h) PROVE age' = age
  BY <1>2, <1>3 DEF Work, Spawn, Poll, PollStep, PollList, PollLookup, PollWrite, PollNotify,
                    Crash, submitterVars
<1> QED BY <1>1, <1>3 DEF Next, Enqueue, Recover, Node, vars, submitterVars

LEMMA OthersSpare ==
  ASSUME Steady, Inv, [Next]_vars, NEW h \in Hosts, Hosts = {h}, LogPlaced, NothingExpires,
         Hands(h), \A t \in Txns : VerdictTrue(poll[h][t]), ~Work(h), ~Crash(h)
  PROVE  /\ UNCHANGED <<actor, chan, accepted>>
         /\ \A t \in Txns : Spares(h, t)
<1>1. PollOK /\ WorkInv
  BY InvParts DEF PollOK
<1>2. UNCHANGED <<actor, chan>>
  BY DEF Next, Enqueue, Pass, Poll, PollStep, PollList, PollLookup, PollWrite, PollNotify,
         Recover, Node, vars, submitterVars
<1>3. accepted' = accepted
  <2>1. Node => accepted' = accepted
    BY DEF Node, Land, NothingExpires, CommitNext, DropLast, External
  <2> QED BY <2>1 DEF Next, Enqueue, Pass, Poll, PollStep, PollList, PollLookup, PollWrite,
         PollNotify, Recover, vars, nodeVars
<1>4. ASSUME NEW t \in Txns PROVE Spares(h, t)
  <2>1. CASE rows' = rows
    BY <2>1 DEF Spares
  <2>2. CASE \E u \in Txns : Enqueue(u)
    BY <1>1, <2>2, EnqueueSpares
  <2>3. CASE Recover
    BY <1>1, <2>3, RecoverSpares
  <2>4. CASE Poll(h)
    BY <1>1, <2>4, PollSpares
  <2> QED BY <2>1, <2>2, <2>3, <2>4 DEF Next, Pass, Node, vars, storeVars
<1> QED BY <1>2, <1>3, <1>4

LEMMA HandsNext ==
  ASSUME Steady, Inv, [Next]_vars, NEW h \in Hosts, Hosts = {h}, WorkersShaped, NoneRevived(h),
         LogPlaced, NothingExpires, Hands(h), SteadyShape(h),
         \A t \in Txns : VerdictTrue(poll[h][t])
  PROVE  Hands(h)' /\ SteadyShape(h)'
<1>1. PollOK /\ WorkInv /\ Shape(h) /\ HashInHand(h)
  BY InvParts DEF WorkersShaped, PollOK
<1>2. CASE Spawn(h)
  <2>1. SteadyShape(h)'
    BY <1>1, <1>2, SpawnEffects DEF WorkInv, SteadyShape
  <2> QED BY <1>1, <1>2, <2>1, SpawnHands
<1>3. CASE Procedure(Producer(h)) \/ Produce(Producer(h))
  BY <1>1, <1>3, ProducerHands, ProducerSteady
<1>4. CASE Procedure(Consumer(h)) \/ Consume(Consumer(h))
  BY <1>1, <1>4, ConsumerHands, ConsumerSteady
<1>5. CASE Crash(h)
  <2>1. SteadyShape(h)'
    BY <1>1, <1>5, CrashEffects DEF WorkInv, SteadyShape, Off
  <2> QED BY <1>1, <1>5, <2>1, CrashHands
<1>6. CASE ~Work(h) /\ ~Crash(h)
  <2>1. UNCHANGED <<actor, chan, accepted>> /\ \A t \in Txns : Spares(h, t)
    BY <1>6, OthersSpare
  <2>2. SteadyShape(h)'
    BY <2>1 DEF SteadyShape, Prod, Cons
  <2> QED BY <1>1, <2>1, <2>2, SparedHands
<1> QED BY <1>2, <1>3, <1>4, <1>5, <1>6 DEF Work

\* The poller's goroutine for a row, when the chain grows.
LEMMA VerdictStays ==
  ASSUME NodeTypeOK, Grows, NEW p, VerdictTrue(p)
  PROVE  VerdictTrue(p)'
<1>1. \A hash : FailedOnChain(hash) => FailedOnChain(hash)'
  BY DEF FailedOnChain, Is, Grows, NodeTypeOK
<1> QED BY <1>1, GrowsKeeps DEF VerdictTrue

LEMMA PollTurns ==
  ASSUME PollerInv, NEW h \in Hosts, NEW t \in Txns
  PROVE
  /\ PollList(h, t) => poll'[h][t].pc = "lookup"
  /\ PollLookup(h, t) =>
       /\ poll[h][t].pc = "lookup"
       /\ \/ poll'[h][t].pc = "idle"
          \/ \E v \in Verdict(poll[h][t].rec) :
               /\ poll'[h][t].pc = "write" /\ poll'[h][t].verdict = v
               /\ poll'[h][t].rec = poll[h][t].rec
  /\ PollWrite(h, t) =>
       /\ poll[h][t].pc = "write"
       /\ \/ poll'[h][t].pc = "idle"
          \/ /\ poll'[h][t].pc = "tell" /\ poll'[h][t].verdict = poll[h][t].verdict
             /\ poll'[h][t].rec = poll[h][t].rec
  /\ PollNotify(h, t) => poll'[h][t].pc = "idle"
<1>1. poll \in [Hosts -> [Txns -> PollStates]] /\ poll[h][t] \in PollStates
  BY PollHeld
<1>2. ASSUME NEW x, poll' = [poll EXCEPT ![h][t] = x] PROVE poll'[h][t] = x
  BY <1>1, <1>2
<1>3. PollList(h, t) => poll'[h][t].pc = "lookup"
  <2> SUFFICES ASSUME PollList(h, t) PROVE poll'[h][t].pc = "lookup"
    OBVIOUS
  <2> DEFINE x == [pc |-> "lookup", rec |-> Row(t), verdict |-> None]
  <2>1. poll' = [poll EXCEPT ![h][t] = x]
    BY DEF PollList
  <2>2. x.pc = "lookup"
    OBVIOUS
  <2> HIDE DEF x
  <2> QED BY <1>2, <2>1, <2>2
<1>4. Resting.pc = "idle"
  BY DEF Resting
<1>5. ASSUME NEW v, poll' = [poll EXCEPT ![h][t].pc = "write", ![h][t].verdict = v]
      PROVE  /\ poll'[h][t].pc = "write" /\ poll'[h][t].verdict = v
             /\ poll'[h][t].rec = poll[h][t].rec
  BY <1>1, <1>5 DEF PollStates
<1>6. ASSUME poll' = [poll EXCEPT ![h][t].pc = "tell"]
      PROVE  /\ poll'[h][t].pc = "tell" /\ poll'[h][t].verdict = poll[h][t].verdict
             /\ poll'[h][t].rec = poll[h][t].rec
  BY <1>1, <1>6 DEF PollStates
<1>7. PollLookup(h, t) =>
       /\ poll[h][t].pc = "lookup"
       /\ \/ poll'[h][t].pc = "idle"
          \/ \E v \in Verdict(poll[h][t].rec) :
               /\ poll'[h][t].pc = "write" /\ poll'[h][t].verdict = v
               /\ poll'[h][t].rec = poll[h][t].rec
  BY <1>2, <1>4, <1>5 DEF PollLookup
<1>8. PollWrite(h, t) =>
       /\ poll[h][t].pc = "write"
       /\ \/ poll'[h][t].pc = "idle"
          \/ /\ poll'[h][t].pc = "tell" /\ poll'[h][t].verdict = poll[h][t].verdict
             /\ poll'[h][t].rec = poll[h][t].rec
  BY <1>2, <1>4, <1>6 DEF PollWrite
<1>9. PollNotify(h, t) => poll'[h][t].pc = "idle"
  BY <1>2, <1>4 DEF PollNotify
<1> QED BY <1>3, <1>7, <1>8, <1>9

LEMMA VerdictTrueNext ==
  ASSUME Inv, [Next]_vars, NEW h \in Hosts, Hosts = {h}, NothingExpires,
         \A t \in Txns : VerdictTrue(poll[h][t]), NEW t \in Txns
  PROVE  VerdictTrue(poll[h][t])'
<1>1. PollOK /\ NodeTypeOK /\ Grows /\ poll \in [Hosts -> [Txns -> PollStates]]
  BY InvParts, ChainGrows, PollHeld DEF PollOK, WorkInv
<1>2. CASE poll'[h][t] = poll[h][t]
  BY <1>1, <1>2, VerdictStays DEF VerdictTrue, Succeeded, FailedOnChain
<1>3. CASE \E u \in Txns : PollList(h, u) \/ PollLookup(h, u) \/ PollWrite(h, u) \/ PollNotify(h, u)
  <2>1. PICK u \in Txns : PollList(h, u) \/ PollLookup(h, u) \/ PollWrite(h, u) \/ PollNotify(h, u)
    BY <1>3
  <2>2. CASE u # t
    <3>1. poll'[h][t] = poll[h][t]
      BY <1>1, <2>1, <2>2 DEF PollList, PollLookup, PollWrite, PollNotify
    <3> QED BY <1>2, <3>1
  <2>3. CASE u = t /\ PollLookup(h, t) /\ poll'[h][t].pc # "idle"
    <3>1. PICK v \in Verdict(poll[h][t].rec) :
            /\ poll'[h][t].pc = "write" /\ poll'[h][t].verdict = v
            /\ poll'[h][t].rec = poll[h][t].rec
      BY <1>1, <2>3, PollTurns DEF PollOK
    <3>2. UNCHANGED <<log, committed>>
      BY <2>3 DEF PollLookup, nodeVars
    <3>3. poll[h][t].pc = "lookup" /\ PollSound(poll[h][t], t)
      BY <1>1, <2>3, PollHeld, PollTurns DEF PollOK
    <3>4. v # "expired"
      BY <3>1, <3>3 DEF PollSound, Verdict, Expired, NothingExpires
    <3>5. \/ v = "confirmed" /\ Succeeded(poll[h][t].rec.hash)
          \/ v = "failed" /\ FailedOnChain(poll[h][t].rec.hash)
      BY <3>1, <3>4 DEF Verdict, Committed, Succeeded, FailedOnChain
    <3> QED BY <3>1, <3>2, <3>5 DEF VerdictTrue, Succeeded, FailedOnChain, Is
  <2>4. CASE u = t /\ PollWrite(h, t) /\ poll'[h][t].pc # "idle"
    <3>1. /\ poll[h][t].pc = "write" /\ poll'[h][t].rec = poll[h][t].rec
          /\ poll'[h][t].verdict = poll[h][t].verdict
      BY <1>1, <2>4, PollTurns DEF PollOK
    <3>2. UNCHANGED <<log, committed>>
      BY <2>4 DEF PollWrite, nodeVars
    <3> QED BY <3>1, <3>2 DEF VerdictTrue, Succeeded, FailedOnChain, Is
  <2>5. CASE poll'[h][t].pc \in {"idle", "lookup"}
    BY <2>5 DEF VerdictTrue
  <2> QED BY <1>1, <2>1, <2>2, <2>3, <2>4, <2>5, PollTurns DEF PollOK
<1>4. CASE Crash(h)
  BY <1>1, <1>4 DEF Crash, VerdictTrue, Resting
<1>5. CASE ~Crash(h) /\ ~Poll(h)
  <2>1. poll' = poll
    BY <1>5 DEF Next, Enqueue, Pass, Work, Recover, Node, vars
  <2> QED BY <1>2, <2>1
<1> QED BY <1>3, <1>4, <1>5 DEF Poll, PollStep

\* Who tells.
LEMMA WhoTells ==
  ASSUME [Next]_vars, NEW h \in Hosts, Hosts = {h}, SteadyShape(h)
  PROVE  told' = told \/ \E t \in Txns : PollNotify(h, t)
<1>1. CASE Work(h)
  <2>1. ~NotifyFailed(Producer(h)) /\ ~NotifyFailed(Consumer(h))
    BY DEF SteadyShape, NotifyFailed, At, Prod, Cons
  <2>2. Spawn(h) => told' = told
    BY DEF Spawn
  <2> QED BY <1>1, <2>1, <2>2, TwoRoles, ToldMoves DEF Work, WorkerSteps
<1>2. CASE ~Work(h)
  BY <1>2 DEF Next, Enqueue, Pass, Poll, PollStep, PollList, PollLookup, PollWrite,
              Crash, Recover, Node, vars, submitterVars
<1> QED BY <1>1, <1>2

\* What the webhooks have said.
LEMMA ToldTrueNext ==
  ASSUME Inv, [Next]_vars, NEW h \in Hosts, Hosts = {h}, WorkersShaped, SteadyShape(h), LogPlaced,
         \A t \in Txns : VerdictTrue(poll[h][t]) /\ ToldTrue(t), NEW t \in Txns
  PROVE  ToldTrue(t)'
<1>1. PollOK /\ WorkInv /\ NodeTypeOK /\ Grows /\ told \in [Txns -> SUBSET Terminal]
  BY InvParts, ChainGrows DEF PollOK, WorkInv, RestOK
<1>2. Reverted(t) => Reverted(t)'
  BY <1>1 DEF Reverted, Own, Grows, NodeTypeOK
<1>3. CASE told'[t] = told[t]
  BY <1>2, <1>3 DEF ToldTrue
<1>4. ASSUME NEW u \in Txns, PollNotify(h, u)
      PROVE  ToldTrue(t)'
  <2>1. /\ poll[h][u].pc = "tell"
        /\ told' = told \/ told' = [told EXCEPT ![u] = @ \cup {poll[h][u].verdict}]
    BY <1>4 DEF PollNotify
  <2>2. /\ PollSound(poll[h][u], u) /\ VerdictTrue(poll[h][u])
    BY <1>1, PollHeld DEF PollOK
  <2>3. /\ poll[h][u].verdict # "expired"
        /\ poll[h][u].rec.hash # None /\ poll[h][u].rec.hash.txn = u
    BY <1>1, <2>1, <2>2, VerdictBroadcast
  <2>4. poll[h][u].verdict = "failed" => Reverted(u)
    BY <2>1, <2>2, <2>3 DEF VerdictTrue, FailedOnChain, Reverted, Is, Own
  <2> QED BY <1>1, <1>2, <2>1, <2>3, <2>4 DEF ToldTrue
<1> QED BY <1>3, <1>4, WhoTells

LEMMA SentOnceNext ==
  ASSUME Steady
  PROVE  Inv /\ StatusOnChain /\ SentOnce /\ [Next]_vars => SentOnce'
<1> SUFFICES ASSUME Inv, StatusOnChain, SentOnce, [Next]_vars PROVE SentOnce'
  OBVIOUS
<1>1. PICK h \in Hosts : Hosts = {h}
  BY DEF Steady, Alone
<1>2. /\ LogPlaced /\ NothingExpires /\ Hands(h) /\ SteadyShape(h)
      /\ WorkersShaped /\ NoneRevived(h)
      /\ \A t \in Txns : VerdictTrue(poll[h][t]) /\ ToldTrue(t)
  BY <1>1, SettledAll DEF SentOnce, StatusOnChain
<1>3. LogPlaced' /\ NothingExpires'
  BY <1>1, <1>2, LogPlacedNext, AgeStays DEF NothingExpires
<1>4. Hands(h)' /\ SteadyShape(h)'
  BY <1>1, <1>2, HandsNext
<1>5. \A t \in Txns : VerdictTrue(poll[h][t])' /\ ToldTrue(t)'
  BY <1>1, <1>2, VerdictTrueNext, ToldTrueNext
<1>6. \A t \in Txns : SettledFor(h, t)'
  BY <1>4 DEF Hands
<1> QED BY <1>1, <1>3, <1>4, <1>5, <1>6 DEF SentOnce, Hands, SettledFor, NoneResent

LEMMA SentOnceInit == Init => SentOnce
<1> SUFFICES ASSUME Init PROVE SentOnce
  OBVIOUS
<1>1. \A h \in Hosts : Prod(h) = Off /\ Cons(h) = Off /\ chan[h] = <<>>
  BY TwoRoles DEF Init, SubmitterInit, Prod, Cons
<1>2. \A h \in Hosts : /\ Prod(h).pc = "off" /\ Cons(h).pc = "off"
                       /\ Cons(h).todo = {} /\ Len(chan[h]) = 0
  BY <1>1 DEF Off
<1>3. \A h \in Hosts : SteadyShape(h) /\ CopiesUnhashed(h) /\ HeldOnce(h)
  BY <1>2 DEF SteadyShape, CopiesUnhashed, HeldOnce, Sending, Procedures
<1>4. LogPlaced /\ NothingExpires /\ QueuedUnhashed /\ NoneResent
  BY DEF Init, NodeInit, SubmitterInit, StoreInit, LogPlaced, NothingExpires, QueuedUnhashed,
         NoneResent, Broadcast
<1>5. /\ \A h \in Hosts, t \in Txns : VerdictTrue(poll[h][t])
      /\ \A t \in Txns : ToldTrue(t)
  BY DEF Init, PollerInit, Resting, SubmitterInit, VerdictTrue, ToldTrue
<1> QED BY <1>3, <1>4, <1>5 DEF SentOnce

\* With one steady host, what has been broadcast for a request is never
\* brought back to the queue, whatever crashes, failing statements, foreign
\* transactions and losses of the mempool do: the invariant behind the next
\* two theorems.
THEOREM SentOnceHolds == ASSUME Steady PROVE Spec => []SentOnce
<1>1. Alone
  BY DEF Steady
<1> QED BY <1>1, SentOnceInit, SentOnceNext, InvHolds, StatusOnChainHolds, PTL DEF Spec

\* With one steady host the node never accepts two transactions of one
\* request: the hash is persisted before the broadcast, and no copy of a row
\* without it survives to write the row back to the queue.
THEOREM AtMostOnceHolds == ASSUME Steady PROVE Spec => []AtMostOnce
<1>1. TypeOK /\ SentOnce => AtMostOnce
  <2> SUFFICES ASSUME LogPlaced, NEW i \in 1 .. Len(log), NEW j \in 1 .. Len(log),
                      Own(i), Own(j), log[i].hash.txn = log[j].hash.txn
               PROVE  i = j
    BY DEF SentOnce, AtMostOnce
  <2>1. log[i].hash = log[j].hash /\ log[i].hash.seq = i - 1 /\ log[j].hash.seq = j - 1
    BY DEF LogPlaced
  <2> QED BY <2>1
<1> QED BY <1>1, SentOnceHolds, TypeCorrect, PTL

\* The chain has executed one transaction of a request at most.
LEMMA OneOutcome ==
  ASSUME NodeTypeOK, LogPlaced, NEW t \in Txns
  PROVE  ~(Executed(t) /\ Reverted(t))
<1> SUFFICES ASSUME Executed(t), Reverted(t) PROVE FALSE
  OBVIOUS
<1>1. PICK i \in 1 .. committed : Own(i) /\ log[i].hash.txn = t /\ log[i].ok
  BY DEF Executed
<1>2. PICK j \in 1 .. committed : Own(j) /\ log[j].hash.txn = t /\ ~log[j].ok
  BY DEF Reverted
<1>3. i \in 1 .. Len(log) /\ j \in 1 .. Len(log)
  BY DEF NodeTypeOK
<1>4. log[i].hash = log[j].hash /\ log[i].hash.seq = i - 1 /\ log[j].hash.seq = j - 1
  BY <1>1, <1>2, <1>3 DEF LogPlaced
<1>5. i = j
  BY <1>4
<1> QED BY <1>1, <1>2, <1>5

\* With one steady host the webhooks of a request agree: one that says it was
\* confirmed and one that says it failed would speak of the same transaction.
THEOREM OneVerdictHolds == ASSUME Steady PROVE Spec => []OneVerdict
<1>1. Inv /\ SentOnce => OneVerdict
  <2> SUFFICES ASSUME Inv, SentOnce, NEW t \in Txns PROVE Cardinality(told[t]) <= 1
    BY DEF OneVerdict
  <2>1. told[t] \subseteq {"confirmed", "failed"}
    BY DEF Inv, TypeOK, SubmitterTypeOK, SentOnce, ToldTrue, Terminal
  <2>2. ~("confirmed" \in told[t] /\ "failed" \in told[t])
    BY OneOutcome DEF Inv, TypeOK, AnnouncedIsOnChain, SentOnce, ToldTrue
  <2>3. told[t] = {} \/ \E v : told[t] = {v}
    BY <2>1, <2>2
  <2>4. CASE told[t] = {}
    BY <2>4, FS_EmptySet
  <2>5. ASSUME NEW v, told[t] = {v} PROVE Cardinality(told[t]) <= 1
    <3>1. Cardinality({v}) = 1
      BY FS_Singleton
    <3> QED BY <2>5, <3>1
  <2> QED BY <2>3, <2>4, <2>5
<1> QED BY <1>1, SentOnceHolds, InvHolds, PTL

-----------------------------------------------------------------------------
(* The order of the requests.                                              *)

\* The producer's steps while the consumer sends: no statement fails.
LEMMA ProducerOrders ==
  ASSUME Calm, NothingExpires, WorkInv, NEW h \in Hosts, Shape(h), SteadyShape(h),
         Sending(h), CancelledLate(h), CopiesUnhashed(h),
         Procedure(Producer(h)) \/ Produce(Producer(h))
  PROVE
  /\ Cons(h)' = Cons(h)
  /\ \* The record goes back to the queue.
     \/ /\ ProducerBusy(h) /\ ~ProducerBusy(h)' /\ chan' = chan
        /\ rows'[Prod(h).rec.txn].status = "queued"
        /\ \A t \in Txns : t # Prod(h).rec.txn => rows'[t] = rows[t]
     \* The oldest row is claimed.
     \/ /\ ~ProducerBusy(h) /\ ProducerBusy(h)' /\ chan' = chan
        /\ \E u \in Txns :
             /\ rows[u].status = "queued" /\ \A t \in InStatus("queued") : u <= t
             /\ Prod(h)'.rec.txn = u
             /\ rows'[u].status = "processing"
             /\ \A t \in Txns : t # u => rows'[t] = rows[t]
     \* The record goes into the channel.
     \/ /\ ProducerBusy(h) /\ ~ProducerBusy(h)' /\ Push(Producer(h)) /\ rows' = rows
     \* The record stays in hand.
     \/ /\ rows' = rows /\ chan' = chan /\ (ProducerBusy(h)' <=> ProducerBusy(h))
        /\ ProducerBusy(h) => Prod(h)'.rec.txn = Prod(h).rec.txn
<1> DEFINE p == Producer(h)
           c == Consumer(h)
<1>0. Steady /\ MaxFaults = 0
  BY DEF Calm
<1>1. /\ p \in Actors /\ c \in Actors /\ p # c /\ p[1] = h
      /\ Prod(h) = actor[p] /\ Prod(h)' = actor'[p]
  BY TwoRoles DEF Producer, Prod
<1>2. Cons(h)' = Cons(h)
  BY <1>0, ProducerSteady
<1>3. actor[p].pc \in Procedures => actor[p].pc \in {"requeue", "release"}
                                   /\ actor[p].ret \in {"off", "claim"}
  BY DEF Shape, ProducerShape, SteadyShape, Prod, Procedures
<1>4. ~Fails(p) /\ ~Cancelled(p)
  BY <1>0, <1>1, NoFault DEF CancelledLate, Cancelled
<1>5. CASE Requeue(p)
  <2>1. /\ actor[p].pc = "requeue" /\ chan' = chan /\ actor'[p].pc \in {"release", "off", "claim"}
        /\ Update(Requeued(actor[p].rec))
    BY <1>1, <1>3, <1>4, <1>5, ProcedureEffects
       DEF WorkInv, Requeue, Procedures, ComesBack, Remains, Becomes, Rec
  <2>2. Sound(actor[p].rec)
    BY <1>1, <2>1, Held DEF At, Rec, Procedures
  <2> DEFINE new == Requeued(actor[p].rec)
  <2>3. new \in Records /\ new.txn = actor[p].rec.txn /\ new.status = "queued"
    BY <2>2 DEF Sound, Records, Requeued, Statuses
  <2> HIDE DEF new
  <2>4. /\ rows'[new.txn].status = "queued"
        /\ \A t \in Txns : t # new.txn => rows'[t] = rows[t]
    BY <2>1, <2>3, UpdatedRow, WrittenFields DEF WorkInv, new
  <2> QED BY <1>1, <1>2, <2>1, <2>3, <2>4 DEF ProducerBusy
<1>6. CASE Claim(p)
  <2>1. PICK u \in Txns : /\ ClaimOldest(u)
                          /\ actor[p].pc = "claim" /\ actor'[p].pc = "load"
                          /\ actor'[p].rec.txn = u
    BY <1>1, <1>6, ProduceEffects DEF WorkInv, Becomes
  <2>2. /\ rows[u].status = "queued" /\ \A t \in InStatus("queued") : u <= t
        /\ rows'[u].status = "processing"
        /\ \A t \in Txns : t # u => rows'[t] = rows[t]
    BY <2>1, ClaimRow DEF WorkInv, ClaimOldest
  <2>3. chan' = chan
    BY <1>6 DEF Claim
  <2> QED BY <1>1, <1>2, <2>1, <2>2, <2>3 DEF ProducerBusy
<1>7. CASE Push(p)
  BY <1>1, <1>2, <1>7, ProduceEffects DEF WorkInv, Departs, Becomes, Push, storeVars, ProducerBusy
<1>8. CASE Release(p) \/ StopProducing(p) \/ Load(p) \/ Unprepared(p) \/ Sign(p) \/ GiveUpPush(p)
  <2>1. rows' = rows /\ chan' = chan
    BY <1>8 DEF Release, StopProducing, Load, Unprepared, Sign, GiveUpPush, storeVars,
                ReleaseSequence
  <2>2. \/ actor[p].pc \in {"claim", "release"} /\ actor'[p].pc \in {"off", "claim"}
        \/ /\ actor[p].pc \in {"load", "prepare", "push"}
           /\ actor'[p].pc \in {"prepare", "push", "requeue"}
           /\ \/ actor'[p].rec = Row(actor[p].rec.txn)
              \/ actor'[p].rec = actor[p].rec
    BY <1>0, <1>1, <1>3, <1>4, <1>8, SteadyFailures, ProcedureEffects, ProduceEffects
       DEF WorkInv, Procedures, ComesBack, Departs, Becomes
  <2> QED BY <1>1, <1>2, <2>1, <2>2 DEF ProducerBusy, Row
<1>9. Procedure(p) => Requeue(p) \/ Release(p)
  BY <1>1, <1>3, ProcedureEffects DEF Procedure, WorkInv, Procedures
<1> QED BY <1>5, <1>6, <1>7, <1>8, <1>9 DEF Produce

\* What is held is in processing.
LEMMA HeldRows ==
  ASSUME WorkInv, NEW h \in Hosts, Sending(h), HeldOnce(h), NEW t, HoldsRow(h, t)
  PROVE  t \in Txns /\ rows[t].status = "processing"
<1>1. ProducerBusy(h) => Prod(h).rec.txn \in Txns
  BY HandTxns DEF ProducerBusy, Procedures
<1> QED BY <1>1, HandTxns DEF HeldOnce, HoldsRow, Claimed, Persisted

LEMMA ProducerKeepsOrder ==
  ASSUME Calm, NothingExpires, WorkInv, NEW h \in Hosts, Shape(h), SteadyShape(h), Hands(h),
         HashInHand(h), HeldInOrder(h), CancelledLate(h), AbsentLast, OlderBroadcast, Sending(h),
         Procedure(Producer(h)) \/ Produce(Producer(h))
  PROVE  HeldInOrder(h)'
<1>1. /\ Cons(h)' = Cons(h) /\ CopiesUnhashed(h) /\ HeldOnce(h) /\ QueuedUnhashed
      /\ Sending(h)' /\ (ConsumerBusy(h)' <=> ConsumerBusy(h))
  BY ProducerOrders DEF Hands, Sending, ConsumerBusy
<1>2. /\ \A i \in 1 .. Len(chan[h]) :
           /\ \A j \in 1 .. Len(chan[h]) : i < j => chan[h][i].rec.txn < chan[h][j].rec.txn
           /\ ProducerBusy(h) => chan[h][i].rec.txn < Prod(h).rec.txn
           /\ ConsumerBusy(h) => Cons(h).rec.txn < chan[h][i].rec.txn
      /\ ProducerBusy(h) /\ ConsumerBusy(h) => Cons(h).rec.txn < Prod(h).rec.txn
      /\ \A t, u \in Txns : HoldsRow(h, t) /\ rows[u].status \in {"absent", "queued"} => t < u
      /\ \A t \in Recoverable : HoldsRow(h, t)
  BY DEF HeldInOrder
<1>3. ProducerBusy(h) => Prod(h).rec.txn \in Txns
  BY HandTxns DEF ProducerBusy, Procedures
<1>4. CASE /\ ProducerBusy(h) /\ ~ProducerBusy(h)' /\ chan' = chan
           /\ rows'[Prod(h).rec.txn].status = "queued"
           /\ \A t \in Txns : t # Prod(h).rec.txn => rows'[t] = rows[t]
  <2> DEFINE u == Prod(h).rec.txn
  <2>1. \A t \in Txns : HoldsRow(h, t)' => HoldsRow(h, t) /\ t < u
    BY <1>1, <1>2, <1>3, <1>4 DEF HoldsRow, ConsumerBusy
  <2>2. \A t \in Txns : HoldsRow(h, t) /\ t # u => HoldsRow(h, t)'
    BY <1>1, <1>4 DEF HoldsRow
  <2>3. Recoverable' \subseteq Recoverable \ {u}
    BY <1>3, <1>4 DEF Recoverable, InStatus
  <2>4. Recoverable \subseteq Txns
    BY DEF Recoverable, InStatus
  <2>5. \A t, v \in Txns :
          HoldsRow(h, t)' /\ rows'[v].status \in {"absent", "queued"} => t < v
    BY <1>2, <1>4, <2>1
  <2> QED BY <1>1, <1>2, <1>4, <2>2, <2>3, <2>4, <2>5 DEF HeldInOrder
<1>5. CASE /\ ~ProducerBusy(h) /\ ProducerBusy(h)' /\ chan' = chan
           /\ \E u \in Txns :
                /\ rows[u].status = "queued" /\ \A t \in InStatus("queued") : u <= t
                /\ Prod(h)'.rec.txn = u
                /\ rows'[u].status = "processing"
                /\ \A t \in Txns : t # u => rows'[t] = rows[t]
  <2>1. PICK u \in Txns : /\ rows[u].status = "queued" /\ \A t \in InStatus("queued") : u <= t
                          /\ Prod(h)'.rec.txn = u
                          /\ rows'[u].status = "processing"
                          /\ \A t \in Txns : t # u => rows'[t] = rows[t]
    BY <1>5
  <2>2. \A t : HoldsRow(h, t)' <=> HoldsRow(h, t) \/ t = u
    BY <1>1, <1>5, <2>1 DEF HoldsRow
  <2>3. \A t \in Txns : HoldsRow(h, t) => t < u
    BY <1>2, <2>1
  <2>4. ASSUME NEW v \in Txns, rows'[v].status \in {"absent", "queued"}
        PROVE  u < v
    <3>1. v # u /\ rows[v].status \in {"absent", "queued"}
      BY <2>1, <2>4
    <3>2. CASE rows[v].status = "queued"
      BY <2>1, <3>1, <3>2 DEF InStatus, Txns
    <3>3. CASE rows[v].status = "absent"
      BY <2>1, <3>1, <3>3 DEF AbsentLast, Txns
    <3> QED BY <3>1, <3>2, <3>3
  <2>5. \A t, v \in Txns :
          HoldsRow(h, t)' /\ rows'[v].status \in {"absent", "queued"} => t < v
    BY <1>2, <2>1, <2>2, <2>4
  <2>6. Recoverable' \subseteq Recoverable \cup {u}
    BY <2>1 DEF Recoverable, InStatus
  <2>7. /\ \A i \in 1 .. Len(chan[h]) : chan[h][i].rec.txn < u
        /\ ConsumerBusy(h) => Cons(h).rec.txn < u
    <3>1. \A i \in 1 .. Len(chan[h]) : HoldsRow(h, chan[h][i].rec.txn)
      BY DEF HoldsRow
    <3>2. ConsumerBusy(h) /\ Cons(h).pc # "mark" => HoldsRow(h, Cons(h).rec.txn)
      BY DEF HoldsRow, ConsumerBusy
    <3>3. ASSUME Cons(h).pc = "mark" PROVE Cons(h).rec.txn < u
      <4>1. Cons(h).rec.txn \in Txns /\ Broadcast(Cons(h).rec.txn)
        BY <3>3, HandTxns DEF HashInHand, Broadcast
      <4>2. ~Broadcast(u)
        BY <2>1 DEF Hands, SettledFor
      <4> QED BY <4>1, <4>2 DEF OlderBroadcast, Txns
    <3> QED BY <2>3, <3>1, <3>2, <3>3, HandTxns DEF ConsumerBusy
  <2> QED BY <1>1, <1>2, <1>5, <2>1, <2>2, <2>5, <2>6, <2>7 DEF HeldInOrder
<1>6. CASE ProducerBusy(h) /\ ~ProducerBusy(h)' /\ Push(Producer(h)) /\ rows' = rows
  <2>1. /\ Len(chan[h]) \in Nat /\ Len(chan'[h]) = Len(chan[h]) + 1
        /\ \A i \in 1 .. Len(chan[h]) : chan'[h][i] = chan[h][i]
        /\ chan'[h][Len(chan[h]) + 1].rec = Prod(h).rec
    BY <1>6, PushedItem
  <2>2. /\ \A i \in 1 .. Len(chan'[h]) : i \in 1 .. Len(chan[h]) \/ i = Len(chan[h]) + 1
        /\ \A i \in 1 .. Len(chan[h]) : i \in 1 .. Len(chan'[h])
        /\ Len(chan[h]) + 1 \in 1 .. Len(chan'[h])
    BY <2>1
  <2>3. \A t : HoldsRow(h, t)' <=> HoldsRow(h, t)
    BY <1>1, <1>6, <2>1, <2>2 DEF HoldsRow
  <2>4. Recoverable' = Recoverable
    BY <1>6 DEF Recoverable, InStatus
  <2>5. ASSUME NEW i \in 1 .. Len(chan'[h])
        PROVE  /\ \A j \in 1 .. Len(chan'[h]) : i < j => chan'[h][i].rec.txn < chan'[h][j].rec.txn
               /\ ConsumerBusy(h) => Cons(h).rec.txn < chan'[h][i].rec.txn
    <3>1. CASE i \in 1 .. Len(chan[h])
      BY <1>2, <1>6, <2>1, <2>2, <3>1
    <3>2. CASE i = Len(chan[h]) + 1
      BY <1>2, <1>6, <2>1, <3>2
    <3> QED BY <2>2, <3>1, <3>2
  <2> QED BY <1>1, <1>2, <1>6, <2>3, <2>4, <2>5 DEF HeldInOrder
<1>7. CASE /\ rows' = rows /\ chan' = chan /\ (ProducerBusy(h)' <=> ProducerBusy(h))
           /\ ProducerBusy(h) => Prod(h)'.rec.txn = Prod(h).rec.txn
  <2>1. \A t : HoldsRow(h, t)' <=> HoldsRow(h, t)
    BY <1>1, <1>7 DEF HoldsRow
  <2>2. Recoverable' = Recoverable
    BY <1>7 DEF Recoverable, InStatus
  <2> QED BY <1>1, <1>2, <1>7, <2>1, <2>2 DEF HeldInOrder
<1> QED BY <1>1, <1>4, <1>5, <1>6, <1>7, ProducerOrders

LEMMA ConsumerKeepsOrder ==
  ASSUME WorkInv, NEW h \in Hosts, Shape(h), HashInHand(h), NoneRevived(h), Hands(h),
         HeldInOrder(h), Procedure(Consumer(h)) \/ Consume(Consumer(h)), Sending(h)'
  PROVE  HeldInOrder(h)'
<1> DEFINE txn == Cons(h).rec.txn
<1>1. /\ Sending(h) /\ Prod(h)' = Prod(h) /\ HeldOnce(h)
      /\ Cons(h).pc \in {"persist", "submit", "mark"} => txn \in Txns
      /\ ProducerBusy(h)' <=> ProducerBusy(h)
  BY ConsumerProceeds, HandTxns DEF ProducerBusy, Hands
<1>2. /\ \A i \in 1 .. Len(chan[h]) :
           /\ \A j \in 1 .. Len(chan[h]) : i < j => chan[h][i].rec.txn < chan[h][j].rec.txn
           /\ ProducerBusy(h) => chan[h][i].rec.txn < Prod(h).rec.txn
           /\ ConsumerBusy(h) => txn < chan[h][i].rec.txn
      /\ ProducerBusy(h) /\ ConsumerBusy(h) => txn < Prod(h).rec.txn
      /\ \A t, u \in Txns : HoldsRow(h, t) /\ rows[u].status \in {"absent", "queued"} => t < u
      /\ \A t \in Recoverable : HoldsRow(h, t)
  BY <1>1 DEF HeldInOrder
<1>3. Recoverable \subseteq Txns
  BY DEF Recoverable, InStatus
<1>4. CASE /\ Cons(h).pc = "receive" /\ Cons(h)'.pc = "persist"
           /\ chan[h] # <<>> /\ chan' = [chan EXCEPT ![h] = Tail(@)]
           /\ Cons(h)'.rec = Head(chan[h]).rec
           /\ UNCHANGED <<rows, accepted>>
  <2>1. /\ Len(chan[h]) \in Nat /\ Len(chan[h]) >= 1 /\ Cons(h)'.rec = chan[h][1].rec
        /\ Len(chan'[h]) = Len(chan[h]) - 1
        /\ \A i \in 1 .. Len(chan'[h]) :
             i + 1 \in 1 .. Len(chan[h]) /\ chan'[h][i] = chan[h][i + 1]
    BY <1>4, PoppedItem
  <2>2. ASSUME NEW i \in 1 .. Len(chan[h])
        PROVE  i = 1 \/ \E j \in 1 .. Len(chan'[h]) : chan'[h][j] = chan[h][i]
    <3>1. CASE i # 1
      <4>1. i - 1 \in 1 .. Len(chan'[h]) /\ (i - 1) + 1 = i
        BY <2>1, <3>1
      <4>2. chan'[h][i - 1] = chan[h][(i - 1) + 1]
        BY <2>1, <4>1
      <4> QED BY <4>1, <4>2
    <3> QED BY <3>1
  <2>3. 1 \in 1 .. Len(chan[h]) /\ \A i \in 1 .. Len(chan'[h]) : 1 < i + 1
    BY <2>1
  <2>4. ASSUME NEW t PROVE HoldsRow(h, t)' <=> HoldsRow(h, t)
    <3> DEFINE waits == \E i \in 1 .. Len(chan[h]) : chan[h][i].rec.txn = t
               still == \E i \in 1 .. Len(chan'[h]) : chan'[h][i].rec.txn = t
    <3>1. waits => chan[h][1].rec.txn = t \/ still
      BY <2>2
    <3>2. chan[h][1].rec.txn = t \/ still => waits
      BY <2>1, <2>3
    <3>3. /\ HoldsRow(h, t) <=> (ProducerBusy(h) /\ Prod(h).rec.txn = t) \/ waits
          /\ HoldsRow(h, t)' <=> \/ ProducerBusy(h)' /\ Prod(h)'.rec.txn = t
                                \/ still \/ chan[h][1].rec.txn = t
      BY <1>4, <2>1 DEF HoldsRow
    <3> QED BY <1>1, <3>1, <3>2, <3>3
  <2>5. Recoverable' = Recoverable
    BY <1>4 DEF Recoverable, InStatus
  <2>6. ASSUME NEW i \in 1 .. Len(chan'[h])
        PROVE  /\ \A j \in 1 .. Len(chan'[h]) :
                    i < j => chan'[h][i].rec.txn < chan'[h][j].rec.txn
               /\ ProducerBusy(h) => chan'[h][i].rec.txn < Prod(h).rec.txn
               /\ Cons(h)'.rec.txn < chan'[h][i].rec.txn
    <3>1. /\ i + 1 \in 1 .. Len(chan[h]) /\ 1 < i + 1
          /\ chan'[h][i].rec.txn = chan[h][i + 1].rec.txn
      BY <2>1, <2>3
    <3>2. ASSUME NEW j \in 1 .. Len(chan'[h]), i < j
          PROVE  chan'[h][i].rec.txn < chan'[h][j].rec.txn
      <4>1. /\ j + 1 \in 1 .. Len(chan[h]) /\ i + 1 < j + 1
            /\ chan'[h][j].rec.txn = chan[h][j + 1].rec.txn
        BY <2>1, <3>2
      <4> QED BY <1>2, <3>1, <4>1
    <3>3. /\ ProducerBusy(h) => chan[h][i + 1].rec.txn < Prod(h).rec.txn
          /\ chan[h][1].rec.txn < chan[h][i + 1].rec.txn
      BY <1>2, <2>3, <3>1
    <3> QED BY <2>1, <3>1, <3>2, <3>3
  <2>7. ProducerBusy(h) => Cons(h)'.rec.txn < Prod(h).rec.txn
    BY <1>2, <2>1, <2>3
  <2> QED BY <1>1, <1>2, <1>4, <2>4, <2>5, <2>6, <2>7 DEF HeldInOrder
<1>5. CASE /\ Cons(h).pc = "persist" /\ Cons(h)'.pc = "submit"
           /\ Cons(h)'.rec.txn = txn
           /\ rows'[txn].status = "processing" /\ rows'[txn].hash # None
           /\ \A t \in Txns : t # txn => rows'[t] = rows[t]
           /\ UNCHANGED <<chan, accepted>>
  <2>1. \A t : HoldsRow(h, t)' <=> HoldsRow(h, t)
    BY <1>1, <1>5 DEF HoldsRow
  <2>2. Recoverable' \subseteq Recoverable
    BY <1>1, <1>5 DEF Recoverable, InStatus
  <2>3. \A u \in Txns : rows'[u].status \in {"absent", "queued"} =>
                          rows[u].status \in {"absent", "queued"}
    BY <1>1, <1>5
  <2> QED BY <1>1, <1>2, <1>5, <2>1, <2>2, <2>3 DEF HeldInOrder, ConsumerBusy
<1>6. CASE /\ Cons(h).pc = "submit" /\ Cons(h)'.pc = "mark" /\ Cons(h)'.rec = Cons(h).rec
           /\ accepted' = accepted \cup {Cons(h).hash}
           /\ UNCHANGED <<chan, rows>>
  <2>1. Persisted(txn) /\ txn \notin Recoverable
    BY <1>1, <1>6 DEF HeldOnce, Persisted, Recoverable
  <2>2. \A t : /\ HoldsRow(h, t)' => HoldsRow(h, t)
               /\ HoldsRow(h, t) => HoldsRow(h, t)' \/ t = txn
    BY <1>1, <1>6 DEF HoldsRow
  <2>3. Recoverable' = Recoverable
    BY <1>6 DEF Recoverable, InStatus
  <2> QED BY <1>1, <1>2, <1>6, <2>1, <2>2, <2>3 DEF HeldInOrder, ConsumerBusy
<1>7. CASE /\ Cons(h).pc = "mark" /\ Cons(h)'.pc = "receive"
           /\ rows'[txn].status = "submitted" /\ rows'[txn].hash # None
           /\ \A t \in Txns : t # txn => rows'[t] = rows[t]
           /\ UNCHANGED <<chan, accepted>>
  <2>1. \A t : HoldsRow(h, t)' <=> HoldsRow(h, t)
    BY <1>1, <1>7 DEF HoldsRow
  <2>2. Recoverable' \subseteq Recoverable
    BY <1>1, <1>7 DEF Recoverable, InStatus
  <2>3. \A u \in Txns : rows'[u].status \in {"absent", "queued"} =>
                          rows[u].status \in {"absent", "queued"}
    BY <1>1, <1>7
  <2> QED BY <1>1, <1>2, <1>7, <2>1, <2>2, <2>3 DEF HeldInOrder, ConsumerBusy
<1> QED BY <1>4, <1>5, <1>6, <1>7, ConsumerProceeds

\* A new worker holds nothing, and nothing is claimed.
LEMMA SpawnOrders ==
  ASSUME WorkInv, NEW h \in Hosts, Shape(h), SweepCovers(h), crashes = 0, Spawn(h)
  PROVE  HeldInOrder(h)'
<1>1. /\ Prod(h)'.pc = "claim" /\ Cons(h)'.pc = "receive" /\ chan'[h] = <<>> /\ rows' = rows
      /\ Cons(h).pc = "off"
  BY SpawnEffects DEF WorkInv, Shape, Winding, Spawn, storeVars
<1>2. Recoverable' = {}
  BY <1>1 DEF SweepCovers, Recoverable, InStatus
<1>3. ~ProducerBusy(h)' /\ ~ConsumerBusy(h)' /\ Len(chan'[h]) = 0
  BY <1>1 DEF ProducerBusy, ConsumerBusy
<1>4. \A t : ~HoldsRow(h, t)'
  BY <1>1, <1>3 DEF HoldsRow
<1> QED BY <1>1, <1>2, <1>3, <1>4 DEF HeldInOrder

\* The steps of the others: a new request arrives, the poller settles a row,
\* and the recovery finds nothing while the consumer sends.
LEMMA OthersWrite ==
  ASSUME Steady, Inv, [Next]_vars, NEW h \in Hosts, Hosts = {h}, ~Work(h), ~Crash(h),
         NEW t \in Txns
  PROVE  \/ rows'[t] = rows[t]
         \/ /\ Create(t)
            /\ rows[t].status = "absent" /\ rows'[t].status = "queued"
            /\ rows'[t].hash = rows[t].hash
         \/ rows'[t].status \in Terminal /\ poll[h][t].pc = "write"
         \/ t \in Recoverable /\ ~HoldsRow(h, t) /\ Dequeued(t)
<1>1. PollOK /\ WorkInv /\ StoreInv
  BY InvParts DEF PollOK, WorkInv
<1>2. CASE \E u \in Txns : Enqueue(u)
  BY <1>1, <1>2, CreateRow DEF Enqueue
<1>3. CASE Recover
  <2>1. PICK S \in SUBSET Stale : RecoverStaleProcessing(S)
    BY <1>3 DEF Recover
  <2>2. S \subseteq Recoverable /\ \A u \in S : rows[u].status = "processing"
    BY DEF Stale, Recoverable, InStatus
  <2>3. rows'[t] = rows[t] \/ (t \in S /\ Dequeued(t))
    BY <1>1, <2>1, <2>2, GiveBackRow DEF RecoverStaleProcessing, Dequeued
  <2>4. t \in S => ~HoldsRow(h, t)
    BY <1>1, HeldInHand DEF Stale, Steady
  <2> QED BY <2>2, <2>3, <2>4
<1>4. CASE Poll(h)
  BY <1>1, <1>4, PollRow, WrittenFields DEF PollSound
<1>5. CASE rows' = rows
  BY <1>5
<1> QED BY <1>2, <1>3, <1>4, <1>5 DEF Next, Pass, Node, vars, storeVars

LEMMA OthersKeepOrder ==
  ASSUME Steady, Inv, [Next]_vars, NEW h \in Hosts, Hosts = {h}, ~Work(h), ~Crash(h),
         HeldInOrder(h), UNCHANGED <<actor, chan>>
  PROVE  HeldInOrder(h)'
<1> SUFFICES ASSUME Sending(h) PROVE HeldInOrder(h)'
  BY DEF HeldInOrder, Sending, Cons
<1>1. Prod(h)' = Prod(h) /\ Cons(h)' = Cons(h)
  BY DEF Prod, Cons
<1>2. \A t : HoldsRow(h, t)' <=> HoldsRow(h, t)
  BY <1>1 DEF HoldsRow, ProducerBusy
<1>3. \A t \in Recoverable : HoldsRow(h, t)
  BY DEF HeldInOrder
<1>4. \A t \in Txns :
        \/ rows'[t] = rows[t]
        \/ rows[t].status = "absent" /\ rows'[t].status = "queued"
        \/ rows'[t].status \in Terminal
  BY <1>3, OthersWrite
<1>5. Recoverable' \subseteq Recoverable
  BY <1>4 DEF Recoverable, InStatus, Terminal
<1>6. \A u \in Txns : rows'[u].status \in {"absent", "queued"} =>
                        rows[u].status \in {"absent", "queued"}
  BY <1>4 DEF Terminal
<1>7. Recoverable \subseteq Txns
  BY DEF Recoverable, InStatus
<1> QED BY <1>1, <1>2, <1>3, <1>5, <1>6, <1>7
        DEF HeldInOrder, Sending, ProducerBusy, ConsumerBusy

\* Only the API adds a row.
LEMMA Arrives ==
  ASSUME Steady, Inv, AllKnown, [Next]_vars, NEW h \in Hosts, Hosts = {h}, NEW t \in Txns,
         rows[t].status = "absent"
  PROVE  rows'[t].status = "absent" \/ Create(t)
<1>1. PollOK /\ WorkInv
  BY InvParts DEF PollOK
<1>2. t \notin Taken
  BY DEF Taken
<1>3. ASSUME NEW a \in Actors, NEW rec, rec = actor[a].rec \/ rec \in actor[a].todo,
             rec \in actor[a].todo \/ actor[a].pc \in Holding
      PROVE  rec.txn # t
  BY <1>2, <1>3 DEF AllKnown, HandsKnown, HandKnown, Known
<1>4. ASSUME NEW a \in Actors, Procedure(a) PROVE rows'[t] = rows[t]
  <2>1. /\ actor[a].pc \in Procedures => Sound(actor[a].rec)
        /\ \A rec \in actor[a].todo : Sound(rec)
    BY Held, <1>1 DEF At, Rec
  <2>2. \A rec : Sound(rec) => Requeued(rec).txn = rec.txn
    BY DEF Sound, Records, Requeued
  <2> QED BY <1>1, <1>3, <1>4, <2>1, <2>2, ProcedureRow, WrittenFields
          DEF Dequeued, Holding, Procedures
<1>5. ASSUME NEW a \in Actors, Consume(a) PROVE rows'[t] = rows[t]
  BY <1>1, <1>3, <1>5, ConsumeRow, WrittenFields DEF Holding
<1>6. ASSUME NEW a \in Actors, Produce(a) PROVE rows'[t] = rows[t]
  BY <1>1, <1>6, ProduceRow
<1>7. CASE Work(h)
  <2>1. Spawn(h) => rows' = rows
    BY DEF Spawn, storeVars
  <2> QED BY <1>4, <1>5, <1>6, <1>7, <2>1, TwoRoles DEF Work
<1>8. CASE Crash(h)
  BY <1>8 DEF Crash, storeVars
<1>9. CASE ~Work(h) /\ ~Crash(h)
  <2>1. poll[h][t].pc = "idle"
    BY <1>2 DEF AllKnown, PollsKnown
  <2> QED BY <1>9, <2>1, OthersWrite DEF Recoverable, InStatus
<1> QED BY <1>7, <1>8, <1>9

LEMMA AbsentLastNext ==
  ASSUME Steady, Inv, AllKnown, [Next]_vars, NEW h \in Hosts, Hosts = {h}, AbsentLast
  PROVE  AbsentLast'
<1> SUFFICES ASSUME NEW t \in Txns, NEW u \in Txns, t < u, rows'[t].status = "absent"
             PROVE  rows'[u].status = "absent"
  BY DEF AbsentLast
<1>1. Taken \subseteq Taken'
  BY NextKnown, KnownStays
<1>2. rows[t].status = "absent"
  BY <1>1 DEF Taken
<1>3. rows[u].status = "absent"
  BY <1>2 DEF AbsentLast
<1> QED BY <1>2, <1>3, Arrives DEF Create

\* Who cancels the pipeline.
LEMMA CancelledLateNext ==
  ASSUME Steady, Inv, [Next]_vars, NEW h \in Hosts, Hosts = {h}, WorkersShaped, NoneRevived(h),
         CancelledLate(h)
  PROVE  CancelledLate(h)'
<1> DEFINE p == Producer(h)
           c == Consumer(h)
<1>1. /\ WorkInv /\ Shape(h) /\ HashInHand(h)
      /\ p \in Actors /\ c \in Actors /\ p # c /\ p[1] = h /\ c[1] = h
      /\ Cons(h) = actor[c] /\ Cons(h)' = actor'[c]
  BY InvParts, TwoRoles DEF WorkersShaped, PollOK, Producer, Consumer, Cons
<1>0. cancelled \in [Hosts -> BOOLEAN]
  BY DEF Inv, TypeOK, SubmitterTypeOK
<1>2. CASE Spawn(h)
  <2>1. Cons(h).pc = "off" /\ cancelled' = cancelled
    BY <1>1, <1>2, SpawnEffects DEF Spawn, WorkInv
  <2> QED BY <2>1 DEF CancelledLate
<1>3. CASE Procedure(p) \/ Produce(p)
  <2>1. cancelled' = cancelled
    BY <1>1, <1>3, ProcedureQuiet
       DEF Produce, Claim, StopProducing, Load, Unprepared, Sign, Push, GiveUpPush
  <2>2. OthersStay(p)
    BY <1>1, <1>3, ProcedureEffects, ProduceEffects
       DEF WorkInv, Procedure, Produce, Remains, Departs, ComesBack, Becomes
  <2> QED BY <1>1, <2>1, <2>2 DEF CancelledLate, OthersStay, Sending
<1>4. CASE Procedure(c) \/ Consume(c)
  <2>1. CASE Exit(c)
    BY <1>0, <1>1, <2>1 DEF CancelledLate, Exit
  <2>2. CASE StopPipeline(c)
    <3>1. actor'[c].pc = "drain"
      BY <1>1, <2>2, ConsumeEffects DEF WorkInv, Remains, Becomes
    <3> QED BY <1>1, <3>1 DEF CancelledLate, Sending
  <2>3. CASE ~Exit(c) /\ ~StopPipeline(c)
    <3>1. cancelled' = cancelled
      BY <1>1, <1>4, <2>3, ProcedureQuiet
         DEF Consume, Receive, PersistHash, SubmitAccepted, SubmitMisnumbered, SubmitError,
             MarkSubmitted, Drain, DrainAccount, DrainReconcile, Finish, SweepList, Sweep
    <3>2. actor[c].pc \in Procedures => actor[c].ret \in {"stop", "drain", "sweep"}
      BY <1>1 DEF Shape, ConsumerShape, Sweeping
    <3>3. actor'[c].pc # "off"
      BY <1>1, <1>4, <2>3, <3>2, ProcedureEffects, ConsumeEffects
         DEF WorkInv, Procedure, Procedures, Consume, Remains, ComesBack, Departs, Becomes
    <3>4. Sending(h)' => Sending(h)
      BY <1>1, <1>4, ConsumerProceeds
    <3> QED BY <1>1, <3>1, <3>3, <3>4 DEF CancelledLate
  <2> QED BY <2>1, <2>2, <2>3
<1>5. CASE Crash(h)
  BY <1>0, <1>1, <1>5 DEF Crash, CancelledLate
<1>6. CASE ~Work(h) /\ ~Crash(h)
  <2>1. UNCHANGED <<actor, cancelled>>
    BY <1>6 DEF Next, Enqueue, Pass, Poll, PollStep, PollList, PollLookup, PollWrite, PollNotify,
                Recover, Node, vars, submitterVars
  <2> QED BY <1>1, <2>1 DEF CancelledLate, Sending
<1> QED BY <1>2, <1>3, <1>4, <1>5, <1>6 DEF Work

\* A row whose hash was persisted in vain goes back to the queue, if no
\* statement fails.
LEMMA GivesBack ==
  ASSUME WorkInv, NEW h \in Hosts, Shape(h), SteadyShape(h)', ~Fails(Consumer(h)),
         Procedure(Consumer(h)) \/ Consume(Consumer(h)), ~Sending(h)', NEW t \in Txns,
         GivenBack(h, t)
  PROVE  GivenBack(h, t)' \/ rows'[t].status = "queued"
<1> DEFINE c == Consumer(h)
<1>1. c \in Actors /\ Cons(h) = actor[c] /\ Cons(h)' = actor'[c] /\ actor[c].rec.txn = t
  BY TwoRoles DEF Cons, GivenBack
<1>2. CASE Requeue(c) \/ RequeueReconciled(c)
  <2>1. Update(Requeued(actor[c].rec)) /\ Sound(actor[c].rec)
    BY <1>1, <1>2, Held DEF Requeue, RequeueReconciled, At, Rec, Procedures
  <2> DEFINE new == Requeued(actor[c].rec)
  <2>2. new \in Records /\ new.txn = t /\ new.status = "queued"
    BY <1>1, <2>1 DEF Sound, Records, Requeued, Statuses
  <2> HIDE DEF new
  <2> QED BY <2>1, <2>2, UpdatedRow, WrittenFields DEF WorkInv, new
<1>3. CASE FetchAccount(c) \/ AdjustCounter(c) \/ ListSiblings(c) \/ RequeueSibling(c)
  BY <1>1, <1>3, ProcedureEffects DEF WorkInv, GivenBack, Remains, Becomes
<1>4. CASE SubmitMisnumbered(c) \/ SubmitError(c)
  <2>1. actor[c].pc = "submit" /\ actor[c].rec \in Records
    BY <1>1, <1>4, Held DEF SubmitMisnumbered, SubmitError, At, Rec, Signed, Sound
  <2>2. [actor[c].rec EXCEPT !.hash = None].txn = t
    BY <1>1, <2>1 DEF Records
  <2>3. actor'[c].pc \in {"account", "requeue", "fail"} /\ actor'[c].rec.txn = t
    BY <1>1, <1>4, <2>2, ConsumeEffects DEF WorkInv, Becomes
  <2>4. actor'[c].pc # "fail"
    BY <1>1 DEF SteadyShape
  <2> QED BY <1>1, <2>3, <2>4 DEF GivenBack
<1>5. actor[c].pc \in {"submit", "requeue", "account", "counter", "list", "sibling"}
  BY <1>1 DEF GivenBack
<1>6. Procedure(c) => \/ Requeue(c) \/ RequeueReconciled(c) \/ FetchAccount(c)
                     \/ AdjustCounter(c) \/ ListSiblings(c) \/ RequeueSibling(c)
  BY <1>1, <1>5, ProcedureEffects DEF WorkInv, Procedure
<1>7. Consume(c) => SubmitMisnumbered(c) \/ SubmitError(c)
  BY <1>1, <1>5, ConsumeEffects DEF WorkInv, Consume, Sending, Remains, Becomes
<1> QED BY <1>2, <1>3, <1>4, <1>6, <1>7

LEMMA NotYetNext ==
  ASSUME Calm, Inv, [Next]_vars, NEW h \in Hosts, Hosts = {h}, WorkersShaped, NoneRevived(h),
         LogPlaced, NothingExpires, Hands(h), SteadyShape(h),
         \A t \in Txns : VerdictTrue(poll[h][t]),
         NEW t \in Txns, NotYet(h, t)
  PROVE  NotYet(h, t)'
<1> DEFINE c == Consumer(h)
           txn == Cons(h).rec.txn
<1>1. /\ PollOK /\ WorkInv /\ Shape(h) /\ HashInHand(h) /\ CopiesUnhashed(h) /\ QueuedUnhashed
      /\ Steady /\ ~Fails(c) /\ MaxCrashes = 0
  BY InvParts, NoFault DEF WorkersShaped, PollOK, Hands, Calm
<1>2. ~Broadcast(t)' => ~Broadcast(t)
  BY AcceptedGrows DEF Broadcast
<1> SUFFICES ASSUME ~Broadcast(t), ~Broadcast(t)'
             PROVE  /\ rows'[t].status \in {"absent", "queued", "processing"}
                    /\ Persisted(t)' => GivenBack(h, t)'
  BY <1>2 DEF NotYet
<1>3. /\ rows[t].status \in {"absent", "queued", "processing"}
      /\ Persisted(t) => GivenBack(h, t)
  BY DEF NotYet
<1>4. rows'[t] = rows[t] => (Persisted(t)' <=> Persisted(t))
  BY DEF Persisted
<1>5. CASE Spawn(h)
  <2>1. Cons(h).pc = "off" /\ rows' = rows
    BY <1>1, <1>5, SpawnEffects DEF WorkInv, Spawn, storeVars
  <2> QED BY <1>3, <1>4, <2>1 DEF GivenBack
<1>6. CASE Procedure(Producer(h)) \/ Produce(Producer(h))
  <2>1. GivenBack(h, t)' <=> GivenBack(h, t)
    BY <1>1, <1>6, ProducerMoves DEF GivenBack
  <2>2. \/ rows'[t] = rows[t]
        \/ rows'[t].status = "queued"
        \/ rows[t].status = "queued" /\ rows'[t].status = "processing"
           /\ rows'[t].hash = rows[t].hash
    BY <1>1, <1>6, ProducerMoves
  <2> QED BY <1>1, <1>3, <1>4, <2>1, <2>2 DEF QueuedUnhashed, Persisted
<1>7. CASE (Procedure(c) \/ Consume(c)) /\ Sending(h)'
  <2>1. Cons(h).pc \in {"submit", "mark"} => Cons(h).hash.txn = txn
    BY <1>1, HandTxns
  <2>2. CASE Cons(h).pc = "receive" /\ UNCHANGED <<rows, accepted>>
    BY <1>3, <1>4, <2>2 DEF GivenBack
  <2>3. CASE /\ Cons(h).pc = "persist" /\ Cons(h)'.pc = "submit"
             /\ Cons(h)'.rec.txn = txn
             /\ rows'[txn].status = "processing"
             /\ \A u \in Txns : u # txn => rows'[u] = rows[u]
    BY <1>3, <1>4, <2>3 DEF GivenBack, Persisted
  <2>4. CASE /\ Cons(h).pc = "submit" /\ accepted' = accepted \cup {Cons(h).hash}
             /\ rows' = rows
    <3>1. t # txn
      BY <2>1, <2>4 DEF Broadcast
    <3> QED BY <1>3, <1>4, <2>4, <3>1 DEF GivenBack
  <2>5. CASE /\ Cons(h).pc = "mark"
             /\ \A u \in Txns : u # txn => rows'[u] = rows[u]
    <3>1. t # txn
      BY <1>1, <2>1, <2>5 DEF Broadcast, HashInHand
    <3> QED BY <1>3, <1>4, <2>5, <3>1 DEF GivenBack
  <2> QED BY <1>1, <1>7, <2>2, <2>3, <2>4, <2>5, ConsumerProceeds
<1>8. CASE (Procedure(c) \/ Consume(c)) /\ ~Sending(h)'
  <2>1. rows'[t] = rows[t] \/ rows'[t].status = "queued"
    BY <1>1, <1>8, ConsumerFails
  <2>2. SteadyShape(h)'
    BY <1>1, <1>8, ConsumerSteady
  <2>3. GivenBack(h, t) => GivenBack(h, t)' \/ rows'[t].status = "queued"
    BY <1>1, <1>8, <2>2, GivesBack
  <2> QED BY <1>3, <1>4, <2>1, <2>3 DEF Persisted
<1>9. CASE Crash(h)
  BY <1>1, <1>9, InvParts DEF Crash, Inv, TypeOK
<1>10. CASE ~Work(h) /\ ~Crash(h)
  <2>1. Cons(h)' = Cons(h)
    BY <1>1, <1>10, OthersSpare DEF Cons
  <2>2. poll[h][t].pc # "write"
    <3>1. PollSound(poll[h][t], t) /\ NodeTypeOK
      BY <1>1 DEF PollOK, PollerInv, PollsSound, WorkInv
    <3> QED BY <3>1, VerdictBroadcast
  <2>3. rows'[t] = rows[t] \/ rows'[t].status = "queued"
    BY <1>1, <1>10, <2>2, OthersWrite DEF Dequeued
  <2> QED BY <1>3, <1>4, <2>1, <2>3 DEF GivenBack, Persisted
<1> QED BY <1>5, <1>6, <1>7, <1>8, <1>9, <1>10 DEF Work

\* What the consumer is about to submit is the oldest request that was not
\* broadcast.
LEMMA OldestSubmitted ==
  ASSUME WorkInv, NEW h \in Hosts, HeldInOrder(h), \A t \in Txns : NotYet(h, t),
         Cons(h).pc = "submit", NEW u \in Txns, u < Cons(h).rec.txn
  PROVE  Broadcast(u)
<1> SUFFICES ASSUME ~Broadcast(u) PROVE FALSE
  OBVIOUS
<1> DEFINE txn == Cons(h).rec.txn
<1>1. /\ txn \in Txns /\ HoldsRow(h, txn) /\ Sending(h) /\ ConsumerBusy(h)
      /\ ProducerBusy(h) => Prod(h).rec.txn \in Txns
      /\ \A i \in 1 .. Len(chan[h]) : chan[h][i].rec.txn \in Txns
  BY HandTxns DEF HoldsRow, Sending, ConsumerBusy, ProducerBusy, Procedures
<1>2. rows[u].status = "processing"
  BY <1>1 DEF NotYet, HeldInOrder, Txns
<1>3. rows[u].hash = None
  BY <1>1, <1>2 DEF NotYet, Persisted, GivenBack, Txns
<1>4. HoldsRow(h, u)
  BY <1>1, <1>2, <1>3 DEF Recoverable, InStatus, HeldInOrder
<1> QED BY <1>1, <1>4 DEF HoldsRow, HeldInOrder, Txns

\* The node's steps, when no submit is under way.
LEMMA WhoAccepts ==
  ASSUME Steady, NothingExpires, [Next]_vars, NEW h \in Hosts, Hosts = {h},
         ~SubmitAccepted(Consumer(h))
  PROVE  accepted' = accepted /\ (log' = log \/ DropLast \/ External)
<1>1. Work(h) => UNCHANGED nodeVars
  BY WorkNode
<1>2. Node => accepted' = accepted /\ (log' = log \/ DropLast \/ External)
  BY DEF Node, Land, NothingExpires, CommitNext, DropLast, External
<1> QED BY <1>1, <1>2 DEF Next, Enqueue, Pass, Poll, PollStep, PollList, PollLookup, PollWrite,
        PollNotify, Recover, Crash, vars, nodeVars

LEMMA OrderNext ==
  ASSUME Steady, Inv, [Next]_vars, NEW h \in Hosts, Hosts = {h}, LogPlaced, NothingExpires,
         Hands(h), HeldInOrder(h), \A t \in Txns : NotYet(h, t), OlderBroadcast, LogInOrder
  PROVE  OlderBroadcast' /\ LogInOrder'
<1> DEFINE c == Consumer(h)
           txn == Cons(h).rec.txn
<1>1. WorkInv /\ NodeTypeOK
  BY InvParts DEF PollOK, WorkInv
<1>2. Len(log) \in Nat /\ \A i \in 1 .. Len(log) : Own(i) =>
        /\ log[i].hash.txn \in Txns /\ Broadcast(log[i].hash.txn)
  BY <1>1 DEF LogPlaced, Broadcast, NodeTypeOK, Hashes, Own
<1>3. CASE SubmitAccepted(c)
  <2>1. /\ Cons(h).pc = "submit" /\ Cons(h).hash \in Hashes /\ Cons(h).hash.txn = txn
        /\ txn \in Txns
        /\ Accept(Cons(h).hash, Executes(Cons(h).hash))
    BY <1>1, <1>3, HandTxns DEF SubmitAccepted, At, Cons
  <2>2. /\ ~Broadcast(txn)
        /\ \A u \in Txns : u < txn => Broadcast(u)
    BY <1>1, <2>1, OldestSubmitted DEF Hands, SettledFor, LetGo
  <2>3. \A u : Broadcast(u)' <=> Broadcast(u) \/ u = txn
    BY <2>1 DEF Broadcast, Accept
  <2>4. OlderBroadcast'
    BY <2>1, <2>2, <2>3 DEF OlderBroadcast
  <2>5. /\ Len(log') = Len(log) + 1
        /\ \A i \in 1 .. Len(log) : log'[i] = log[i]
        /\ log'[Len(log) + 1].hash = Cons(h).hash
    BY <1>1, <2>1 DEF Accept, Executes, NodeTypeOK
  <2>6. \A i \in 1 .. Len(log) : Own(i) => log[i].hash.txn < txn
    BY <1>2, <2>1, <2>2 DEF OlderBroadcast, Txns
  <2>7. ASSUME NEW i \in 1 .. Len(log'), NEW j \in 1 .. Len(log'), i < j, Own(i)', Own(j)'
        PROVE  log'[i].hash.txn < log'[j].hash.txn
    <3>1. i \in 1 .. Len(log) /\ Own(i) /\ log'[i] = log[i]
      BY <1>2, <2>5, <2>7 DEF Own
    <3>2. CASE j \in 1 .. Len(log)
      BY <2>5, <2>7, <3>1, <3>2 DEF LogInOrder, Own
    <3>3. CASE j = Len(log) + 1
      BY <2>1, <2>5, <2>6, <3>1, <3>3
    <3> QED BY <1>2, <2>5, <3>2, <3>3
  <2> QED BY <2>4, <2>7 DEF LogInOrder
<1>4. CASE ~SubmitAccepted(c)
  <2>1. accepted' = accepted /\ (log' = log \/ DropLast \/ External)
    BY <1>4, WhoAccepts
  <2>2. OlderBroadcast'
    BY <2>1 DEF OlderBroadcast, Broadcast
  <2>3. \A i \in 1 .. Len(log') : Own(i)' => i \in 1 .. Len(log) /\ log'[i] = log[i]
    <3>1. CASE log' = log
      BY <3>1
    <3>2. CASE DropLast
      <4>1. /\ Len(log') = Len(log) - 1
            /\ \A i \in 1 .. Len(log) - 1 : log'[i] = log[i]
        BY <1>1, <3>2, DropLog DEF DropLast
      <4> QED BY <1>2, <4>1
    <3>3. CASE External
      <4>1. /\ Len(log') = Len(log) + 1
            /\ log'[Len(log) + 1].hash = None
            /\ \A i \in 1 .. Len(log) : log'[i] = log[i]
        BY <1>1, <3>3 DEF External, NodeTypeOK
      <4> QED BY <1>2, <4>1 DEF Own
    <3> QED BY <2>1, <3>1, <3>2, <3>3
  <2>4. LogInOrder'
    BY <2>3 DEF LogInOrder, Own
  <2> QED BY <2>2, <2>4
<1> QED BY <1>3, <1>4

LEMMA HeldInOrderNext ==
  ASSUME Calm, Inv, [Next]_vars, NEW h \in Hosts, Hosts = {h}, WorkersShaped, NoneRevived(h),
         NothingExpires, LogPlaced, Hands(h), SteadyShape(h), SweepCovers(h), crashes = 0,
         \A t \in Txns : VerdictTrue(poll[h][t]),
         HeldInOrder(h), CancelledLate(h), AbsentLast, OlderBroadcast
  PROVE  HeldInOrder(h)'
<1>1. /\ WorkInv /\ Shape(h) /\ HashInHand(h) /\ Steady /\ MaxCrashes = 0
  BY InvParts DEF WorkersShaped, PollOK, Calm
<1>2. CASE Spawn(h)
  BY <1>1, <1>2, SpawnOrders
<1>3. CASE Procedure(Producer(h)) \/ Produce(Producer(h))
  <2>1. CASE Sending(h)
    BY <1>1, <1>3, <2>1, ProducerKeepsOrder
  <2>2. CASE ~Sending(h)
    BY <1>1, <1>3, <2>2, ProducerSteady DEF HeldInOrder, Sending
  <2> QED BY <2>1, <2>2
<1>4. CASE Procedure(Consumer(h)) \/ Consume(Consumer(h))
  <2>1. CASE Sending(h)'
    BY <1>1, <1>4, <2>1, ConsumerKeepsOrder
  <2>2. CASE ~Sending(h)'
    BY <2>2 DEF HeldInOrder
  <2> QED BY <2>1, <2>2
<1>5. CASE Crash(h)
  BY <1>1, <1>5 DEF Crash
<1>6. CASE ~Work(h) /\ ~Crash(h)
  BY <1>1, <1>6, OthersSpare, OthersKeepOrder
<1> QED BY <1>2, <1>3, <1>4, <1>5, <1>6 DEF Work

LEMMA SentInOrderNext ==
  ASSUME Calm
  PROVE  /\ Inv /\ AllKnown /\ StatusOnChain /\ SentOnce /\ (\A h \in Hosts : SweepCovers(h))
         /\ crashes = 0 /\ SentInOrder /\ [Next]_vars
         => SentInOrder'
<1> SUFFICES ASSUME Inv, AllKnown, StatusOnChain, SentOnce, \A h \in Hosts : SweepCovers(h),
                    crashes = 0, SentInOrder, [Next]_vars
             PROVE  SentInOrder'
  OBVIOUS
<1>1. Steady
  BY DEF Calm
<1>2. PICK h \in Hosts : Hosts = {h}
  BY <1>1 DEF Steady, Alone
<1>3. /\ LogPlaced /\ NothingExpires /\ Hands(h) /\ SteadyShape(h)
      /\ WorkersShaped /\ NoneRevived(h) /\ SweepCovers(h)
      /\ \A t \in Txns : VerdictTrue(poll[h][t])
  BY <1>2, SettledAll DEF SentOnce, StatusOnChain
<1>4. /\ AbsentLast /\ OlderBroadcast /\ LogInOrder /\ HeldInOrder(h) /\ CancelledLate(h)
      /\ \A t \in Txns : NotYet(h, t)
  BY DEF SentInOrder
<1>5. AbsentLast' /\ CancelledLate(h)'
  BY <1>1, <1>2, <1>3, <1>4, AbsentLastNext, CancelledLateNext
<1>6. OlderBroadcast' /\ LogInOrder'
  BY <1>1, <1>2, <1>3, <1>4, OrderNext
<1>7. HeldInOrder(h)'
  BY <1>2, <1>3, <1>4, HeldInOrderNext
<1>8. \A t \in Txns : NotYet(h, t)'
  BY <1>2, <1>3, <1>4, NotYetNext
<1> QED BY <1>2, <1>5, <1>6, <1>7, <1>8 DEF SentInOrder

LEMMA SentInOrderInit == Init => SentInOrder
<1> SUFFICES ASSUME Init PROVE SentInOrder
  OBVIOUS
<1>1. \A h \in Hosts : /\ Prod(h) = Off /\ Cons(h) = Off /\ chan[h] = <<>>
                       /\ cancelled[h] = FALSE
  BY TwoRoles DEF Init, SubmitterInit, Prod, Cons
<1>2. /\ \A t \in Txns : rows[t].status = "absent"
      /\ accepted = {} /\ Len(log) = 0
  BY DEF Init, StoreInit, NodeInit
<1>3. AbsentLast /\ OlderBroadcast /\ LogInOrder
  BY <1>2 DEF AbsentLast, OlderBroadcast, LogInOrder, Broadcast
<1>4. ASSUME NEW h \in Hosts
      PROVE  HeldInOrder(h) /\ CancelledLate(h) /\ \A t \in Txns : NotYet(h, t)
  <2>1. Cons(h).pc = "off"
    BY <1>1 DEF Off
  <2> QED BY <1>1, <1>2, <2>1 DEF HeldInOrder, CancelledLate, NotYet, Sending, Persisted
<1> QED BY <1>3, <1>4 DEF SentInOrder

\* The order in which one calm host sends is kept by every copy in its hands:
\* the invariant behind the next theorem.
THEOREM SentInOrderHolds == ASSUME Calm PROVE Spec => []SentInOrder
<1> DEFINE Swept == \A h \in Hosts : SweepCovers(h)
           Unbroken == crashes = 0
<1>1. Spec => []Swept
  BY SweepCoversHolds DEF Calm, Steady
<1>2. Spec => []StatusOnChain /\ []SentOnce
  BY StatusOnChainHolds, SentOnceHolds DEF Calm, Steady
<1>3. Init => AllKnown /\ Unbroken
  BY InitKnown DEF Init
<1>4. Inv /\ AllKnown /\ [Next]_vars => AllKnown'
  BY NextKnown
<1>5. Unbroken /\ [Next]_vars => Unbroken'
  BY DEF Calm, Next, Enqueue, Pass, Work, Poll, Crash, Recover, Node, vars
<1>6. /\ Inv /\ AllKnown /\ StatusOnChain /\ SentOnce /\ Swept /\ Unbroken /\ SentInOrder
      /\ [Next]_vars
      => SentInOrder'
  BY SentInOrderNext
<1> HIDE DEF Swept, Unbroken
<1> QED BY <1>1, <1>2, <1>3, <1>4, <1>5, <1>6, InvHolds, SentInOrderInit, PTL DEF Spec

\* With one host, no crashes and no failing statements, the requests of the
\* sender reach the chain in the order they were enqueued, across requeues,
\* reconciliation, foreign transactions and losses in the mempool.
THEOREM FifoOnChainHolds == ASSUME Calm PROVE Spec => []FifoOnChain
<1>1. TypeOK /\ SentInOrder => FifoOnChain
  <2> SUFFICES ASSUME NodeTypeOK, LogInOrder, NEW i \in 1 .. Len(log), NEW j \in 1 .. Len(log),
                      i < j, Own(i), Own(j)
               PROVE  log[i].hash.txn <= log[j].hash.txn
    BY DEF TypeOK, SentInOrder, FifoOnChain
  <2>1. log[i].hash \in Hashes /\ log[j].hash \in Hashes
    <3> DEFINE Entry == [hash : Hashes \cup {None}, ok : BOOLEAN]
    <3>1. log \in Seq(Entry)
      BY DEF NodeTypeOK
    <3> HIDE DEF Entry
    <3>2. log[i] \in Entry /\ log[j] \in Entry
      BY <3>1
    <3> QED BY <3>2 DEF Entry, Own
  <2>2. log[i].hash.txn \in Txns /\ log[j].hash.txn \in Txns
    BY <2>1 DEF Hashes
  <2> QED BY <2>2 DEF LogInOrder, Txns
<1> QED BY <1>1, SentInOrderHolds, TypeCorrect, PTL

-----------------------------------------------------------------------------
(* The better promise: the pipeline of a calm host, step by step, is the   *)
(* service that executes once, in order, and tells one outcome.            *)

LEMMA InitServesExactly == Init => ExactPromise!Init
BY DEF Init, StoreInit, NodeInit, SubmitterInit, ExactPromise!Init, Taken, OnChain, Own, Statuses

\* A step that tells nothing and commits nothing takes a request, or stutters.
LEMMA TakeServesExactly ==
  ASSUME Takes, OnChain' = OnChain, told' = told
  PROVE  [ExactPromise!Next]_(ExactPromise!vars)
<1>1. CASE Taken' = Taken
  BY <1>1 DEF ExactPromise!vars
<1>2. CASE \E t \in Txns : Taken' = Taken \cup {t}
  BY <1>2 DEF ExactPromise!Next, ExactPromise!Take
<1> QED BY <1>1, <1>2 DEF Takes

\* The transaction that is committed is of a younger request than all the
\* executed ones, so nothing was told of its request.
LEMMA CommitServesExactly ==
  ASSUME NodeTypeOK, NodeKnown, LogInOrder, \A t \in Txns : ToldTrue(t),
         CommitNext, Taken' = Taken, told' = told
  PROVE  [ExactPromise!Next]_(ExactPromise!vars)
<1> DEFINE tx == log[committed + 1]
<1>1. /\ committed \in Nat /\ committed + 1 \in 1 .. Len(log) /\ 1 .. committed \subseteq 1 .. Len(log)
      /\ committed' = committed + 1 /\ log' = log
  BY DEF NodeTypeOK, CommitNext
<1>2. \A j : j \in 1 .. committed' <=> j \in 1 .. committed \/ j = committed + 1
  BY <1>1
<1>3. \A j : Own(j)' <=> Own(j)
  BY <1>1 DEF Own
<1>4. CASE Own(committed + 1)
  <2>1. OnChain' = OnChain \cup {tx}
    BY <1>1, <1>2, <1>3, <1>4 DEF OnChain
  <2>2. tx.hash.txn \in Taken
    BY <1>1, <1>4 DEF NodeKnown
  <2>3. \A i \in 1 .. committed : Own(i) => log[i].hash.txn < tx.hash.txn
    BY <1>1, <1>4 DEF LogInOrder
  <2>4. \A e \in OnChain : Earlier(e.hash.txn, tx.hash.txn)
    BY <2>3 DEF OnChain, Earlier
  <2>5. "failed" \notin told[tx.hash.txn]
    <3>1. tx.hash.txn \in Txns
      BY <2>2 DEF Taken
    <3>2. ~Reverted(tx.hash.txn)
      BY <2>3, <3>1 DEF Reverted, Txns
    <3> QED BY <3>1, <3>2 DEF ToldTrue
  <2>6. ExactPromise!Execute(tx) /\ tx \in OnChain'
    BY <2>1, <2>2, <2>4, <2>5 DEF ExactPromise!Execute
  <2> QED BY <2>6 DEF ExactPromise!Next
<1>5. CASE ~Own(committed + 1)
  <2>1. OnChain' = OnChain
    BY <1>1, <1>2, <1>3, <1>5 DEF OnChain
  <2> QED BY <2>1 DEF ExactPromise!vars
<1> QED BY <1>4, <1>5

\* A webhook tells what the chain made of the request, and a second one, of a
\* row that the submitter's late update reopened, tells the same.
LEMMA TellServesExactly ==
  ASSUME Inv, AllKnown, LogPlaced, \A u \in Txns : ToldTrue(u), NEW h \in Hosts, NEW t \in Txns,
         VerdictTrue(poll[h][t]), PollNotify(h, t), told' # told
  PROVE  [ExactPromise!Next]_(ExactPromise!vars)
<1> DEFINE v == poll[h][t].verdict
<1>1. PollOK /\ PollerInv /\ NodeTypeOK /\ told \in [Txns -> SUBSET Terminal]
  BY InvParts DEF PollOK, WorkInv, RestOK
<1>2. /\ told' = [told EXCEPT ![t] = @ \cup {v}] /\ Taken' = Taken
      /\ poll[h][t].pc = "tell" /\ UNCHANGED nodeVars
  BY SameTaken DEF PollNotify, storeVars
<1>3. OnChain' = OnChain
  BY <1>2 DEF OnChain, nodeVars, Own
<1>4. t \in Taken
  BY <1>2 DEF AllKnown, PollsKnown
<1>5. /\ poll[h][t].rec.hash # None /\ poll[h][t].rec.hash.txn = t
      /\ v \in {"confirmed", "failed"}
  BY <1>1, <1>2, PollHeld, VerdictBroadcast
<1>6. (v = "confirmed" => Executed(t)) /\ (v = "failed" => Reverted(t))
  BY <1>2, <1>5 DEF VerdictTrue, Succeeded, FailedOnChain, Is, Executed, Reverted, Own
<1>7. ~(Executed(t) /\ Reverted(t))
  BY <1>1, OneOutcome
<1>8. /\ "confirmed" \in told[t] => Executed(t)
      /\ "failed" \in told[t] => Reverted(t)
      /\ "expired" \notin told[t]
  BY DEF Inv, AnnouncedIsOnChain, ToldTrue
<1>9. told[t] = {}
  <2>1. v \notin told[t]
    BY <1>1, <1>2
  <2> QED BY <1>1, <1>5, <1>6, <1>7, <1>8, <2>1 DEF Terminal
<1>10. Executed(t) <=> \E e \in OnChain : e.hash.txn = t /\ e.ok
  BY DEF Executed, OnChain
<1> HIDE DEF v
<1>11. ExactPromise!Tell(t, v) /\ v \in Terminal
  BY <1>2, <1>3, <1>4, <1>5, <1>6, <1>7, <1>9, <1>10 DEF ExactPromise!Tell, Terminal
<1> QED BY <1>11 DEF ExactPromise!Next

\* Who commits.
LEMMA WhoCommits ==
  ASSUME Steady, [Next]_vars, NEW h \in Hosts, Hosts = {h}
  PROVE  committed' = committed \/ (Node /\ CommitNext)
<1>1. Work(h) => committed' = committed
  BY WorkNode DEF nodeVars, SubmitAccepted, Accept
<1>2. Node => committed' = committed \/ CommitNext
  BY DEF Node, DropLast, Land, Accept, External
<1> QED BY <1>1, <1>2 DEF Next, Enqueue, Pass, Poll, PollStep, PollList, PollLookup, PollWrite,
        PollNotify, Crash, Recover, vars, nodeVars

LEMMA StepServesExactly ==
  ASSUME Calm
  PROVE  Inv /\ AllKnown /\ SentOnce /\ SentInOrder /\ [Next]_vars
         => [ExactPromise!Next]_(ExactPromise!vars)
<1> SUFFICES ASSUME Inv, AllKnown, SentOnce, SentInOrder, [Next]_vars
             PROVE  [ExactPromise!Next]_(ExactPromise!vars)
  OBVIOUS
<1>1. Steady
  BY DEF Calm
<1>2. PICK h \in Hosts : Hosts = {h}
  BY <1>1 DEF Steady, Alone
<1>3. /\ LogPlaced /\ LogInOrder /\ SteadyShape(h)
      /\ \A t \in Txns : ToldTrue(t) /\ VerdictTrue(poll[h][t])
  BY DEF SentOnce, SentInOrder
<1>4. NodeTypeOK /\ Takes /\ Grows
  BY InvParts, NextKnown, ChainGrows DEF PollOK, WorkInv
<1>5. CASE Node /\ CommitNext
  <2>1. told' = told /\ Taken' = Taken
    BY <1>4, <1>5, NodeStepKnown DEF Node, submitterVars
  <2> QED BY <1>3, <1>4, <1>5, <2>1, CommitServesExactly DEF AllKnown
<1>6. CASE told' # told
  BY <1>2, <1>3, <1>6, WhoTells, TellServesExactly
<1>7. CASE told' = told /\ committed' = committed
  BY <1>4, <1>7, ChainStays, TakeServesExactly
<1> QED BY <1>1, <1>2, <1>5, <1>6, <1>7, WhoCommits

\* With one host, no crashes, no failing statements, no request given up and
\* every reply in time, the pipeline keeps the better promise for any number
\* of requests, foreign transactions and losses in the mempool: every request
\* is executed once at most and in order, one outcome is told of it, and it
\* is what the chain made of it.
THEOREM ImplementsExactlyHolds == ASSUME Calm PROVE Spec => ImplementsExactly
<1>1. Init => AllKnown
  BY InitKnown
<1>2. Inv /\ AllKnown /\ [Next]_vars => AllKnown'
  BY NextKnown
<1>3. Inv /\ AllKnown /\ SentOnce /\ SentInOrder /\ [Next]_vars
      => [ExactPromise!Next]_(ExactPromise!vars)
  BY StepServesExactly
<1>4. Steady
  BY DEF Calm
<1>5. Spec => []SentOnce
  BY <1>4, SentOnceHolds
<1> QED BY <1>1, <1>2, <1>3, <1>5, InitServesExactly, InvHolds, SentInOrderHolds, PTL
        DEF Spec, ImplementsExactly, ExactPromise!Spec

=============================================================================
