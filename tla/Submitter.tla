----------------------------- MODULE Submitter -----------------------------
(***************************************************************************)
(* internal/submitter: per host, a dispatcher that starts a worker for the *)
(* sender, and the worker itself, a producer that claims, builds and signs *)
(* and a consumer that submits, joined by a bounded channel.  Both run the *)
(* same failure procedures (requeueTransient, markPermanentFailure,        *)
(* reconcileAndRequeue), so both are actors with the same program text.    *)
(* Every SQL statement and every RPC is a step of its own; the actor's     *)
(* record in memory is a copy, which others may have made stale.           *)
(***************************************************************************)
EXTENDS TxStore, AptosNode

CONSTANTS
  Hosts,            \* server instances sharing the database
  Depth,            \* SubmitterSigningPipelineDepth
  Simulate,         \* SimulateBeforeSubmit
  Refused,          \* requests that validation may reject
  Reverting,        \* requests that the VM rejects
  LostReplies,      \* a submit that is reported as an error may still arrive
  Outages,          \* the services prepareRecord resolves from may be down
  MaxSignings,      \* bound: signings per request
  MaxFaults         \* bound: SQL statements that fail

ASSUME SubmitterAssumption ==
  /\ Depth \in Nat \ {0} /\ MaxSignings \in Nat /\ MaxFaults \in Nat
  /\ {Simulate, LostReplies, Outages} \subseteq BOOLEAN
  /\ Refused \subseteq Txns /\ Reverting \subseteq Txns

VARIABLES
  age,        \* 0, 1: past expires_at, 2: past max_retry_duration as well
  signed,     \* how often each request was signed
  told,       \* outcomes announced by webhook, per request
  actor,      \* the producer and the consumer of each host's worker
  chan,       \* the channel between them
  cancelled,  \* whether pipeCancel was called on the host's pipeline
  faults      \* failed SQL statements so far

workerVars == <<actor, chan, cancelled>>
submitterVars == <<age, signed, told, actor, chan, cancelled, faults>>

Roles == {"producer", "consumer"}
Actors == Hosts \X Roles
Producer(h) == <<h, "producer">>
Consumer(h) == <<h, "consumer">>

Procedures == {"requeue", "release", "fail", "shift", "notify", "account",
               "counter", "list", "sibling"}
PCs == Procedures \cup
       {"off", "claim", "load", "prepare", "push",
        "receive", "persist", "submit", "mark", "stop", "drain",
        "drainReconcile", "sweepList", "sweep"}
Returns == {"off", "claim", "stop", "drain", "sweep"}

\* pc: next statement; rec: the record in hand; hash: of the signed item in
\* hand; todo: records of a list still to handle; chainSeq: the sequence
\* number the node reported; ret: where a failure procedure returns to.
Off == [pc |-> "off", rec |-> None, hash |-> None, todo |-> {},
        chainSeq |-> None, ret |-> "off"]

Items == [rec : Records, hash : Hashes]
ActorStates == [pc : PCs, rec : Records \cup {None}, hash : Hashes \cup {None},
                todo : SUBSET Records, chainSeq : Nat \cup {None}, ret : Returns]

SubmitterTypeOK ==
  /\ age \in [Txns -> 0 .. 2]
  /\ signed \in [Txns -> Nat]
  /\ told \in [Txns -> SUBSET Terminal]
  /\ actor \in [Actors -> ActorStates]
  /\ chan \in [Hosts -> Seq(Items)]
  /\ cancelled \in [Hosts -> BOOLEAN]
  /\ faults \in Nat

SubmitterInit ==
  /\ age = [t \in Txns |-> 0]
  /\ signed = [t \in Txns |-> 0]
  /\ told = [t \in Txns |-> {}]
  /\ actor = [a \in Actors |-> Off]
  /\ chan = [h \in Hosts |-> <<>>]
  /\ cancelled = [h \in Hosts |-> FALSE]
  /\ faults = 0

-----------------------------------------------------------------------------
At(a, pc) == actor[a].pc = pc
Rec(a) == actor[a].rec

Goto(a, pc) == actor' = [actor EXCEPT ![a].pc = pc]

\* Run failure procedure pc on rec, then continue at ret.
Call(a, pc, rec, ret) ==
  actor' = [actor EXCEPT ![a].pc = pc, ![a].rec = rec, ![a].ret = ret]

\* Leave the record behind and continue at pc.
Leave(a, pc) == actor' = [actor EXCEPT ![a] = [Off EXCEPT !.pc = pc]]

\* Leave a failure procedure; what is left of a sweep's list is kept.
Return(a) == actor' = [actor EXCEPT ![a] =
               [Off EXCEPT !.pc = actor[a].ret, !.todo = actor[a].todo]]

\* The producer runs under the pipeline's context, the consumer does not.
Cancelled(a) == a[2] = "producer" /\ cancelled[a[1]]

\* One SQL statement: it fails under a cancelled context, and it may fail.
Succeeds(a) == ~Cancelled(a) /\ UNCHANGED faults
Fails(a) ==
  \/ Cancelled(a) /\ UNCHANGED faults
  \/ ~Cancelled(a) /\ faults < MaxFaults /\ faults' = faults + 1

\* Mistake: the requeue does not clear the sequence number.
RequeuedNumbered(rec) == [rec EXCEPT !.status = "queued"]

Requeued(rec) == [rec EXCEPT !.status = "queued", !.seq = None]

-----------------------------------------------------------------------------
(* The failure procedures, run by the producer and by the consumer.        *)

\* requeueTransient and requeueRecord: a blind update, and then the release.
Requeue(a) ==
  /\ At(a, "requeue")
  /\ \/ Succeeds(a) /\ Update(Requeued(Rec(a)))
     \/ Fails(a) /\ UNCHANGED storeVars
  /\ IF Rec(a).seq = None THEN Return(a) ELSE Goto(a, "release")
  /\ UNCHANGED <<nodeVars, age, signed, told, chan, cancelled>>

Release(a) ==
  /\ At(a, "release")
  /\ \/ Succeeds(a) /\ ReleaseSequence
     \/ Fails(a) /\ UNCHANGED storeVars
  /\ Return(a)
  /\ UNCHANGED <<nodeVars, age, signed, told, chan, cancelled>>

\* markPermanentFailure: a blind update, the shift of the siblings if the
\* record holds a sequence number, and the webhook whatever became of those.
Fail(a) ==
  /\ At(a, "fail")
  /\ \/ Succeeds(a) /\ Update([Rec(a) EXCEPT !.status = "failed"])
     \/ Fails(a) /\ UNCHANGED storeVars
  /\ Goto(a, IF Rec(a).seq = None THEN "notify" ELSE "shift")
  /\ UNCHANGED <<nodeVars, age, signed, told, chan, cancelled>>

Shift(a) ==
  /\ At(a, "shift")
  /\ \/ Succeeds(a) /\ ShiftSenderSequences(Rec(a).seq)
     \/ Fails(a) /\ UNCHANGED storeVars
  /\ Goto(a, "notify")
  /\ UNCHANGED <<nodeVars, age, signed, told, chan, cancelled>>

NotifyFailed(a) ==
  /\ At(a, "notify")
  /\ \/ Succeeds(a) /\ told' = [told EXCEPT ![Rec(a).txn] = @ \cup {"failed"}]
     \/ Fails(a) /\ UNCHANGED told
  /\ Return(a)
  /\ UNCHANGED <<storeVars, nodeVars, age, signed, chan, cancelled>>

\* reconcileAndRequeue: without the account's sequence number it falls back
\* to requeueTransient.
FetchAccount(a) ==
  /\ At(a, "account")
  /\ \/ actor' = [actor EXCEPT ![a].pc = "counter", ![a].chainSeq = ChainSequence]
     \/ Goto(a, "requeue")
  /\ UNCHANGED <<storeVars, nodeVars, age, signed, told, chan, cancelled, faults>>

\* applyReconcile, first statement: down to the chain when the chain is
\* behind the number just tried, up to it otherwise.
AdjustCounter(a) ==
  /\ At(a, "counter")
  /\ \/ /\ Succeeds(a)
        /\ IF actor[a].chainSeq < Rec(a).seq
           THEN ForceResetSequenceToChain(actor[a].chainSeq)
           ELSE ReconcileSequence(actor[a].chainSeq)
     \/ Fails(a) /\ UNCHANGED storeVars
  /\ Goto(a, "list")
  /\ UNCHANGED <<nodeVars, age, signed, told, chan, cancelled>>

\* ListByStatus(processing) without the record itself and the hashed rows.
ListSiblings(a) ==
  /\ At(a, "list")
  /\ \/ /\ Succeeds(a)
        /\ actor' = [actor EXCEPT ![a].pc = "sibling",
             ![a].todo = {Row(t) : t \in Recoverable \ {Rec(a).txn}}]
     \/ Fails(a) /\ Goto(a, "sibling")
  /\ UNCHANGED <<storeVars, nodeVars, age, signed, told, chan, cancelled>>

\* requeueWithoutRelease: a blind update from the copy the list returned.
RequeueSibling(a) ==
  /\ At(a, "sibling")
  /\ \E rec \in actor[a].todo :
       /\ \/ Succeeds(a) /\ Update(Requeued(rec))
          \/ Fails(a) /\ UNCHANGED storeVars
       /\ actor' = [actor EXCEPT ![a].todo = @ \ {rec}]
  /\ UNCHANGED <<nodeVars, age, signed, told, chan, cancelled>>

\* The record itself goes last, and its sequence number is not released.
RequeueReconciled(a) ==
  /\ At(a, "sibling")
  /\ actor[a].todo = {}
  /\ \/ Succeeds(a) /\ Update(Requeued(Rec(a)))
     \/ Fails(a) /\ UNCHANGED storeVars
  /\ Return(a)
  /\ UNCHANGED <<nodeVars, age, signed, told, chan, cancelled>>

-----------------------------------------------------------------------------
(* Dispatcher and producer.                                                *)

\* Run, one tick: the workers map holds no worker for the sender.
Spawn(h) ==
  /\ At(Producer(h), "off") /\ At(Consumer(h), "off")
  /\ InStatus("queued") # {}
  /\ actor' = [actor EXCEPT ![Producer(h)].pc = "claim",
                            ![Consumer(h)].pc = "receive"]
  /\ UNCHANGED <<storeVars, nodeVars, age, signed, told, chan, cancelled, faults>>

\* pipelineProducer, top of the loop.  A claim that fails changes nothing.
Claim(a) ==
  /\ At(a, "claim") /\ ~Cancelled(a)
  /\ \E t \in Txns :
       /\ ClaimOldest(t)
       /\ actor' = [actor EXCEPT ![a].pc = "load",
            ![a].rec = [txn |-> t, status |-> "processing", seq |-> nextSeq,
                        hash |-> rows[t].hash]]
  /\ UNCHANGED <<nodeVars, age, signed, told, chan, cancelled, faults>>

StopProducing(a) ==
  /\ At(a, "claim")
  /\ Cancelled(a) \/ InStatus("queued") = {}
  /\ Leave(a, "off")
  /\ UNCHANGED <<storeVars, nodeVars, age, signed, told, chan, cancelled, faults>>

\* ClaimNextQueuedForSender reads the claimed row back after its commit; if
\* that fails the row stays claimed and the caller knows nothing of it.
Load(a) ==
  /\ At(a, "load")
  /\ \/ /\ Succeeds(a)
        /\ actor' = [actor EXCEPT ![a].pc = "prepare", ![a].rec = Row(Rec(a).txn)]
     \/ Fails(a) /\ Leave(a, "claim")
  /\ UNCHANGED <<storeVars, nodeVars, age, signed, told, chan, cancelled>>

Expired(t) == age[t] >= 1
RetriesOver(t) == age[t] = 2

\* prepareRecord: the failure procedures it may call before it has signed.
PrepareFailures(a) ==
  LET t == Rec(a).txn
      numbered == Rec(a).seq # None
      rejected == t \in Refused \/ Outages \/ (Simulate /\ t \in Reverting)
  IN
  IF Expired(t) THEN {"fail"}
  ELSE {"requeue"}
       \cup {pc \in {"fail"} : numbered /\ rejected}
       \cup {pc \in {"account"} : numbered /\ Simulate /\ Rec(a).seq # ChainSequence}

Unprepared(a) ==
  /\ At(a, "prepare")
  /\ \E pc \in PrepareFailures(a) : Call(a, pc, Rec(a), "claim")
  /\ UNCHANGED <<storeVars, nodeVars, age, signed, told, chan, cancelled, faults>>

\* prepareRecord succeeds: simulated at the chain's sequence number, signed.
Sign(a) ==
  LET t == Rec(a).txn IN
  /\ At(a, "prepare")
  /\ ~Expired(t) /\ signed[t] < MaxSignings
  /\ Rec(a).seq # None
  /\ Simulate => (Rec(a).seq = ChainSequence /\ t \notin Reverting)
  /\ actor' = [actor EXCEPT ![a].pc = "push",
       ![a].hash = [txn |-> t, seq |-> Rec(a).seq, n |-> signed[t] + 1]]
  /\ signed' = [signed EXCEPT ![t] = @ + 1]
  /\ UNCHANGED <<storeVars, nodeVars, age, told, chan, cancelled, faults>>

\* The select of pipelineProducer: send, or give the record back if the
\* context is done.  Go takes either branch when both are ready.
Push(a) ==
  /\ At(a, "push")
  /\ Len(chan[a[1]]) < Depth
  /\ chan' = [chan EXCEPT ![a[1]] = Append(@, [rec |-> Rec(a), hash |-> actor[a].hash])]
  /\ Leave(a, "claim")
  /\ UNCHANGED <<storeVars, nodeVars, age, signed, told, cancelled, faults>>

GiveUpPush(a) ==
  /\ At(a, "push") /\ Cancelled(a)
  /\ Call(a, "requeue", Rec(a), "off")
  /\ UNCHANGED <<storeVars, nodeVars, age, signed, told, chan, cancelled, faults>>

-----------------------------------------------------------------------------
(* Consumer.                                                               *)

\* Mistake: the consumer does not wait for the producer.
ClosedEarly(h) == h \in Hosts

Closed(h) == At(Producer(h), "off")

Receive(a) ==
  /\ At(a, "receive")
  /\ chan[a[1]] # <<>>
  /\ actor' = [actor EXCEPT ![a].pc = "persist", ![a].rec = Head(chan[a[1]]).rec,
                            ![a].hash = Head(chan[a[1]]).hash]
  /\ chan' = [chan EXCEPT ![a[1]] = Tail(@)]
  /\ UNCHANGED <<storeVars, nodeVars, age, signed, told, cancelled, faults>>

\* submitSigned, before the broadcast: the hash is persisted if the row is
\* still in processing; if it is not, nothing is submitted nor released.
PersistHash(a) ==
  LET hashed == [Rec(a) EXCEPT !.hash = actor[a].hash]
      cleared == [Rec(a) EXCEPT !.hash = None]
  IN
  /\ At(a, "persist")
  /\ \/ /\ Succeeds(a) /\ StatusIs(hashed, "processing")
        /\ Update(hashed)
        /\ actor' = [actor EXCEPT ![a].pc = "submit", ![a].rec = hashed]
     \/ /\ Succeeds(a) /\ ~StatusIs(hashed, "processing")
        /\ UNCHANGED storeVars
        /\ Leave(a, "stop")
     \/ /\ Fails(a)
        /\ UNCHANGED storeVars
        /\ Call(a, "requeue", cleared, "stop")
  /\ UNCHANGED <<nodeVars, age, signed, told, chan, cancelled>>

\* The VM's verdict on a request, should it be executed.
Executes(hash) == hash.txn \notin Reverting

SubmitAccepted(a) ==
  /\ At(a, "submit")
  /\ Accept(actor[a].hash, Executes(actor[a].hash))
  /\ Goto(a, "mark")
  /\ UNCHANGED <<storeVars, age, signed, told, chan, cancelled, faults>>

\* The node rejects the sequence number: isSequenceError.
SubmitMisnumbered(a) ==
  /\ At(a, "submit")
  /\ actor[a].hash.seq # ExpectedSequence
  /\ Call(a, "account", [Rec(a) EXCEPT !.hash = None], "stop")
  /\ UNCHANGED <<storeVars, nodeVars, age, signed, told, chan, cancelled, faults>>

\* Mistake: an error of the submit is taken for an accepted submit.
SubmitErrorIgnored(a) ==
  /\ At(a, "submit")
  /\ Goto(a, "mark")
  /\ UNCHANGED <<storeVars, nodeVars, age, signed, told, chan, cancelled, faults>>

\* Any other error.  The code takes it that nothing is on chain; after a
\* timeout the goroutine of SubmitTransactionCtx goes on, and the node may
\* accept the transaction at once or long after.
SubmitError(a) ==
  /\ At(a, "submit")
  /\ \/ UNCHANGED nodeVars
     \/ LostReplies /\ Abandon(actor[a].hash)
  /\ Call(a, IF RetriesOver(Rec(a).txn) THEN "fail" ELSE "requeue",
          [Rec(a) EXCEPT !.hash = None], "stop")
  /\ UNCHANGED <<storeVars, age, signed, told, chan, cancelled, faults>>

\* updateWithRetry: blind; if every try fails the row stays as it is.
MarkSubmitted(a) ==
  /\ At(a, "mark")
  /\ \/ Succeeds(a) /\ Update([Rec(a) EXCEPT !.status = "submitted"]) /\ Leave(a, "receive")
     \/ Fails(a) /\ UNCHANGED storeVars /\ Leave(a, "stop")
  /\ UNCHANGED <<nodeVars, age, signed, told, chan, cancelled>>

\* runSenderWorker after a failed item: pipeCancel, then drainPipeline.
StopPipeline(a) ==
  /\ At(a, "stop")
  /\ cancelled' = [cancelled EXCEPT ![a[1]] = TRUE]
  /\ Goto(a, "drain")
  /\ UNCHANGED <<storeVars, nodeVars, age, signed, told, chan, faults>>

Drain(a) ==
  /\ At(a, "drain")
  /\ chan[a[1]] # <<>>
  /\ Call(a, "requeue", Head(chan[a[1]]).rec, "drain")
  /\ chan' = [chan EXCEPT ![a[1]] = Tail(@)]
  /\ UNCHANGED <<storeVars, nodeVars, age, signed, told, cancelled, faults>>

DrainAccount(a) ==
  /\ At(a, "drain")
  /\ chan[a[1]] = <<>> /\ Closed(a[1])
  /\ \/ actor' = [actor EXCEPT ![a].pc = "drainReconcile", ![a].chainSeq = ChainSequence]
     \/ Leave(a, "sweepList")
  /\ UNCHANGED <<storeVars, nodeVars, age, signed, told, chan, cancelled, faults>>

DrainReconcile(a) ==
  /\ At(a, "drainReconcile")
  /\ \/ Succeeds(a) /\ ReconcileSequence(actor[a].chainSeq)
     \/ Fails(a) /\ UNCHANGED storeVars
  /\ Leave(a, "sweepList")
  /\ UNCHANGED <<nodeVars, age, signed, told, chan, cancelled>>

\* The channel is closed and empty without a failure: the range loop ends.
Finish(a) ==
  /\ At(a, "receive")
  /\ chan[a[1]] = <<>> /\ Closed(a[1])
  /\ Leave(a, "sweepList")
  /\ UNCHANGED <<storeVars, nodeVars, age, signed, told, chan, cancelled, faults>>

\* sweepOrphanedProcessing: list the unhashed processing rows, requeue each.
SweepList(a) ==
  /\ At(a, "sweepList")
  /\ \/ /\ Succeeds(a)
        /\ actor' = [actor EXCEPT ![a].pc = "sweep", ![a].todo = {Row(t) : t \in Recoverable}]
     \/ Fails(a) /\ Goto(a, "sweep")
  /\ UNCHANGED <<storeVars, nodeVars, age, signed, told, chan, cancelled>>

Sweep(a) ==
  /\ At(a, "sweep")
  /\ \E rec \in actor[a].todo :
       actor' = [actor EXCEPT ![a].pc = "requeue", ![a].rec = rec, ![a].ret = "sweep",
                              ![a].todo = @ \ {rec}]
  /\ UNCHANGED <<storeVars, nodeVars, age, signed, told, chan, cancelled, faults>>

\* The worker is done: its entry leaves the workers map.
Exit(a) ==
  /\ At(a, "sweep")
  /\ actor[a].todo = {}
  /\ Leave(a, "off")
  /\ cancelled' = [cancelled EXCEPT ![a[1]] = FALSE]
  /\ UNCHANGED <<storeVars, nodeVars, age, signed, told, chan, faults>>

-----------------------------------------------------------------------------
Procedure(a) ==
  \/ Requeue(a) \/ Release(a)
  \/ Fail(a) \/ Shift(a) \/ NotifyFailed(a)
  \/ FetchAccount(a) \/ AdjustCounter(a) \/ ListSiblings(a)
  \/ RequeueSibling(a) \/ RequeueReconciled(a)

Produce(a) ==
  \/ Claim(a) \/ StopProducing(a) \/ Load(a)
  \/ Unprepared(a) \/ Sign(a) \/ Push(a) \/ GiveUpPush(a)

Consume(a) ==
  \/ Receive(a) \/ PersistHash(a)
  \/ SubmitAccepted(a) \/ SubmitMisnumbered(a) \/ SubmitError(a)
  \/ MarkSubmitted(a) \/ StopPipeline(a)
  \/ Drain(a) \/ DrainAccount(a) \/ DrainReconcile(a)
  \/ Finish(a) \/ SweepList(a) \/ Sweep(a) \/ Exit(a)

=============================================================================
