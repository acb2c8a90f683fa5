------------------------------ MODULE Pipeline ------------------------------
(***************************************************************************)
(* The transaction pipeline of one sender: the API enqueues, each host's   *)
(* worker submits, each host's recover loop and poller run beside it, the  *)
(* Aptos node executes, time passes and hosts crash and restart.           *)
(***************************************************************************)
EXTENDS Poller

CONSTANTS
  SlowWorkers,      \* a live worker may hold a row past the stale threshold
  MaxAge,           \* bound: how old requests become
  MaxCrashes,       \* bound: host crashes
  Mixed             \* bound: a crash and a foreign transaction may come together

ASSUME PipelineAssumption ==
  /\ SlowWorkers \in BOOLEAN /\ MaxAge \in 0 .. 2
  /\ MaxCrashes \in Nat /\ Mixed \in BOOLEAN

VARIABLE
  crashes           \* host crashes so far

vars == <<storeVars, nodeVars, submitterVars, poll, crashes>>

TypeOK ==
  /\ StoreTypeOK
  /\ NodeTypeOK
  /\ SubmitterTypeOK
  /\ PollerTypeOK
  /\ crashes \in Nat

Init ==
  /\ StoreInit /\ NodeInit /\ SubmitterInit /\ PollerInit
  /\ crashes = 0

-----------------------------------------------------------------------------
\* Execute, at the end of its handler: the row is created.
Enqueue(t) ==
  /\ Create(t)
  /\ UNCHANGED <<nodeVars, submitterVars, poll, crashes>>

\* Records a live worker has in hand, listed or waiting in its channel.
InHand(h) ==
  LET held(a) == IF Rec(a) = None THEN {} ELSE {Rec(a).txn} IN
  (UNION {held(<<h, r>>) : r \in Roles})
  \cup {chan[h][i].rec.txn : i \in 1 .. Len(chan[h])}
  \cup {rec.txn : rec \in UNION {actor[<<h, r>>].todo : r \in Roles}}

\* Rows whose updated_at may be older than the stale threshold.
Stale == {t \in Recoverable : SlowWorkers \/ \A h \in Hosts : t \notin InHand(h)}

\* recoverLoop: the rows that are old enough at this tick.
Recover ==
  \E S \in SUBSET Stale :
    /\ S # {}
    /\ RecoverStaleProcessing(S)
    /\ UNCHANGED <<nodeVars, submitterVars, poll, crashes>>

\* The host dies and restarts with nothing in memory.  A shutdown ends like
\* this too: under a cancelled context no statement changes the database.
Crash(h) ==
  /\ crashes < MaxCrashes
  /\ Mixed \/ Foreign = 0
  /\ crashes' = crashes + 1
  /\ actor' = [a \in Actors |-> IF a[1] = h THEN Off ELSE actor[a]]
  /\ chan' = [chan EXCEPT ![h] = <<>>]
  /\ cancelled' = [cancelled EXCEPT ![h] = FALSE]
  /\ poll' = [poll EXCEPT ![h] = [t \in Txns |-> Resting]]
  /\ UNCHANGED <<storeVars, nodeVars, age, signed, told, faults>>

Work(h) ==
  /\ Spawn(h) \/ Procedure(Producer(h)) \/ Procedure(Consumer(h))
     \/ Produce(Producer(h)) \/ Consume(Consumer(h))
  /\ UNCHANGED <<poll, crashes>>

Poll(h) == PollStep(h) /\ UNCHANGED crashes

\* A submit whose caller gave up reaches the node after all.
Land == \E hash \in underway : Accept(hash, Executes(hash))

Node ==
  /\ \/ CommitNext \/ DropLast \/ Land
     \/ (Mixed \/ crashes = 0) /\ External
  /\ UNCHANGED <<storeVars, submitterVars, poll, crashes>>

\* A request passes expires_at, and later max_retry_duration.
Pass(t) ==
  /\ rows[t].status # "absent"
  /\ age[t] < MaxAge
  /\ age' = [age EXCEPT ![t] = @ + 1]
  /\ UNCHANGED <<storeVars, nodeVars, signed, told, actor, chan, cancelled,
                 faults, poll, crashes>>

Next ==
  \/ \E t \in Txns : Enqueue(t) \/ Pass(t)
  \/ \E h \in Hosts : Work(h) \/ Poll(h) \/ Crash(h)
  \/ Recover
  \/ Node

Spec == Init /\ [][Next]_vars

(***************************************************************************)
(* Fairness: every goroutine that can take a step takes one; the tickers   *)
(* of the dispatcher and of the recover loop fire again and again; a sweep *)
(* of the poller visits every row it listed, so no row is passed over for  *)
(* ever; the node commits what it accepted and time passes.                *)
(***************************************************************************)
Fairness ==
  /\ \A h \in Hosts :
       /\ WF_vars(Work(h) /\ Spawn(h))
       /\ WF_vars(Work(h) /\ actor'[Producer(h)] # actor[Producer(h)])
       /\ WF_vars(Work(h) /\ actor'[Consumer(h)] # actor[Consumer(h)])
       /\ \A t \in Txns :
            /\ WF_vars(PollList(h, t) /\ UNCHANGED crashes)
            /\ WF_vars(PollLookup(h, t) /\ UNCHANGED crashes)
            /\ WF_vars((PollWrite(h, t) \/ PollNotify(h, t)) /\ UNCHANGED crashes)
  /\ \A t \in Txns : WF_vars(Recover /\ rows'[t] # rows[t]) /\ WF_vars(Pass(t))
  /\ WF_vars(Node /\ committed' # committed)

FairSpec == Spec /\ Fairness

-----------------------------------------------------------------------------
(* Properties.                                                             *)

\* The i-th transaction the node accepted is one of the service's own.
Own(i) == log[i].hash # None

\* The chain has executed a transaction of request t with success.
Executed(t) == \E i \in 1 .. committed : Own(i) /\ log[i].hash.txn = t /\ log[i].ok

\* A row is confirmed only by a transaction of this very request that the
\* chain executed successfully, whatever happened to the row in between:
\* the poller's look-up and its conditional update race the submitter's blind
\* updates of the same row.
ConfirmedIsOnChain ==
  \A t \in Txns : rows[t].status = "confirmed" =>
    rows[t].hash # None /\ rows[t].hash.txn = t /\ Succeeded(rows[t].hash)

\* No webhook says that a request was confirmed unless the chain has executed
\* a transaction of this very request, however stale the copy of the row is
\* that the poller announced it from.
AnnouncedIsOnChain == \A t \in Txns : "confirmed" \in told[t] => Executed(t)

\* A submitted row carries the hash of a transaction of this very request
\* that the node has accepted: the hash is persisted before the broadcast, the
\* status after it, and neither survives a requeue of the row.
SubmittedWasAccepted ==
  \A t \in Txns : rows[t].status = "submitted" =>
    rows[t].hash \in accepted /\ rows[t].hash.txn = t

\* A record that waits in the queue has no sequence number, and one in flight
\* has one.
Numbered(rec) ==
  /\ rec.status \in {"absent", "queued"} => rec.seq = None
  /\ rec.status \in {"processing", "submitted"} => rec.seq # None

\* No row waits in the queue with a sequence number, and none is in flight
\* without one, although every update writes back a copy of the row that the
\* claim, the requeues, the shift and the recovery may have made stale.
NumberedInFlight == \A t \in Txns : Numbered(Row(t))

\* The node never accepts two transactions of one request, whatever their
\* hashes: the duplicate broadcast that the persisted hash is there to prevent.
AtMostOnce ==
  \A i, j \in 1 .. Len(log) :
    Own(i) /\ Own(j) /\ log[i].hash.txn = log[j].hash.txn => i = j

\* The requests of a sender reach the chain in the order they were enqueued,
\* across requeues, reconciliation and restarts.
FifoOnChain ==
  \A i, j \in 1 .. Len(log) :
    i < j /\ Own(i) /\ Own(j) => log[i].hash.txn <= log[j].hash.txn

\* Webhooks never give two different outcomes of one request.
OneVerdict == \A t \in Txns : Cardinality(told[t]) <= 1

\* A worker that has exited leaves no unhashed row in processing behind, as
\* long as none has died: the sweep catches what the cancelled producer could
\* not give back.
NoOrphans ==
  crashes = 0 =>
    \A h \in Hosts : (\A r \in Roles : At(<<h, r>>, "off")) => Recoverable = {}

\* A request that reached a final status keeps it.
FinalStaysFinal ==
  [][\A t \in Txns : rows[t].status \in Terminal => rows'[t].status = rows[t].status]_vars

\* Every request that was enqueued gets a final status for good.
Settles ==
  \A t \in Txns : rows[t].status = "queued" ~> [](rows[t].status \in Terminal)

-----------------------------------------------------------------------------
(* The inductive invariant behind TypeOK, NumberedInFlight and             *)
(* AnnouncedIsOnChain: every copy of a row, wherever it is held, could be  *)
(* written back at any moment without harm to the three.                   *)

\* A hash belongs to the request whose row or record carries it.
Sound(rec) ==
  /\ rec \in Records
  /\ rec.hash # None => rec.hash.txn = rec.txn
  /\ Numbered(rec)

Signed(rec, hash) ==
  /\ Sound(rec) /\ rec.seq # None
  /\ hash \in Hashes /\ hash.txn = rec.txn

HandSound(x) ==
  /\ x.pc \in Procedures \cup {"load", "prepare"} => Sound(x.rec)
  /\ x.pc \in {"push", "persist", "submit", "mark"} => Signed(x.rec, x.hash)
  /\ x.pc \in {"counter", "drainReconcile"} => x.chainSeq \in Nat
  /\ \A rec \in x.todo : Sound(rec)

PollSound(p, t) ==
  /\ p.pc # "idle" => Sound(p.rec) /\ p.rec.txn = t
  /\ p.pc \in {"write", "tell"} =>
       /\ p.verdict \in Terminal
       /\ p.verdict = "confirmed" => Succeeded(p.rec.hash)

RowsSound == \A t \in Txns : Sound(Row(t))
HandsSound == \A a \in Actors : HandSound(actor[a])
ChansSound == \A h \in Hosts : \A i \in 1 .. Len(chan[h]) :
                Signed(chan[h][i].rec, chan[h][i].hash)
PollsSound == \A h \in Hosts, t \in Txns : PollSound(poll[h][t], t)

\* Every copy of a row in memory, in a list, in a channel or with the poller
\* is one the table could hold, and what the poller is about to announce as
\* confirmed is on chain.
CopiesSound == RowsSound /\ HandsSound /\ ChansSound /\ PollsSound

Inv == TypeOK /\ CopiesSound /\ AnnouncedIsOnChain

=============================================================================
