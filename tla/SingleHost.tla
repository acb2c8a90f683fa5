----------------------------- MODULE SingleHost -----------------------------
(***************************************************************************)
(* The pipeline when one host serves the sender: the conditions under      *)
(* which it keeps its stronger promises, and the inductive invariants      *)
(* behind them.  What the workers hold in memory is then the whole story:  *)
(* a row is changed by the worker, by the poller once its transaction is   *)
(* on chain, and by the recovery when nobody holds it.                     *)
(***************************************************************************)
EXTENDS Conformance

Alone == \E h : Hosts = {h}

\* No copy of a row outlives what the worker does with the row: no request is
\* given up for good (its siblings would be shifted), the producer does not
\* reconcile beside the consumer, and what the worker holds is not recovered.
\* Crashes, failing statements, foreign transactions and mempool losses stay.
Steady ==
  /\ Alone
  /\ ~Simulate /\ ~LostReplies /\ ~SlowWorkers
  /\ Refused = {} /\ ~Outages /\ MaxAge = 0

\* The same without crashes and without failing statements.
Calm == Steady /\ MaxCrashes = 0 /\ MaxFaults = 0

-----------------------------------------------------------------------------
(* The worker.                                                             *)

Prod(h) == actor[Producer(h)]
Cons(h) == actor[Consumer(h)]

\* The consumer has met no failure yet.
Sending(h) == Cons(h).pc \in {"receive", "persist", "submit", "mark"}

Sweeping(h) == Cons(h).pc \in {"requeue", "release"} /\ Cons(h).ret = "sweep"

\* The producer has ended and the channel is empty.
Winding(h) ==
  Cons(h).pc \in {"off", "drainReconcile", "sweepList", "sweep"} \/ Sweeping(h)

ProducerShape(h) ==
  /\ Prod(h).pc \in Procedures \cup {"off", "claim", "load", "prepare", "push"}
  /\ Prod(h).pc \in Procedures => Prod(h).ret \in {"off", "claim"}
  /\ Prod(h).pc # "sibling" => Prod(h).todo = {}

ConsumerShape(h) ==
  /\ Cons(h).pc \notin {"claim", "load", "prepare", "push"}
  /\ Cons(h).pc \in Procedures => Cons(h).ret \in {"stop", "drain"} \/ Sweeping(h)
  /\ Cons(h).todo # {} => Cons(h).pc \in {"sibling", "sweep"} \/ Sweeping(h)

\* The two goroutines keep to their program texts, and a worker winds up only
\* when its producer is gone and its channel is empty.
Shape(h) ==
  /\ ProducerShape(h) /\ ConsumerShape(h)
  /\ Winding(h) => Prod(h).pc = "off" /\ chan[h] = <<>>

\* The consumer submits the hash that it has persisted.
HashInHand(h) ==
  /\ Cons(h).pc \in {"submit", "mark"} => Cons(h).rec.hash = Cons(h).hash
  /\ Cons(h).pc = "mark" => Cons(h).hash \in accepted

WorkersShaped == \A h \in Hosts : Shape(h) /\ HashInHand(h)

-----------------------------------------------------------------------------
(* What a submitted and a confirmed row say of the chain.                  *)

Beyond == {"submitted"} \cup Terminal

\* Records on their way from the producer to the broadcast.
OnTheWay(h) ==
  {chan[h][i].rec : i \in 1 .. Len(chan[h])}
  \cup {rec \in {Cons(h).rec} : Cons(h).pc = "persist"}

\* Whether the producer can still write row t.
ProducerHas(h, t) ==
  \/ Prod(h).pc \notin {"off", "claim"} /\ Prod(h).rec.txn = t
  \/ \E rec \in Prod(h).todo : rec.txn = t

\* Until a failure, a copy that was read back when its row had already gone
\* past processing is never one the consumer could write.
NoneRevived(h) ==
  Sending(h) =>
    /\ \A rec \in OnTheWay(h) : rec.status \in Beyond =>
         rows[rec.txn].status \in Beyond /\ ~ProducerHas(h, rec.txn)
    /\ Prod(h).pc \in {"prepare", "push"} /\ Prod(h).rec.status \in Beyond =>
         rows[Prod(h).rec.txn].status \in Beyond

\* What a row says of the chain is true, and no copy in the worker's hands can
\* bring back an older status: the consumer winds up only after its producer,
\* which may still be at a statement when the pipeline is cancelled, and submits
\* the very hash it persisted.
StatusOnChain ==
  /\ WorkersShaped
  /\ \A h \in Hosts : NoneRevived(h)
  /\ SubmittedWasAccepted /\ ConfirmedIsOnChain

-----------------------------------------------------------------------------
(* No row in processing is forgotten.                                      *)

\* Requests the consumer is about to give back.
InSweep(h) ==
  {rec.txn : rec \in Cons(h).todo}
  \cup {rec.txn : rec \in {x \in {Cons(h).rec} : Cons(h).pc = "requeue"}}

\* When the worker sweeps, each is on its list, and when it has exited there
\* is none.
SweepCovers(h) ==
  crashes = 0 =>
    /\ Cons(h).pc = "off" => Recoverable = {}
    /\ Cons(h).pc = "sweep" \/ Sweeping(h) => Recoverable \subseteq InSweep(h)

-----------------------------------------------------------------------------
(* One broadcast per request.                                              *)

Broadcast(t) == \E hash \in accepted : hash.txn = t

\* Every accepted transaction has the place its sequence number names, and a
\* request has one accepted hash at most.
LogPlaced ==
  /\ \A i \in 1 .. Len(log) : Own(i) => log[i].hash \in accepted /\ log[i].hash.seq = i - 1
  /\ \A x, y \in accepted : x.txn = y.txn => x = y

\* What is not met in the steady pipeline.
NothingExpires == age = [t \in Txns |-> 0] /\ underway = {}
SteadyShape(h) ==
  /\ Prod(h).pc \in {"off", "claim", "load", "prepare", "push", "requeue", "release"}
  /\ Cons(h).pc \notin {"fail", "shift", "notify"}

\* Only a row in flight has a hash, and no copy that a failure procedure may
\* write back has one.
QueuedUnhashed ==
  \A t \in Txns : rows[t].status \in {"absent", "queued"} => rows[t].hash = None

CopiesUnhashed(h) ==
  /\ Prod(h).pc \notin {"off", "claim"} => Prod(h).rec.hash = None
  /\ Prod(h).pc = "load" => rows[Prod(h).rec.txn].hash = None
  /\ \A i \in 1 .. Len(chan[h]) : chan[h][i].rec.hash = None
  /\ Cons(h).pc \in Procedures \cup {"persist"} => Cons(h).rec.hash = None
  /\ \A rec \in Cons(h).todo : rec.hash = None

ProducerBusy(h) == Prod(h).pc \in {"load", "prepare", "push", "requeue"}
ConsumerBusy(h) == Cons(h).pc \in {"persist", "submit", "mark"}

Claimed(t) == rows[t].status = "processing" /\ rows[t].hash = None
Persisted(t) == rows[t].status = "processing" /\ rows[t].hash # None

\* Until a failure, the rows in hand are claimed, and each is held once.
HeldOnce(h) ==
  Sending(h) =>
    /\ ProducerBusy(h) => Claimed(Prod(h).rec.txn)
    /\ \A i \in 1 .. Len(chan[h]) :
         /\ Claimed(chan[h][i].rec.txn)
         /\ \A j \in 1 .. Len(chan[h]) : chan[h][i].rec.txn = chan[h][j].rec.txn => i = j
         /\ ProducerBusy(h) => Prod(h).rec.txn # chan[h][i].rec.txn
         /\ ConsumerBusy(h) => Cons(h).rec.txn # chan[h][i].rec.txn
    /\ Cons(h).pc = "persist" => Claimed(Cons(h).rec.txn)
    /\ Cons(h).pc = "submit" => Persisted(Cons(h).rec.txn)
    /\ ProducerBusy(h) /\ ConsumerBusy(h) => Prod(h).rec.txn # Cons(h).rec.txn

\* Nobody holds anything that could bring row t back to the queue.
LetGo(h, t) ==
  /\ ProducerBusy(h) => Prod(h).rec.txn # t
  /\ \A i \in 1 .. Len(chan[h]) : chan[h][i].rec.txn # t
  /\ Cons(h).pc \in Procedures \cup {"persist", "submit"} => Cons(h).rec.txn # t
  /\ \A rec \in Cons(h).todo : rec.txn # t

\* Once a transaction of a request has been accepted, its row has left the
\* queue for good.
NoneResent ==
  \A t \in Txns : Broadcast(t) =>
    /\ rows[t].status \notin {"absent", "queued"} /\ rows[t].hash # None
    /\ \A h \in Hosts : LetGo(h, t)

\* The poller speaks of transactions that the chain has executed.
FailedOnChain(hash) == \E i \in 1 .. committed : Is(i, hash) /\ ~log[i].ok

VerdictTrue(p) ==
  p.pc \in {"write", "tell"} =>
    \/ p.verdict = "confirmed" /\ Succeeded(p.rec.hash)
    \/ p.verdict = "failed" /\ FailedOnChain(p.rec.hash)

Reverted(t) == \E i \in 1 .. committed : Own(i) /\ log[i].hash.txn = t /\ ~log[i].ok

ToldTrue(t) == "expired" \notin told[t] /\ ("failed" \in told[t] => Reverted(t))

\* What has been broadcast for a request is never brought back to the queue.
SentOnce ==
  /\ LogPlaced /\ NothingExpires /\ QueuedUnhashed /\ NoneResent
  /\ \A h \in Hosts : SteadyShape(h) /\ CopiesUnhashed(h) /\ HeldOnce(h)
  /\ \A h \in Hosts, t \in Txns : VerdictTrue(poll[h][t])
  /\ \A t \in Txns : ToldTrue(t)

-----------------------------------------------------------------------------
(* The order of the requests.                                              *)

\* Row t is in the hands of the worker, not yet broadcast.
HoldsRow(h, t) ==
  \/ ProducerBusy(h) /\ Prod(h).rec.txn = t
  \/ \E i \in 1 .. Len(chan[h]) : chan[h][i].rec.txn = t
  \/ Cons(h).pc \in {"persist", "submit"} /\ Cons(h).rec.txn = t

\* Until a failure, the consumer, the channel and the producer hold requests
\* in their order, all older than the ones that wait, and hold every row that
\* is claimed.
HeldInOrder(h) ==
  Sending(h) =>
    /\ \A i \in 1 .. Len(chan[h]) :
         /\ \A j \in 1 .. Len(chan[h]) : i < j => chan[h][i].rec.txn < chan[h][j].rec.txn
         /\ ProducerBusy(h) => chan[h][i].rec.txn < Prod(h).rec.txn
         /\ ConsumerBusy(h) => Cons(h).rec.txn < chan[h][i].rec.txn
    /\ ProducerBusy(h) /\ ConsumerBusy(h) => Cons(h).rec.txn < Prod(h).rec.txn
    /\ \A t, u \in Txns : HoldsRow(h, t) /\ rows[u].status \in {"absent", "queued"} => t < u
    /\ \A t \in Recoverable : HoldsRow(h, t)

\* Only the pipeline of a failed consumer is cancelled.
CancelledLate(h) == Sending(h) \/ Cons(h).pc = "off" => ~cancelled[h]

\* A row in processing whose hash was not broadcast is being given back.
GivenBack(h, t) ==
  /\ Cons(h).rec.txn = t
  /\ Cons(h).pc \in {"submit", "requeue", "account", "counter", "list", "sibling"}

\* Requests arrive in their order.
AbsentLast ==
  \A t, u \in Txns : t < u /\ rows[t].status = "absent" => rows[u].status = "absent"

\* With a request, all older ones have been broadcast.
OlderBroadcast == \A t, u \in Txns : u < t /\ Broadcast(t) => Broadcast(u)

\* A request that has not been broadcast waits, is in hand or is given back.
NotYet(h, t) ==
  ~Broadcast(t) => /\ rows[t].status \in {"absent", "queued", "processing"}
                   /\ Persisted(t) => GivenBack(h, t)

\* The node accepts the requests in their order, each once at most.
LogInOrder ==
  \A i, j \in 1 .. Len(log) :
    i < j /\ Own(i) /\ Own(j) => log[i].hash.txn < log[j].hash.txn

\* Wherever the requests are, from the queue to the mempool, they are in order.
SentInOrder ==
  /\ AbsentLast /\ OlderBroadcast /\ LogInOrder
  /\ \A h \in Hosts : /\ HeldInOrder(h) /\ CancelledLate(h)
                      /\ \A t \in Txns : NotYet(h, t)

=============================================================================
