------------------------------- MODULE Fleet -------------------------------
(***************************************************************************)
(* One process with several senders: the dispatcher, its workers and the   *)
(* poller over one table.  A worker is reduced to what it does to the rows *)
(* of its sender; module Submitter has it in full, for one sender.         *)
(***************************************************************************)
EXTENDS Dispatcher, Paging

CONSTANT
  MaxRetries        \* bound: rows that are given back to the queue

ASSUME FleetAssumption == MaxRetries \in Nat

VARIABLES
  sending,    \* the row the consumer of each sender has in hand, or 0
  stopping,   \* senders whose worker is stopping after a failed submit
  retries     \* rows given back so far

workVars == <<sending, stopping, retries>>
vars == <<rows, dispatchVars, pagingVars, workVars>>

TypeOK ==
  /\ BacklogTypeOK /\ DispatchTypeOK /\ PagingTypeOK
  /\ sending \in [Senders -> {0} \cup Txns]
  /\ stopping \subseteq Senders
  /\ retries \in Nat

Init ==
  /\ BacklogInit /\ DispatchInit /\ PagingInit
  /\ sending = [s \in Senders |-> 0]
  /\ stopping = {}
  /\ retries = 0

-----------------------------------------------------------------------------
Enqueue(t) ==
  /\ rows[t].status = "absent"
  /\ \A u \in Txns : u < t => rows[u].status # "absent"
  /\ Change(t, Row("queued", FALSE, 0))
  /\ UNCHANGED <<dispatchVars, sweep, seen, errors, workVars>>

\* A row is written at some time by some clock.
Stamped(t, status, hashed) ==
  /\ \E stamp \in Stamps : Change(t, Row(status, hashed, stamp))
  /\ UNCHANGED <<dispatchVars, sweep, seen, errors>>

Producing(s) == running[s] > 0 /\ s \notin stopping

\* ClaimNextQueuedForSender.
Claim(t) ==
  /\ Producing(SenderOf[t])
  /\ t \in Oldest
  /\ Stamped(t, "processing", FALSE)
  /\ UNCHANGED workVars

\* A transient failure of prepareRecord, or the drain of a worker that stops.
GiveBack(t) ==
  /\ t \in InHand(SenderOf[t])
  /\ \/ SenderOf[t] \in stopping /\ UNCHANGED retries
     \/ Producing(SenderOf[t]) /\ retries < MaxRetries /\ retries' = retries + 1
  /\ Change(t, Row("queued", FALSE, 0))
  /\ UNCHANGED <<dispatchVars, sweep, seen, errors, sending, stopping>>

\* A permanent failure: the row is refused, or has expired.
Fail(t) ==
  /\ Producing(SenderOf[t]) /\ t \in InHand(SenderOf[t])
  /\ Change(t, Row("final", FALSE, 0))
  /\ UNCHANGED <<dispatchVars, sweep, seen, errors, workVars>>

\* The consumer persists the hash and broadcasts, one row at a time.
Persist(t) ==
  /\ Producing(SenderOf[t]) /\ t \in InHand(SenderOf[t])
  /\ sending[SenderOf[t]] = 0
  /\ sending' = [sending EXCEPT ![SenderOf[t]] = t]
  /\ Stamped(t, "processing", TRUE)
  /\ UNCHANGED <<stopping, retries>>

\* The row is marked submitted, whatever the poller has made of it.
Mark(t) ==
  /\ sending[SenderOf[t]] = t
  /\ sending' = [sending EXCEPT ![SenderOf[t]] = 0]
  /\ Stamped(t, "submitted", TRUE)
  /\ UNCHANGED <<stopping, retries>>

\* The submit fails and the row is given back, or marking it fails and it is
\* left to the poller; the worker stops.
SubmitFails(t) ==
  /\ sending[SenderOf[t]] = t
  /\ retries < MaxRetries /\ retries' = retries + 1
  /\ sending' = [sending EXCEPT ![SenderOf[t]] = 0]
  /\ stopping' = stopping \cup {SenderOf[t]}
  /\ Change(t, Row("queued", FALSE, 0)) \/ UNCHANGED <<rows, due>>
  /\ UNCHANGED <<dispatchVars, sweep, seen, errors>>

\* The worker returns when its queue is empty or a submit has failed.
WorkerReturns(s) ==
  /\ InHand(s) = {} /\ sending[s] = 0
  /\ s \in stopping \/ Waiting(s) = {}
  /\ Return(s)
  /\ stopping' = stopping \ {s}
  /\ UNCHANGED <<rows, pagingVars, sending, retries>>

Work(t) == Claim(t) \/ GiveBack(t) \/ Fail(t) \/ Persist(t) \/ Mark(t) \/ SubmitFails(t)

Next ==
  \/ \E t \in Txns : Enqueue(t) \/ Work(t)
  \/ \E s \in Senders : WorkerReturns(s)
  \/ (List \/ Dispatch \/ \E s \in Senders : Delete(s))
       /\ UNCHANGED <<rows, pagingVars, workVars>>
  \/ Sweep /\ UNCHANGED <<dispatchVars, workVars>>

Spec == Init /\ [][Next]_vars

\* The ticker of the dispatcher fires, the workers work and return, and the
\* poller sweeps again and again.
Fairness ==
  /\ \A t \in Txns : WF_vars(Work(t))
  /\ \A s \in Senders :
       /\ WF_vars(WorkerReturns(s))
       /\ WF_vars(Delete(s) /\ UNCHANGED <<rows, pagingVars, workVars>>)
  /\ WF_vars((List \/ Dispatch) /\ UNCHANGED <<rows, pagingVars, workVars>>)
  /\ WF_vars(Sweep /\ UNCHANGED <<dispatchVars, workVars>>)

FairSpec == Spec /\ Fairness

-----------------------------------------------------------------------------
(* Properties.                                                             *)

\* A sender never has two workers, and the process never has more than the
\* cap, although the list of senders is older than the lock under which it is
\* gone through and entries are deleted some time after workers return.
WorkersBounded ==
  /\ \A s \in Senders : running[s] <= 1
  /\ Cardinality({s \in Senders : running[s] > 0}) <= MaxWorkers

\* Every queued row is served in the end: no sender is passed over for ever
\* while workers of others fill the cap.
Served == \A t \in Txns : rows[t].status = "queued" ~> rows[t].status # "queued"

\* A sweep that ends without an error has listed every row that was there when
\* it began and has not been written since, whatever rows joined, left or moved
\* in the order meanwhile and however many share one updated_at.
SweepComplete ==
  [][sweep.pc # "over" /\ sweep'.pc = "over" /\ errors' = errors => due \subseteq seen]_vars

\* No sweep lists a row twice that was not written in between: the cursor
\* never turns back, and every sweep comes to an end.
NeverRelisted ==
  [][\A t \in due : sweep.pc = "query" /\ t \in sweep'.page => t \notin seen]_vars

\* A row in submitted, or with a hash in processing, is looked up by some
\* sweep in the end, whatever stamp it was written with.
Broadcast(t) == rows[t].status = "submitted" \/ (rows[t].status = "processing" /\ rows[t].hashed)
LookedUp == \A t \in Txns : Broadcast(t) ~> (t \in sweep.page \/ ~Broadcast(t))

-----------------------------------------------------------------------------
(* The inductive invariant behind the safety properties.                   *)

\* A sender is in the map exactly as long as one goroutine of its own runs or
\* has yet to delete the entry, and the map never exceeds the cap.
EntriesMatch ==
  /\ \A s \in Senders : running[s] + returned[s] = IF s \in workers THEN 1 ELSE 0
  /\ IsFiniteSet(workers) /\ Cardinality(workers) <= MaxWorkers

\* The cursor divides the rows a sweep owes a visit into those it has listed
\* and those it has yet to list; after a short page there are none of these.
CursorDivides ==
  /\ sweep.pc = "over" => due = {} /\ seen = {}
  /\ sweep.pc # "page" => sweep.page = {}
  /\ \A t \in due : rows[t].status = sweep.status /\ (t \in seen <=> ~Beyond(t))
  /\ sweep.short => due \subseteq seen

\* The map and the cursor are right in every state the process gets into.
Inv == TypeOK /\ EntriesMatch /\ CursorDivides

=============================================================================
