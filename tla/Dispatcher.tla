----------------------------- MODULE Dispatcher -----------------------------
(***************************************************************************)
(* Submitter.Run: each tick starts workers for senders with queued rows,   *)
(* oldest first and max_active_sender_workers at most.  The list is read   *)
(* without the lock, so the map has changed when it is gone through; a     *)
(* worker leaves the map in a step of its own after it has returned.       *)
(***************************************************************************)
EXTENDS Backlog

CONSTANT
  MaxWorkers        \* SubmitterMaxActiveSenderWorkers

ASSUME DispatcherAssumption == MaxWorkers \in Nat \ {0}

VARIABLES
  workers,    \* the map: senders registered as having a worker
  running,    \* how many goroutines run runSenderWorker, per sender
  returned,   \* goroutines that have returned and still have an entry
  listed      \* the oldest queued request of every sender on the list

dispatchVars == <<workers, running, returned, listed>>

DispatchTypeOK ==
  /\ workers \subseteq Senders
  /\ running \in [Senders -> Nat]
  /\ returned \in [Senders -> Nat]
  /\ listed \subseteq Txns

DispatchInit ==
  /\ workers = {}
  /\ running = [s \in Senders |-> 0]
  /\ returned = [s \in Senders |-> 0]
  /\ listed = {}

-----------------------------------------------------------------------------
\* ListQueuedSenders: MIN(created_at) of each sender.
Oldest == {t \in InStatus("queued") : \A u \in Waiting(SenderOf[t]) : t <= u}

List ==
  /\ listed = {} /\ Oldest # {}
  /\ listed' = Oldest
  /\ UNCHANGED <<workers, running, returned>>

\* The senders on the list that the loop does not skip.
Idle == {t \in listed : SenderOf[t] \notin workers}

\* Mistake: > for >= in the check of the cap.
SlotsOneMore == MaxWorkers + 1 - Cardinality(workers)

Slots == MaxWorkers - Cardinality(workers)

\* The loop over the list, under the lock.
Dispatch ==
  /\ listed # {}
  /\ \E S \in SUBSET Idle :
       LET started == {SenderOf[t] : t \in S} IN
       /\ IsFirst(S, Idle, Slots, LAMBDA t, u : t < u)
       /\ workers' = workers \cup started
       /\ running' = [s \in Senders |-> running[s] + (IF s \in started THEN 1 ELSE 0)]
  /\ listed' = {}
  /\ UNCHANGED returned

\* runSenderWorker returns.
Return(s) ==
  /\ running[s] > 0
  /\ running' = [running EXCEPT ![s] = @ - 1]
  /\ returned' = [returned EXCEPT ![s] = @ + 1]
  /\ UNCHANGED <<workers, listed>>

\* Mistake: the entry is never deleted.
DropNothing(s) == workers' = workers

Drop(s) == workers' = workers \ {s}

\* Mistake: the entry is deleted while the worker still runs.
DeleteEarly(s) ==
  /\ s \in workers
  /\ Drop(s)
  /\ returned' = [returned EXCEPT ![s] = @ - 1]
  /\ UNCHANGED <<running, listed>>

\* The goroutine deletes its entry, under the lock.
Delete(s) ==
  /\ returned[s] > 0
  /\ Drop(s)
  /\ returned' = [returned EXCEPT ![s] = @ - 1]
  /\ UNCHANGED <<running, listed>>

=============================================================================
