------------------------------- MODULE Poller -------------------------------
(***************************************************************************)
(* internal/poller: each host sweeps the submitted rows, and the processing*)
(* rows that have a hash.  Every row of a page is confirmed by a goroutine *)
(* of its own: it looks the hash up and moves the row to its final status  *)
(* if the row still has the status it was listed with.                     *)
(***************************************************************************)
EXTENDS Submitter

VARIABLE
  poll        \* per host and request: the goroutine that confirms the record

Verdicts == Terminal \cup {None}
Resting == [pc |-> "idle", rec |-> None, verdict |-> None]

PollerTypeOK ==
  poll \in [Hosts -> [Txns -> [pc : {"idle", "lookup", "write", "tell"},
                               rec : Records \cup {None}, verdict : Verdicts]]]

PollerInit == poll = [h \in Hosts |-> [t \in Txns |-> Resting]]

-----------------------------------------------------------------------------
\* Mistake: no sweep of the processing rows that have a hash.
PollableSubmitted(t) == rows[t].status = "submitted"

\* sweepStatus: submitted rows, and processing rows that have a hash.
Pollable(t) ==
  \/ rows[t].status = "submitted"
  \/ rows[t].status = "processing" /\ rows[t].hash # None

PollList(h, t) ==
  /\ poll[h][t].pc = "idle"
  /\ Pollable(t)
  /\ poll' = [poll EXCEPT ![h][t] = [pc |-> "lookup", rec |-> Row(t), verdict |-> None]]
  /\ UNCHANGED <<storeVars, nodeVars, submitterVars>>

\* Mistake: a pending transaction, which has no success field yet, confirms.
VerdictPending(rec) ==
  {v \in Terminal :
     \/ v = "confirmed" /\ (Succeeded(rec.hash) \/ Pending(rec.hash))
     \/ v = "failed" /\ Committed(rec.hash) /\ ~Succeeded(rec.hash)
     \/ v = "expired" /\ Expired(rec.txn)}

\* Mistake: a transaction on chain confirms whatever the VM made of it.
VerdictCommitted(rec) ==
  {v \in Terminal :
     \/ v = "confirmed" /\ Committed(rec.hash)
     \/ v = "expired" /\ Expired(rec.txn)}

\* Mistake: a pending transaction, which has no success field yet, has failed.
VerdictHasty(rec) ==
  {v \in Terminal :
     \/ v = "confirmed" /\ Succeeded(rec.hash)
     \/ v = "failed" /\ (Committed(rec.hash) \/ Pending(rec.hash)) /\ ~Succeeded(rec.hash)
     \/ v = "expired" /\ Expired(rec.txn)}

\* confirmRecord up to its update.  The lookup may fail, and it does for a
\* hash the node does not know; a failed lookup expires an expired request.
Verdict(rec) ==
  {v \in Terminal :
     \/ v = "confirmed" /\ Succeeded(rec.hash)
     \/ v = "failed" /\ Committed(rec.hash) /\ ~Succeeded(rec.hash)
     \/ v = "expired" /\ Expired(rec.txn)}

PollLookup(h, t) ==
  /\ poll[h][t].pc = "lookup"
  /\ \/ \E v \in Verdict(poll[h][t].rec) :
          poll' = [poll EXCEPT ![h][t].pc = "write", ![h][t].verdict = v]
     \/ /\ Pending(poll[h][t].rec.hash) \/ ~Expired(t)
        /\ poll' = [poll EXCEPT ![h][t] = Resting]
  /\ UNCHANGED <<storeVars, nodeVars, submitterVars>>

\* UpdateIfStatus, under the status the row was listed with.
PollWrite(h, t) ==
  LET rec == poll[h][t].rec IN
  /\ poll[h][t].pc = "write"
  /\ \/ /\ StatusIs(rec, rec.status)
        /\ Update([rec EXCEPT !.status = poll[h][t].verdict])
        /\ poll' = [poll EXCEPT ![h][t].pc = "tell"]
        /\ UNCHANGED faults
     \/ /\ ~StatusIs(rec, rec.status)
        /\ poll' = [poll EXCEPT ![h][t] = Resting]
        /\ UNCHANGED <<storeVars, faults>>
     \/ /\ faults < MaxFaults /\ faults' = faults + 1
        /\ poll' = [poll EXCEPT ![h][t] = Resting]
        /\ UNCHANGED storeVars
  /\ UNCHANGED <<nodeVars, age, signed, told, actor, chan, cancelled>>

\* The webhook goes out only if the row was updated.
PollNotify(h, t) ==
  /\ poll[h][t].pc = "tell"
  /\ poll' = [poll EXCEPT ![h][t] = Resting]
  /\ \/ told' = [told EXCEPT ![t] = @ \cup {poll[h][t].verdict}] /\ UNCHANGED faults
     \/ UNCHANGED told /\ faults < MaxFaults /\ faults' = faults + 1
  /\ UNCHANGED <<storeVars, nodeVars, age, signed, actor, chan, cancelled>>

PollStep(h) ==
  \E t \in Txns :
    PollList(h, t) \/ PollLookup(h, t) \/ PollWrite(h, t) \/ PollNotify(h, t)

=============================================================================
