------------------------------ MODULE TxStore ------------------------------
(***************************************************************************)
(* The two MySQL tables the service keeps for one sender address:          *)
(* `transactions` (one row per request) and `account_sequences` (the       *)
(* counter the next claim allocates from).  Every operator below is one    *)
(* SQL transaction of internal/store/mysql, executed atomically.           *)
(***************************************************************************)
EXTENDS Requests

CONSTANT
  UnsignedErrors    \* TRUE: MySQL 8 default, BIGINT UNSIGNED underflow is error
                    \* 1690 and rolls the statement back; FALSE: it yields 0

ASSUME UnsignedAssumption == UnsignedErrors \in BOOLEAN

VARIABLES
  rows,       \* the transactions table
  nextSeq     \* account_sequences.next_sequence

storeVars == <<rows, nextSeq>>

StoreTypeOK ==
  /\ rows \in [Txns -> [status : Statuses, seq : Nat \cup {None},
                        hash : Hashes \cup {None}]]
  /\ nextSeq \in Nat

StoreInit ==
  /\ rows = [t \in Txns |-> [status |-> "absent", seq |-> None, hash |-> None]]
  /\ nextSeq = 0

-----------------------------------------------------------------------------
InStatus(s) == {t \in Txns : rows[t].status = s}

Row(t) == [txn |-> t, status |-> rows[t].status, seq |-> rows[t].seq,
           hash |-> rows[t].hash]

\* Create: requests enter in order of created_at.
Create(t) ==
  /\ rows[t].status = "absent"
  /\ \A u \in Txns : u < t => rows[u].status # "absent"
  /\ rows' = [rows EXCEPT ![t].status = "queued"]
  /\ UNCHANGED nextSeq

\* Update: the whole row is replaced, whatever it holds now.
Update(rec) ==
  /\ rows' = [rows EXCEPT ![rec.txn] =
                [status |-> rec.status, seq |-> rec.seq, hash |-> rec.hash]]
  /\ UNCHANGED nextSeq

\* Whether UpdateIfStatus(rec, expected) finds the row it is conditional on.
StatusIs(rec, expected) == rows[rec.txn].status = expected

\* Mistake: the claim without its ORDER BY.
ClaimAny(t) ==
  /\ rows[t].status = "queued"
  /\ rows' = [rows EXCEPT ![t] = [@ EXCEPT !.status = "processing", !.seq = nextSeq]]
  /\ nextSeq' = nextSeq + 1

\* ClaimNextQueuedForSender up to its commit; txn_hash is left as it was.
ClaimOldest(t) ==
  /\ rows[t].status = "queued"
  /\ \A u \in InStatus("queued") : t <= u
  /\ rows' = [rows EXCEPT ![t] = [@ EXCEPT !.status = "processing", !.seq = nextSeq]]
  /\ nextSeq' = nextSeq + 1

\* GREATEST(next_sequence - n, 0) on an unsigned column.
Underflows(n) == UnsignedErrors /\ nextSeq < n

\* Mistake: the subtraction without GREATEST.
LoweredFreely(n) == nextSeq - n

Lowered(n) == IF nextSeq < n THEN 0 ELSE nextSeq - n

ReleaseSequence ==
  /\ nextSeq' = IF Underflows(1) THEN nextSeq ELSE Lowered(1)
  /\ UNCHANGED rows

ReconcileSequence(chainSeq) ==
  /\ nextSeq' = IF nextSeq < chainSeq THEN chainSeq ELSE nextSeq
  /\ UNCHANGED rows

\* Broadcast rows whose sequence number the chain has not reached.
SubmittedFrom(chainSeq) ==
  {t \in InStatus("submitted") : rows[t].seq # None /\ rows[t].seq >= chainSeq}

ForceResetSequenceToChain(chainSeq) ==
  /\ nextSeq' = chainSeq + Cardinality(SubmittedFrom(chainSeq))
  /\ UNCHANGED rows

\* Mistake: the rows given back keep their sequence numbers.
GiveBackNumbered(S, burned) ==
  /\ rows' = [t \in Txns |-> IF t \in S THEN [rows[t] EXCEPT !.status = "queued"]
                                       ELSE rows[t]]
  /\ nextSeq' = Lowered(burned)

\* Give the rows of S back to the queue and their sequence numbers, `burned`
\* of them, back to the counter, in one SQL transaction.
GiveBack(S, burned) ==
  IF burned > 0 /\ Underflows(burned)
  THEN UNCHANGED storeVars
  ELSE /\ rows' = [t \in Txns |-> IF t \in S
                     THEN [rows[t] EXCEPT !.status = "queued", !.seq = None]
                     ELSE rows[t]]
       /\ nextSeq' = Lowered(burned)

\* Mistake: the WHERE clause without its condition on txn_hash.
RecoverableHashed == InStatus("processing")

\* RecoverStaleProcessing's WHERE clause without the age of the row.
Recoverable == {t \in InStatus("processing") : rows[t].hash = None}

RecoverStaleProcessing(S) ==
  GiveBack(S, Cardinality({t \in S : rows[t].seq # None}))

\* ShiftSenderSequences: the hash of a row does not exempt it.
Above(failedSeq) ==
  {t \in InStatus("queued") \cup InStatus("processing") :
     rows[t].seq # None /\ rows[t].seq > failedSeq}

ShiftSenderSequences(failedSeq) ==
  GiveBack(Above(failedSeq), Cardinality(Above(failedSeq)))

=============================================================================
