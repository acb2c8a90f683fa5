------------------------------ MODULE Backlog ------------------------------
(***************************************************************************)
(* The rows of the table `transactions` as the dispatcher and the poller   *)
(* look at them: several senders, and the columns their queries read.      *)
(* Requests are numbered in the order of (created_at, id).                 *)
(***************************************************************************)
EXTENDS Integers, FiniteSets

CONSTANTS
  N,                \* number of requests
  Senders,
  SenderOf,         \* the sender of each request
  MaxStamp          \* bound: values of updated_at, in whole seconds

Txns == 1 .. N
Stamps == 1 .. MaxStamp

ASSUME BacklogAssumption ==
  /\ N \in Nat \ {0} /\ MaxStamp \in Nat \ {0}
  /\ SenderOf \in [Txns -> Senders]

VARIABLE rows

\* updated_at is kept for the rows a sweep may list, the ones in flight.
Status == {"absent", "queued", "processing", "submitted", "final"}
Row(status, hashed, stamp) == [status |-> status, hashed |-> hashed, stamp |-> stamp]
Rows == [status : Status, hashed : BOOLEAN, stamp : {0} \cup Stamps]

BacklogTypeOK == rows \in [Txns -> Rows]

BacklogInit == rows = [t \in Txns |-> Row("absent", FALSE, 0)]

InStatus(status) == {t \in Txns : rows[t].status = status}

Waiting(s) == {t \in InStatus("queued") : SenderOf[t] = s}

\* Unhashed rows in processing, which the worker of the sender has in hand.
InHand(s) == {t \in InStatus("processing") : SenderOf[t] = s /\ ~rows[t].hashed}

Write(t, row) == rows' = [rows EXCEPT ![t] = row]

\* S is the first k of T in the order `before`, or all of T.
IsFirst(S, T, k, before(_, _)) ==
  /\ S \subseteq T
  /\ Cardinality(S) = IF Cardinality(T) < k THEN Cardinality(T) ELSE k
  /\ \A t \in S, u \in T \ S : before(t, u)

=============================================================================
