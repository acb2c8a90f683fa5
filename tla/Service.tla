------------------------------ MODULE Service ------------------------------
(***************************************************************************)
(* What the wallet service promises the clients of one sender, without the *)
(* table, the workers and the poller: requests are taken, transactions of  *)
(* theirs are executed on chain, and outcomes are told by webhook.         *)
(***************************************************************************)
CONSTANTS
  Requests,         \* requests, in the order they are taken
  Outcomes,         \* what a webhook may tell
  Exact,            \* TRUE: once each, in order, and one truthful outcome
  Precedes(_, _)    \* the order of requests

VARIABLES
  taken,      \* requests the service has answered for
  executed,   \* transactions on chain: [hash, ok], ok = with success
  told        \* outcomes told, per request

vars == <<taken, executed, told>>

Init ==
  /\ taken = {} /\ executed = {}
  /\ told = [t \in Requests |-> {}]

-----------------------------------------------------------------------------
Take(t) ==
  /\ taken' = taken \cup {t}
  /\ UNCHANGED <<executed, told>>

\* Only what was asked for is executed; at its best, in order, once each, and
\* never with success after it was told to have failed.
Execute(tx) ==
  /\ tx.hash.txn \in taken
  /\ Exact => /\ \A e \in executed : Precedes(e.hash.txn, tx.hash.txn)
              /\ tx.ok => "failed" \notin told[tx.hash.txn]
  /\ executed' = executed \cup {tx}
  /\ UNCHANGED <<taken, told>>

\* Nothing is told to be confirmed that was not executed; at its best, one
\* outcome is told, and a failure only of what was not executed.
Tell(t, outcome) ==
  LET done == \E e \in executed : e.hash.txn = t /\ e.ok IN
  /\ t \in taken
  /\ outcome = "confirmed" => done
  /\ Exact => told[t] = {} /\ (outcome = "failed" => ~done)
  /\ told' = [told EXCEPT ![t] = @ \cup {outcome}]
  /\ UNCHANGED <<taken, executed>>

Next ==
  \/ \E t \in Requests : Take(t) \/ \E outcome \in Outcomes : Tell(t, outcome)
  \/ \E tx \in executed' : Execute(tx)

Spec == Init /\ [][Next]_vars
=============================================================================
