----------------------------- MODULE Requests -----------------------------
(***************************************************************************)
(* The names every part of the pipeline uses for one sender's requests.    *)
(* Senders share the cap on workers and two caches, which Fleet and        *)
(* Prepare model; here it is one sender.  Its requests are numbered in the *)
(* order of (created_at, id), and they arrive in it: created_at has whole  *)
(* seconds and ids are random, so this leaves out requests of one second   *)
(* whose ids sort against their arrival.  A transaction                    *)
(* hash identifies one signing: the request, the sequence number it was    *)
(* signed for, and which signing of that request it is (every build puts a *)
(* new expiration time in the signed bytes).                               *)
(***************************************************************************)
EXTENDS Integers, FiniteSets, Sequences

CONSTANTS
  N,                \* number of requests this sender ever makes
  None              \* SQL NULL: no sequence number, no transaction hash

ASSUME NAssumption == N \in Nat \ {0}

Txns == 1 .. N
Hashes == [txn : Txns, seq : Nat, n : Nat]

Terminal == {"confirmed", "failed", "expired"}
Statuses == {"absent", "queued", "processing", "submitted"} \cup Terminal

\* A row as the code reads it into memory, with the id it belongs to.
Records == [txn : Txns, status : Statuses, seq : Nat \cup {None},
            hash : Hashes \cup {None}]

ASSUME NoneAssumption == None \notin Nat /\ None \notin Hashes /\ None \notin Records

===========================================================================
