----------------------------- MODULE AptosNode -----------------------------
(***************************************************************************)
(* The Aptos full node as the service uses it, for one account (external). *)
(* `log` holds the transactions the node has accepted, in the order of     *)
(* their sequence numbers: the entry at index i has sequence number i - 1. *)
(* The first `committed` of them are on chain; the rest sit in the         *)
(* mempool, which may lose them.  An entry whose hash is None was sent by  *)
(* another client of the same account.                                     *)
(***************************************************************************)
EXTENDS Requests

CONSTANTS
  MaxExternal,      \* bound: transactions other clients send
  MaxDrops          \* bound: mempool evictions
ASSUME NodeAssumption == MaxExternal \in Nat /\ MaxDrops \in Nat

VARIABLES
  log,              \* accepted transactions: [hash, ok], ok = the VM's verdict
  committed,        \* length of the prefix that is on chain
  accepted,         \* history: every hash the node ever accepted
  underway,         \* submits whose caller has given up; they may yet arrive
  drops             \* mempool evictions so far

nodeVars == <<log, committed, accepted, underway, drops>>

NodeTypeOK ==
  /\ log \in Seq([hash : Hashes \cup {None}, ok : BOOLEAN])
  /\ committed \in 0 .. Len(log)
  /\ accepted \subseteq Hashes
  /\ underway \subseteq Hashes
  /\ drops \in Nat

NodeInit ==
  /\ log = <<>>
  /\ committed = 0
  /\ accepted = {}
  /\ underway = {}
  /\ drops = 0

-----------------------------------------------------------------------------
\* The account's sequence number, as GET /accounts reports it.
ChainSequence == committed

\* The only sequence number the node takes next.
ExpectedSequence == Len(log)

\* GET /transactions/by_hash: committed, still pending, or unknown.
Is(i, hash) == hash # None /\ log[i].hash = hash
Committed(hash) == \E i \in 1 .. committed : Is(i, hash)
Succeeded(hash) == \E i \in 1 .. committed : Is(i, hash) /\ log[i].ok
Pending(hash) == \E i \in committed + 1 .. Len(log) : Is(i, hash)

\* A submit arrives; the caller of one that is under way does not wait for it.
Accept(hash, ok) ==
  /\ hash.seq = ExpectedSequence
  /\ log' = Append(log, [hash |-> hash, ok |-> ok])
  /\ accepted' = accepted \cup {hash}
  /\ underway' = underway \ {hash}
  /\ UNCHANGED <<committed, drops>>

\* The caller of a submit gives up: the request goes on without it.
Abandon(hash) ==
  /\ underway' = underway \cup {hash}
  /\ UNCHANGED <<log, committed, accepted, drops>>

\* The next pending transaction is executed and committed.
CommitNext ==
  /\ committed < Len(log)
  /\ committed' = committed + 1
  /\ UNCHANGED <<log, accepted, underway, drops>>

\* The mempool loses its last transaction (expiration, eviction, failover).
DropLast ==
  /\ committed < Len(log)
  /\ drops < MaxDrops
  /\ drops' = drops + 1
  /\ log' = SubSeq(log, 1, Len(log) - 1)
  /\ UNCHANGED <<committed, accepted, underway>>

Foreign == Len(SelectSeq(log, LAMBDA e : e.hash = None))

\* Another client of the account gets a transaction accepted.
External ==
  /\ Foreign < MaxExternal
  /\ log' = Append(log, [hash |-> None, ok |-> TRUE])
  /\ UNCHANGED <<committed, accepted, underway, drops>>

=============================================================================
