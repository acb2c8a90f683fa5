---------------------------- MODULE Conformance ----------------------------
(***************************************************************************)
(* The pipeline against its two descriptions: the in-memory store that the *)
(* tests use in place of MySQL, and what the service promises.             *)
(***************************************************************************)
EXTENDS Pipeline, MemoryStore

\* Whatever state the pipeline gets the table and the counter into, a queue
\* statement that MySQL carries out leaves them as the in-memory store would,
\* which the tests use: that one passes over rows in processing that have no
\* sequence number, and bounds the counter in another way.
StoresAgree == [][storeVars' # storeVars => Agreement]_vars

-----------------------------------------------------------------------------
Taken == {t \in Txns : rows[t].status # "absent"}
OnChain == {log[i] : i \in {j \in 1 .. committed : Own(j)}}
Earlier(t, u) == t < u

Promise == INSTANCE Service WITH
  Requests <- Txns, Outcomes <- Terminal, Precedes <- Earlier, Exact <- FALSE,
  taken <- Taken, executed <- OnChain

ExactPromise == INSTANCE Service WITH
  Requests <- Txns, Outcomes <- Terminal, Precedes <- Earlier, Exact <- TRUE,
  taken <- Taken, executed <- OnChain

\* The pipeline is a service: requests never get lost, nothing is executed that
\* nobody asked for, and no confirmation is told that the chain does not bear
\* out, with crashes, outages, lost replies, failing statements and deadlines.
ImplementsService == Promise!Spec

\* With one host that may crash, or a foreign transaction and losses in the
\* mempool, the pipeline keeps the better promise: each request is executed
\* once at most and in order, and one outcome is told of it, which is right.
ImplementsExactly == ExactPromise!Spec

=============================================================================
