---------------------------- MODULE MemoryStore ----------------------------
(***************************************************************************)
(* store/memory.go and memory_queue.go: the store the tests run against.   *)
(* Each operator is what one method, under the store's mutex, makes of the *)
(* rows and of the counter it finds.                                       *)
(***************************************************************************)
EXTENDS TxStore

Holds(r, n) == [rows |-> r, nextSeq |-> n]
Back(row) == [row EXCEPT !.status = "queued", !.seq = None]

\* Mistake: no bound at zero.
LessFreely(n) == nextSeq - n

\* The counter less n, bounded at zero by a comparison.
Less(n) == IF n >= nextSeq THEN 0 ELSE nextSeq - n

\* The candidate of ClaimNextQueuedForSender.
Candidate(t) ==
  /\ rows[t].status = "queued"
  /\ ~ \E u \in InStatus("queued") : u < t

MemoryClaim(t) ==
  Holds([rows EXCEPT ![t].status = "processing", ![t].seq = nextSeq], nextSeq + 1)

MemoryRelease == Holds(rows, IF nextSeq > 0 THEN nextSeq - 1 ELSE nextSeq)

MemoryReconcile(chainSeq) == Holds(rows, IF nextSeq < chainSeq THEN chainSeq ELSE nextSeq)

\* Mistake: broadcast rows are not counted.
MemoryResetBare(chainSeq) == Holds(rows, chainSeq)

MemoryReset(chainSeq) ==
  LET inflight == {t \in Txns : /\ rows[t].status = "submitted" /\ rows[t].seq # None
                                /\ rows[t].seq >= chainSeq}
  IN Holds(rows, chainSeq + Cardinality(inflight))

\* RecoverStaleProcessing, S the rows that are old: a row without a sequence
\* number is passed over.
MemoryRecover(S) ==
  LET back == {t \in S : /\ rows[t].status = "processing" /\ rows[t].seq # None
                         /\ rows[t].hash = None}
  IN Holds([t \in Txns |-> IF t \in back THEN Back(rows[t]) ELSE rows[t]],
           Less(Cardinality(back)))

MemoryShift(failedSeq) ==
  LET above == {t \in Txns : /\ rows[t].seq # None
                             /\ rows[t].status \in {"queued", "processing"}
                             /\ ~(rows[t].seq <= failedSeq)}
  IN Holds([t \in Txns |-> IF t \in above THEN Back(rows[t]) ELSE rows[t]],
           IF above # {} THEN Less(Cardinality(above)) ELSE nextSeq)

-----------------------------------------------------------------------------
\* The step leaves what the method of the in-memory store would leave.
Leaves(store) == rows' = store.rows /\ nextSeq' = store.nextSeq

\* Every statement of the queue, when MySQL carries it out.
Agreement ==
  /\ \A t \in Txns : ClaimOldest(t) => Candidate(t) /\ Leaves(MemoryClaim(t))
  /\ ReleaseSequence /\ ~Underflows(1) => Leaves(MemoryRelease)
  /\ \A n \in 0 .. nextSeq + nextSeq' :
       /\ ReconcileSequence(n) => Leaves(MemoryReconcile(n))
       /\ ForceResetSequenceToChain(n) => Leaves(MemoryReset(n))
       /\ ShiftSenderSequences(n) /\ ~Underflows(Cardinality(Above(n))) => Leaves(MemoryShift(n))
  /\ \A S \in SUBSET Recoverable :
       RecoverStaleProcessing(S) /\ ~Underflows(Cardinality(S)) => Leaves(MemoryRecover(S))

=============================================================================
