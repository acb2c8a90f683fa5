------------------------------- MODULE Outbox -------------------------------
(***************************************************************************)
(* The webhook outbox: the notifier inserts a delivery, each host's worker *)
(* claims due deliveries in batches, POSTs each one in a goroutine of its  *)
(* own and records the outcome, and resets what has been "delivering" for  *)
(* too long.  A worker is one loop: it claims or recovers only when its    *)
(* last batch is done.  next_retry_at delays a claim and never prevents    *)
(* it, so it is left out.                                                  *)
(***************************************************************************)
EXTENDS Integers, FiniteSets

CONSTANTS
  Deliveries,       \* rows of webhook_deliveries
  Hosts,            \* server instances sharing the database
  Nobody,           \* no delivery record
  MaxRetries,       \* webhook.max_retries
  Batch,            \* deliveries claimed per tick (10 in processBatch)
  Backlog,          \* a pending row may wait past the stale threshold
  MaxFaults,        \* bound: SQL updates that fail
  MaxCrashes        \* bound: hosts that die

ASSUME OutboxAssumption ==
  /\ MaxRetries \in Nat \ {0} /\ Batch \in Nat \ {0}
  /\ Backlog \in BOOLEAN
  /\ MaxFaults \in Nat /\ MaxCrashes \in Nat

VARIABLES
  delivery,   \* the table
  job,        \* per host and delivery: the goroutine that delivers it
  posts,      \* history: requests that were sent
  got,        \* history: the receiver has answered 2xx
  rejected,   \* history: the receiver has answered with a permanent error
  faults, crashes

vars == <<delivery, job, posts, got, rejected, faults, crashes>>

Settled == {"delivered", "failed"}
Statuses == {"pending", "delivering"} \cup Settled

\* attempted: last_attempt_at, NULL, within staleDeliveryThreshold or before.
Rows == [status : Statuses \cup {"absent"}, attempts : Nat,
         attempted : {"never", "recently", "longAgo"}]

Done == [pc |-> "idle", rec |-> Nobody]

TypeOK ==
  /\ delivery \in [Deliveries -> Rows]
  /\ job \in [Hosts -> [Deliveries -> [pc : {"idle", "post", "update"},
                                       rec : Rows \cup {Nobody}]]]
  /\ posts \in [Deliveries -> Nat]
  /\ got \in [Deliveries -> BOOLEAN]
  /\ rejected \in [Deliveries -> BOOLEAN]
  /\ faults \in Nat /\ crashes \in Nat

Init ==
  /\ delivery = [d \in Deliveries |->
       [status |-> "absent", attempts |-> 0, attempted |-> "never"]]
  /\ job = [h \in Hosts |-> [d \in Deliveries |-> Done]]
  /\ posts = [d \in Deliveries |-> 0]
  /\ got = [d \in Deliveries |-> FALSE]
  /\ rejected = [d \in Deliveries |-> FALSE]
  /\ faults = 0 /\ crashes = 0

-----------------------------------------------------------------------------
InStatus(s) == {d \in Deliveries : delivery[d].status = s}
Idle(h) == \A d \in Deliveries : job[h][d].pc = "idle"
Held(d) == \E h \in Hosts : job[h][d].pc # "idle"

\* Notify, CreateDelivery.
Notify(d) ==
  /\ delivery[d].status = "absent"
  /\ delivery' = [delivery EXCEPT ![d].status = "pending"]
  /\ UNCHANGED <<job, posts, got, rejected, faults, crashes>>

\* ClaimPendingDeliveries: last_attempt_at is left as it is.  Rows another
\* host has locked are skipped, so any choice of rows may be claimed.
ClaimPending(h) ==
  /\ Idle(h)
  /\ \E S \in SUBSET InStatus("pending") :
       /\ S # {} /\ Cardinality(S) <= Batch
       /\ delivery' = [d \in Deliveries |->
            IF d \in S THEN [delivery[d] EXCEPT !.status = "delivering"] ELSE delivery[d]]
       /\ job' = [job EXCEPT ![h] = [d \in Deliveries |->
            IF d \in S
            THEN [pc |-> "post", rec |-> [delivery[d] EXCEPT !.status = "delivering"]]
            ELSE Done]]
  /\ UNCHANGED <<posts, got, rejected, faults, crashes>>

\* Mistake: one attempt too many.
RetriedOnceMore(rec) ==
  [rec EXCEPT !.status = IF rec.attempts > MaxRetries THEN "failed" ELSE "pending"]

\* handleRetry, for a record whose attempt has been counted.
Retried(rec) ==
  [rec EXCEPT !.status = IF rec.attempts >= MaxRetries THEN "failed" ELSE "pending"]

\* Mistake: any answer of the receiver counts as success.
AnsweredAny(code, rec) ==
  [rec EXCEPT !.status = "delivered"]

\* deliver: what becomes of the record when the receiver answers.
Answered(code, rec) ==
  CASE code = "2xx" -> [rec EXCEPT !.status = "delivered"]
    [] code = "4xx" -> [rec EXCEPT !.status = "failed"]
    [] OTHER -> Retried(rec)

\* deliver: the attempt is counted before the request is sent.
Tried(rec) == [status |-> rec.status, attempts |-> rec.attempts + 1,
               attempted |-> "recently"]

\* deliver up to its update.  A lost answer ("none") is an error to the worker
\* whatever the receiver made of the request.
Post(h, d) ==
  /\ job[h][d].pc = "post"
  /\ posts' = [posts EXCEPT ![d] = @ + 1]
  /\ \E code \in {"2xx", "4xx", "retryable", "none"} :
       /\ job' = [job EXCEPT ![h][d] =
            [pc |-> "update", rec |-> Answered(code, Tried(job[h][d].rec))]]
       /\ got' = [got EXCEPT ![d] = @ \/ code = "2xx"]
       /\ rejected' = [rejected EXCEPT ![d] = @ \/ code = "4xx"]
  /\ UNCHANGED <<delivery, faults, crashes>>

\* UpdateDelivery: blind; if it fails the row stays "delivering".
UpdateDelivery(h, d) ==
  /\ job[h][d].pc = "update"
  /\ \/ delivery' = [delivery EXCEPT ![d] = job[h][d].rec] /\ UNCHANGED faults
     \/ UNCHANGED delivery /\ faults < MaxFaults /\ faults' = faults + 1
  /\ job' = [job EXCEPT ![h][d] = Done]
  /\ UNCHANGED <<posts, got, rejected, crashes>>

\* Mistake: the WHERE clause without its condition on the status.
StaleAny == {d \in Deliveries : delivery[d].attempted = "longAgo"}

\* Mistake: the comparison of last_attempt_at the wrong way round.
StaleRecent == {d \in InStatus("delivering") : delivery[d].attempted = "recently"}

\* RecoverStaleDeliveries' WHERE clause: a comparison with NULL is not true.
Stale == {d \in InStatus("delivering") : delivery[d].attempted = "longAgo"}

RecoverStale(h) ==
  /\ Idle(h)
  /\ Stale # {}
  /\ delivery' = [d \in Deliveries |->
       IF d \in Stale THEN [delivery[d] EXCEPT !.status = "pending"] ELSE delivery[d]]
  /\ UNCHANGED <<job, posts, got, rejected, faults, crashes>>

\* staleDeliveryThreshold passes since the last recorded attempt.  A worker
\* that has claimed the row would be done by then, and so would its batch,
\* unless the row had waited as "pending" for most of that time.
Pass(d) ==
  /\ delivery[d].attempted = "recently"
  /\ Backlog \/ (delivery[d].status = "delivering" /\ ~Held(d))
  /\ delivery' = [delivery EXCEPT ![d].attempted = "longAgo"]
  /\ UNCHANGED <<job, posts, got, rejected, faults, crashes>>

\* The host dies, or shuts down in the middle of a batch, and restarts.
Crash(h) ==
  /\ crashes < MaxCrashes
  /\ crashes' = crashes + 1
  /\ job' = [job EXCEPT ![h] = [d \in Deliveries |-> Done]]
  /\ UNCHANGED <<delivery, posts, got, rejected, faults>>

Next ==
  \/ \E d \in Deliveries : Notify(d) \/ Pass(d)
  \/ \E h \in Hosts : ClaimPending(h) \/ RecoverStale(h) \/ Crash(h)
  \/ \E h \in Hosts, d \in Deliveries : Post(h, d) \/ UpdateDelivery(h, d)

Spec == Init /\ [][Next]_vars

\* The tickers of a worker fire again and again, and its goroutines run; a
\* due delivery is claimed by some host in the order of next_retry_at.
Fairness ==
  /\ \A d \in Deliveries :
       /\ WF_vars(Pass(d))
       /\ SF_vars(\E h \in Hosts : ClaimPending(h) /\ delivery'[d] # delivery[d])
  /\ \A h \in Hosts :
       /\ SF_vars(RecoverStale(h))
       /\ \A d \in Deliveries : WF_vars(Post(h, d)) /\ WF_vars(UpdateDelivery(h, d))

FairSpec == Spec /\ Fairness

-----------------------------------------------------------------------------
(* Properties.                                                             *)

\* What a row, or a record about to be written to it, may say of delivery d.
Right(d, rec) ==
  /\ rec.status = "delivered" => got[d]
  /\ rec.status = "failed" => rejected[d] \/ rec.attempts >= MaxRetries

\* A delivery is marked delivered only if the receiver took it, and failed
\* only if the receiver refused it or every retry was used: the outcome a
\* goroutine writes is its own, although the row may have been recovered and
\* claimed by another host meanwhile.
SettledRightly == \A d \in Deliveries : Right(d, delivery[d])

\* The same holds of every record a goroutine has in hand.
JobsRight ==
  \A h \in Hosts, d \in Deliveries :
    job[h][d].pc # "idle" => job[h][d].rec \in Rows /\ Right(d, job[h][d].rec)

\* What keeps SettledRightly true: whatever is written back to a row, however
\* late and over whatever it holds by then, is right about the delivery.
Inv == TypeOK /\ SettledRightly /\ JobsRight

\* What one host adds: the row of a record in hand is still as it was claimed,
\* and every request that was sent is counted by the row, or by the record
\* about to replace it, but for the counts a crash or a failed update has lost.
Uncounted(d) == IF \E h \in Hosts : job[h][d].pc = "update" THEN 1 ELSE 0

HandsFit ==
  /\ \A h \in Hosts, d \in Deliveries : job[h][d].pc # "idle" =>
       /\ delivery[d].status = "delivering"
       /\ job[h][d].rec.attempts = delivery[d].attempts + Uncounted(d)
       /\ job[h][d].pc = "update" /\ job[h][d].rec.status \notin Settled =>
            job[h][d].rec.attempts < MaxRetries
  /\ \A d \in Deliveries :
       /\ delivery[d].attempts <= MaxRetries
       /\ delivery[d].status \notin Settled => delivery[d].attempts < MaxRetries
       /\ posts[d] <= delivery[d].attempts + Uncounted(d) + faults + crashes

\* The receiver sees no more requests for one delivery than max_retries, but
\* for those whose outcome a crash or a failed update has lost.
BoundedPosts == \A d \in Deliveries : posts[d] <= MaxRetries + faults + crashes

\* A delivery that is delivered or has failed is not taken up again: no
\* second worker of the same row overwrites the outcome.
SettledStays ==
  [][\A d \in Deliveries : delivery[d].status \in Settled =>
        delivery'[d].status = delivery[d].status]_vars

\* A delivery whose first attempt is on record gets an outcome, whatever
\* crashes: the recovery finds it by the time of that attempt.
AttemptedSettles ==
  \A d \in Deliveries : delivery[d].attempts > 0 ~> delivery[d].status \in Settled

\* Every delivery in the outbox gets an outcome.
EverySettles ==
  \A d \in Deliveries : delivery[d].status = "pending" ~> delivery[d].status \in Settled

=============================================================================
