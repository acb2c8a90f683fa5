---------------------------- MODULE OutboxProofs ----------------------------
(***************************************************************************)
(* Proofs about Outbox, for any number of hosts, deliveries and retries,   *)
(* any batch size, any crashes and failed updates.                         *)
(***************************************************************************)
EXTENDS Outbox, TLAPS

\* The initial state: every row is absent and every goroutine idle.
LEMMA InvInit == Init => Inv
BY OutboxAssumption DEF Init, Inv, TypeOK, SettledRightly, JobsRight, Right, Rows,
                       Statuses, Settled, Done

\* What a goroutine makes of an answer is a record of the table.
LEMMA AnsweredType ==
  ASSUME NEW code, NEW rec \in Rows
  PROVE  /\ Answered(code, rec) \in Rows
         /\ Answered(code, rec).attempts = rec.attempts
         /\ Answered(code, rec).status = "delivered" => code = "2xx"
         /\ Answered(code, rec).status = "failed" =>
              code = "4xx" \/ rec.attempts >= MaxRetries
BY DEF Answered, Retried, Rows, Statuses, Settled

\* One step of any host, of the notifier or of time keeps the invariant.
LEMMA InvNext == Inv /\ [Next]_vars => Inv'
<1> SUFFICES ASSUME Inv, [Next]_vars PROVE Inv'
  OBVIOUS
<1> USE DEF Inv
<1>1. ASSUME NEW d \in Deliveries, Notify(d) PROVE Inv'
  BY <1>1 DEF Notify, TypeOK, SettledRightly, JobsRight, Right, Rows, Statuses, Settled
<1>2. ASSUME NEW d \in Deliveries, Pass(d) PROVE Inv'
  BY <1>2 DEF Pass, TypeOK, SettledRightly, JobsRight, Right, Rows, Statuses, Settled
<1>3. ASSUME NEW h \in Hosts, ClaimPending(h) PROVE Inv'
  <2>1. PICK S \in SUBSET InStatus("pending") :
          /\ delivery' = [d \in Deliveries |->
               IF d \in S THEN [delivery[d] EXCEPT !.status = "delivering"] ELSE delivery[d]]
          /\ job' = [job EXCEPT ![h] = [d \in Deliveries |->
               IF d \in S
               THEN [pc |-> "post", rec |-> [delivery[d] EXCEPT !.status = "delivering"]]
               ELSE Done]]
    BY <1>3 DEF ClaimPending
  <2>2. UNCHANGED <<posts, got, rejected, faults, crashes>>
    BY <1>3 DEF ClaimPending
  <2> DEFINE claimed(d) == [delivery[d] EXCEPT !.status = "delivering"]
  <2>3. \A d \in Deliveries : claimed(d) \in Rows /\ claimed(d).status = "delivering"
    BY DEF TypeOK, Rows, Statuses
  <2>4. \A d \in Deliveries : delivery'[d] = delivery[d] \/ delivery'[d] = claimed(d)
    BY <2>1
  <2>5. \A g \in Hosts, d \in Deliveries :
          \/ job'[g][d] = job[g][d]
          \/ job'[g][d].pc = "idle"
          \/ job'[g][d].rec = claimed(d)
    BY <2>1 DEF TypeOK, Done
  <2> DEFINE claims == [d \in Deliveries |-> IF d \in S
                          THEN [pc |-> "post", rec |-> claimed(d)] ELSE Done]
             Jobs == [pc : {"idle", "post", "update"}, rec : Rows \cup {Nobody}]
  <2>6. job' = [job EXCEPT ![h] = claims]
    BY <2>1
  <2> HIDE DEF claimed
  <2>7. delivery' \in [Deliveries -> Rows]
    BY <2>1, <2>3, <2>4 DEF TypeOK
  <2>8. claims \in [Deliveries -> Jobs]
    BY <2>3 DEF Done
  <2>9. job' \in [Hosts -> [Deliveries -> Jobs]]
    <3> HIDE DEF claims, Jobs
    <3>1. job \in [Hosts -> [Deliveries -> Jobs]]
      BY DEF TypeOK, Jobs
    <3> QED
      BY <2>6, <2>8, <3>1
  <2>10. TypeOK'
    BY <2>2, <2>7, <2>9 DEF TypeOK
  <2>11. SettledRightly'
    BY <2>2, <2>3, <2>4 DEF SettledRightly, Right
  <2>12. JobsRight'
    BY <2>2, <2>3, <2>5 DEF JobsRight, Right
  <2> QED
    BY <2>10, <2>11, <2>12
<1>4. ASSUME NEW h \in Hosts, RecoverStale(h) PROVE Inv'
  <2>1. \A d \in Deliveries :
          /\ delivery'[d] \in Rows
          /\ delivery'[d] = delivery[d] \/ delivery'[d].status = "pending"
    BY <1>4 DEF RecoverStale, TypeOK, Rows, Statuses
  <2>2. SettledRightly'
    BY <1>4, <2>1 DEF RecoverStale, SettledRightly, Right
  <2>3. TypeOK'
    BY <1>4, <2>1 DEF RecoverStale, TypeOK
  <2>4. JobsRight'
    BY <1>4 DEF RecoverStale, JobsRight, Right
  <2> QED
    BY <2>3, <2>4, <2>2
<1>5. ASSUME NEW h \in Hosts, Crash(h) PROVE Inv'
  BY <1>5 DEF Crash, TypeOK, SettledRightly, JobsRight, Right, Done
<1>6. ASSUME NEW h \in Hosts, NEW d \in Deliveries, Post(h, d) PROVE Inv'
  <2> DEFINE tried == Tried(job[h][d].rec)
  <2>1. job[h][d].rec \in Rows
    BY <1>6 DEF Post, JobsRight
  <2>2. tried \in Rows
    BY <2>1 DEF Rows, Tried
  <2>3. PICK code \in {"2xx", "4xx", "retryable", "none"} :
          /\ job' = [job EXCEPT ![h][d] = [pc |-> "update", rec |-> Answered(code, tried)]]
          /\ got' = [got EXCEPT ![d] = @ \/ code = "2xx"]
          /\ rejected' = [rejected EXCEPT ![d] = @ \/ code = "4xx"]
    BY <1>6 DEF Post
  <2>4. /\ posts' = [posts EXCEPT ![d] = @ + 1]
        /\ UNCHANGED <<delivery, faults, crashes>>
    BY <1>6 DEF Post
  <2>5. \A e \in Deliveries : (got[e] => got'[e]) /\ (rejected[e] => rejected'[e])
    BY <2>3 DEF TypeOK
  <2> DEFINE answered == Answered(code, tried)
  <2>6. /\ answered \in Rows
        /\ answered.status = "delivered" => got'[d]
        /\ answered.status = "failed" => rejected'[d] \/ answered.attempts >= MaxRetries
    <3> HIDE DEF tried
    <3> QED
      BY <2>2, <2>3, AnsweredType DEF TypeOK
  <2> HIDE DEF answered
  <2>7. got' \in [Deliveries -> BOOLEAN] /\ rejected' \in [Deliveries -> BOOLEAN]
    BY <2>3 DEF TypeOK
  <2>8. TypeOK'
    BY <2>3, <2>4, <2>6, <2>7 DEF TypeOK, answered
  <2>9. SettledRightly'
    BY <2>4, <2>5 DEF SettledRightly, Right
  <2>10. JobsRight'
    <3> SUFFICES ASSUME NEW g \in Hosts, NEW e \in Deliveries, job'[g][e].pc # "idle"
                 PROVE  job'[g][e].rec \in Rows /\ Right(e, job[g][e].rec)'
      BY DEF JobsRight
    <3>1. CASE g = h /\ e = d
      BY <3>1, <2>3, <2>6 DEF TypeOK, Right, answered
    <3>2. CASE ~(g = h /\ e = d)
      <4>1. job'[g][e] = job[g][e]
        BY <3>2, <2>3 DEF TypeOK
      <4>2. job[g][e].rec \in Rows /\ Right(e, job[g][e].rec)
        BY <4>1 DEF JobsRight
      <4> QED
        BY <4>1, <4>2, <2>5 DEF Right
    <3> QED
      BY <3>1, <3>2
  <2> QED
    BY <2>8, <2>9, <2>10
<1>7. ASSUME NEW h \in Hosts, NEW d \in Deliveries, UpdateDelivery(h, d) PROVE Inv'
  <2>1. job[h][d].rec \in Rows /\ Right(d, job[h][d].rec)
    BY <1>7 DEF UpdateDelivery, JobsRight
  <2>2. /\ job' = [job EXCEPT ![h][d] = Done]
        /\ UNCHANGED <<posts, got, rejected, crashes>>
        /\ \/ delivery' = [delivery EXCEPT ![d] = job[h][d].rec] /\ UNCHANGED faults
           \/ UNCHANGED delivery /\ faults' = faults + 1
    BY <1>7 DEF UpdateDelivery
  <2>3. TypeOK'
    BY <2>1, <2>2 DEF TypeOK, Done
  <2>4. SettledRightly'
    BY <2>1, <2>2 DEF SettledRightly, Right, TypeOK
  <2>5. JobsRight'
    BY <2>2 DEF JobsRight, Right, TypeOK, Done
  <2> QED
    BY <2>3, <2>4, <2>5
<1>8. CASE UNCHANGED vars
  BY <1>8 DEF vars, TypeOK, SettledRightly, JobsRight, Right
<1> QED
  BY <1>1, <1>2, <1>3, <1>4, <1>5, <1>6, <1>7, <1>8 DEF Next

\* In every reachable state each row, and each record that is about to be
\* written over a row, tells the truth about its delivery.
THEOREM OutboxInv == Spec => []Inv
<1>1. Inv /\ [Next]_vars => Inv'
  BY InvNext
<1> QED
  BY <1>1, InvInit, PTL DEF Spec

\* Worker.deliver and the recovery of stale rows, with any number of hosts: a
\* row says delivered only of what the receiver took, and failed only of what
\* it refused or of what was tried max_retries times.
THEOREM SettledRightlyHolds == Spec => []SettledRightly
<1>1. Inv => SettledRightly
  BY DEF Inv
<1> QED
  BY <1>1, OutboxInv, PTL

-----------------------------------------------------------------------------
(* With one host, and any crashes and failed updates of it.                *)

OneWorker == \A g, h \in Hosts : g = h

LEMMA HandsFitInit == Init => HandsFit
BY OutboxAssumption DEF Init, HandsFit, Uncounted, Settled, Done

\* HandsFit, of one delivery.
Fits(d) ==
  /\ \A h \in Hosts : job[h][d].pc # "idle" =>
       /\ delivery[d].status = "delivering"
       /\ job[h][d].rec.attempts = delivery[d].attempts + Uncounted(d)
       /\ job[h][d].pc = "update" /\ job[h][d].rec.status \notin Settled =>
            job[h][d].rec.attempts < MaxRetries
  /\ delivery[d].attempts <= MaxRetries
  /\ delivery[d].status \notin Settled => delivery[d].attempts < MaxRetries
  /\ posts[d] <= delivery[d].attempts + Uncounted(d) + faults + crashes

\* A delivery that one step leaves alone keeps to HandsFit: more failures only
\* allow more.
LEMMA Untouched ==
  ASSUME Inv, NEW d \in Deliveries, Fits(d),
         delivery'[d].status = delivery[d].status,
         delivery'[d].attempts = delivery[d].attempts,
         posts'[d] = posts[d], faults' \in Nat, crashes' \in Nat,
         faults <= faults', crashes <= crashes',
         \A h \in Hosts : job'[h][d] = job[h][d]
  PROVE  Fits(d)'
<1>1. Uncounted(d)' = Uncounted(d)
  BY DEF Uncounted
<1>2. /\ delivery[d].attempts \in Nat /\ posts[d] \in Nat
      /\ faults \in Nat /\ crashes \in Nat /\ Uncounted(d) \in Nat
  BY DEF Inv, TypeOK, Rows, Uncounted
<1>3. posts'[d] <= delivery'[d].attempts + Uncounted(d)' + faults' + crashes'
  BY <1>1, <1>2 DEF Fits
<1> QED
  BY <1>1, <1>3 DEF Fits

LEMMA HandsFitNext ==
  ASSUME OneWorker
  PROVE  Inv /\ HandsFit /\ [Next]_vars => HandsFit'
<1> SUFFICES ASSUME Inv, HandsFit, [Next]_vars, NEW d \in Deliveries PROVE Fits(d)'
  BY DEF HandsFit, Fits
<1> USE DEF Inv
<1>1. /\ Fits(d)
      /\ delivery[d] \in Rows /\ posts[d] \in Nat
      /\ faults \in Nat /\ crashes \in Nat
      /\ MaxRetries \in Nat
  BY OutboxAssumption DEF HandsFit, Fits, TypeOK
<1>2. ASSUME delivery'[d].status = delivery[d].status,
             delivery'[d].attempts = delivery[d].attempts,
             posts'[d] = posts[d], faults' \in Nat, crashes' \in Nat,
             faults <= faults', crashes <= crashes',
             \A h \in Hosts : job'[h][d] = job[h][d]
      PROVE  Fits(d)'
  BY <1>1, <1>2, Untouched
<1>3. ASSUME NEW e \in Deliveries, Notify(e) PROVE Fits(d)'
  BY <1>3, <1>1, <1>2 DEF Notify, TypeOK, Fits, Uncounted, Settled, Rows
<1>4. ASSUME NEW e \in Deliveries, Pass(e) PROVE Fits(d)'
  <2>1. /\ delivery'[d].status = delivery[d].status
        /\ delivery'[d].attempts = delivery[d].attempts
    BY <1>4, <1>1 DEF Pass, TypeOK, Rows
  <2> QED
    BY <2>1, <1>2, <1>4, <1>1 DEF Pass
<1>5. ASSUME NEW h \in Hosts, ClaimPending(h) PROVE Fits(d)'
  <2>1. PICK S \in SUBSET InStatus("pending") :
          /\ delivery' = [c \in Deliveries |->
               IF c \in S THEN [delivery[c] EXCEPT !.status = "delivering"] ELSE delivery[c]]
          /\ job' = [job EXCEPT ![h] = [c \in Deliveries |->
               IF c \in S
               THEN [pc |-> "post", rec |-> [delivery[c] EXCEPT !.status = "delivering"]]
               ELSE Done]]
    BY <1>5 DEF ClaimPending
  <2>2. UNCHANGED <<posts, faults, crashes>> /\ job[h][d].pc = "idle"
    BY <1>5 DEF ClaimPending, Idle
  <2>3. job'[h][d] = IF d \in S
          THEN [pc |-> "post", rec |-> [delivery[d] EXCEPT !.status = "delivering"]]
          ELSE Done
    BY <2>1 DEF TypeOK
  <2>4. \A g \in Hosts : g = h
    BY DEF OneWorker
  <2>5. Uncounted(d) = 0 /\ Uncounted(d)' = 0
    BY <2>2, <2>3, <2>4 DEF Uncounted, Done
  <2>6. CASE d \in S
    <3>1. delivery[d].status = "pending"
      BY <2>6 DEF InStatus
    <3>2. /\ delivery'[d].status = "delivering"
          /\ delivery'[d].attempts = delivery[d].attempts
          /\ job'[h][d].rec.attempts = delivery[d].attempts
          /\ job'[h][d].pc = "post"
      BY <2>6, <2>1, <2>3, <1>1 DEF Rows
    <3> QED
      BY <3>1, <3>2, <2>2, <2>4, <2>5, <1>1 DEF Fits, Settled, Rows
  <2>7. CASE d \notin S
    BY <2>7, <2>1, <2>2, <2>3, <2>4, <2>5, <1>1 DEF Fits, Done
  <2> QED
    BY <2>6, <2>7
<1>6. ASSUME NEW h \in Hosts, RecoverStale(h) PROVE Fits(d)'
  <2>1. \A g \in Hosts : job[g][d].pc = "idle"
    BY <1>6 DEF RecoverStale, Idle, OneWorker
  <2>2. UNCHANGED <<job, posts, faults, crashes>>
    BY <1>6 DEF RecoverStale
  <2>3. /\ delivery'[d].attempts = delivery[d].attempts
        /\ \/ delivery'[d].status = delivery[d].status
           \/ delivery[d].status = "delivering"
    BY <1>6, <1>1 DEF RecoverStale, Stale, InStatus, Rows
  <2> QED
    BY <2>1, <2>2, <2>3, <1>1 DEF Fits, Uncounted, Settled
<1>7. ASSUME NEW h \in Hosts, Crash(h) PROVE Fits(d)'
  <2>1. /\ UNCHANGED <<delivery, posts, faults>>
        /\ crashes' = crashes + 1
        /\ job' = [job EXCEPT ![h] = [c \in Deliveries |-> Done]]
    BY <1>7 DEF Crash
  <2>2. \A g \in Hosts : job'[g][d].pc = "idle"
    BY <2>1 DEF OneWorker, TypeOK, Done
  <2>3. Uncounted(d)' = 0 /\ Uncounted(d) \in 0 .. 1
    BY <2>2 DEF Uncounted
  <2> QED
    BY <2>1, <2>2, <2>3, <1>1 DEF Fits, Rows
<1>8. ASSUME NEW h \in Hosts, NEW e \in Deliveries, Post(h, e) PROVE Fits(d)'
  <2>1. PICK code \in {"2xx", "4xx", "retryable", "none"} :
          job' = [job EXCEPT ![h][e] =
            [pc |-> "update", rec |-> Answered(code, Tried(job[h][e].rec))]]
    BY <1>8 DEF Post
  <2>2. /\ posts' = [posts EXCEPT ![e] = @ + 1]
        /\ UNCHANGED <<delivery, faults, crashes>>
        /\ job[h][e].pc = "post"
    BY <1>8 DEF Post
  <2>3. CASE e # d
    BY <2>1, <2>2, <2>3, <1>1, <1>2 DEF TypeOK
  <2>4. CASE e = d
    <3>1. job[h][d].rec \in Rows
      BY <2>2, <2>4 DEF JobsRight
    <3>2. /\ Tried(job[h][d].rec) \in Rows
          /\ Tried(job[h][d].rec).attempts = job[h][d].rec.attempts + 1
      BY <3>1 DEF Tried, Rows
    <3>3. \A g \in Hosts : g = h
      BY DEF OneWorker
    <3>4. /\ Uncounted(d) = 0 /\ delivery[d].status = "delivering"
          /\ job[h][d].rec.attempts = delivery[d].attempts
      BY <2>2, <2>4, <3>3, <1>1 DEF Fits, Uncounted, Rows
    <3> DEFINE new == Answered(code, Tried(job[h][d].rec))
    <3>5. /\ job'[h][d] = [pc |-> "update", rec |-> new]
          /\ posts'[d] = posts[d] + 1
      BY <2>1, <2>2, <2>4 DEF TypeOK
    <3>6. /\ new.attempts = delivery[d].attempts + 1
          /\ new.status \notin Settled => new.attempts < MaxRetries
      <4>1. new.attempts = delivery[d].attempts + 1
        BY <3>2, <3>4, AnsweredType
      <4>2. new.attempts \in Nat
        BY <3>2, AnsweredType DEF Rows
      <4>3. new.status \notin Settled => ~(Tried(job[h][d].rec).attempts >= MaxRetries)
        BY <3>2 DEF Answered, Retried, Settled, Rows
      <4> QED
        BY <4>1, <4>2, <4>3, <3>2, <3>4, <1>1 DEF Rows
    <3> HIDE DEF new
    <3>7. Uncounted(d)' = 1
      BY <3>5 DEF Uncounted
    <3> QED
      BY <2>2, <3>3, <3>4, <3>5, <3>6, <3>7, <1>1 DEF Fits, Rows
  <2> QED
    BY <2>3, <2>4
<1>9. ASSUME NEW h \in Hosts, NEW e \in Deliveries, UpdateDelivery(h, e) PROVE Fits(d)'
  <2>1. /\ job' = [job EXCEPT ![h][e] = Done]
        /\ UNCHANGED <<posts, crashes>> /\ job[h][e].pc = "update"
        /\ \/ delivery' = [delivery EXCEPT ![e] = job[h][e].rec] /\ UNCHANGED faults
           \/ UNCHANGED delivery /\ faults' = faults + 1
    BY <1>9 DEF UpdateDelivery
  <2>2. CASE e # d
    BY <2>1, <2>2, <1>1, <1>2 DEF TypeOK
  <2>3. CASE e = d
    <3>1. job[h][d].rec \in Rows
      BY <2>1, <2>3 DEF JobsRight
    <3>2. \A g \in Hosts : g = h
      BY DEF OneWorker
    <3>3. /\ Uncounted(d) = 1 /\ delivery[d].status = "delivering"
          /\ job[h][d].rec.attempts = delivery[d].attempts + 1
          /\ job[h][d].rec.status \notin Settled => job[h][d].rec.attempts < MaxRetries
      BY <2>1, <2>3, <3>2, <1>1 DEF Fits, Uncounted, Rows
    <3>4. job'[h][d].pc = "idle" /\ Uncounted(d)' = 0
      BY <2>1, <2>3, <3>2 DEF TypeOK, Done, Uncounted
    <3>5. delivery[d].attempts < MaxRetries
      BY <3>3, <1>1 DEF Fits, Settled
    <3>6. \/ delivery'[d] = job[h][d].rec /\ faults' = faults
          \/ delivery'[d] = delivery[d] /\ faults' = faults + 1
      BY <2>1, <2>3 DEF TypeOK
    <3> QED
      BY <2>1, <3>1, <3>2, <3>3, <3>4, <3>5, <3>6, <1>1 DEF Fits, Rows
  <2> QED
    BY <2>2, <2>3
<1>10. CASE UNCHANGED vars
  BY <1>10, <1>1, <1>2 DEF vars
<1> QED
  BY <1>3, <1>4, <1>5, <1>6, <1>7, <1>8, <1>9, <1>10 DEF Next

\* The row of a delivery in hand is as it was claimed, and counts its requests.
THEOREM HandsFitHolds ==
  ASSUME OneWorker
  PROVE  Spec => []HandsFit
<1>1. Inv /\ HandsFit /\ [Next]_vars => HandsFit'
  BY HandsFitNext
<1> QED
  BY <1>1, HandsFitInit, OutboxInv, PTL DEF Spec

\* handleRetry stops at max_retries: only the counts that a crash or a failed
\* update has lost let the receiver see more requests than that.
THEOREM BoundedPostsHolds ==
  ASSUME OneWorker
  PROVE  Spec => []BoundedPosts
<1>1. Inv /\ HandsFit => BoundedPosts
  <2> SUFFICES ASSUME Inv, HandsFit, NEW d \in Deliveries
               PROVE  posts[d] <= MaxRetries + faults + crashes
    BY DEF BoundedPosts
  <2>1. /\ delivery[d].attempts \in Nat /\ posts[d] \in Nat /\ MaxRetries \in Nat
        /\ faults \in Nat /\ crashes \in Nat
    BY OutboxAssumption DEF Inv, TypeOK, Rows
  <2>2. CASE \E h \in Hosts : job[h][d].pc = "update"
    <3>1. delivery[d].attempts < MaxRetries /\ Uncounted(d) = 1
      BY <2>2 DEF HandsFit, Settled, Uncounted
    <3> QED
      BY <2>1, <3>1 DEF HandsFit
  <2>3. CASE ~\E h \in Hosts : job[h][d].pc = "update"
    <3>1. Uncounted(d) = 0
      BY <2>3 DEF Uncounted
    <3> QED
      BY <2>1, <3>1 DEF HandsFit
  <2> QED
    BY <2>2, <2>3
<1> QED
  BY <1>1, HandsFitHolds, OutboxInv, PTL

\* The claim, the recovery and a goroutine's update leave an outcome alone:
\* none of them finds a settled row while one host works.
THEOREM SettledStaysHolds ==
  ASSUME OneWorker
  PROVE  Spec => SettledStays
<1>1. Inv /\ HandsFit /\ [Next]_vars =>
        [\A d \in Deliveries : delivery[d].status \in Settled =>
           delivery'[d].status = delivery[d].status]_vars
  <2> SUFFICES ASSUME Inv, HandsFit, Next, NEW d \in Deliveries,
                      delivery[d].status \in Settled
               PROVE  delivery'[d].status = delivery[d].status
    OBVIOUS
  <2> USE DEF Inv, TypeOK, Settled
  <2>1. \A h \in Hosts : job[h][d].pc = "idle"
    BY DEF HandsFit
  <2>2. ASSUME NEW e \in Deliveries, Notify(e) \/ Pass(e)
        PROVE  delivery'[d].status = delivery[d].status
    <3>1. delivery \in [Deliveries -> Rows]
      OBVIOUS
    <3> HIDE DEF Inv, TypeOK
    <3>2. CASE Notify(e)
      <4>1. e # d
        BY <3>2 DEF Notify
      <4> QED
        BY <3>2, <4>1, <3>1 DEF Notify
    <3>3. CASE Pass(e)
      BY <3>3, <3>1 DEF Pass, Rows
    <3> QED
      BY <2>2, <3>2, <3>3
  <2>3. ASSUME NEW h \in Hosts, ClaimPending(h) \/ RecoverStale(h) \/ Crash(h)
        PROVE  delivery'[d].status = delivery[d].status
    BY <2>3 DEF ClaimPending, RecoverStale, Crash, InStatus, Stale
  <2>4. ASSUME NEW h \in Hosts, NEW e \in Deliveries, Post(h, e) \/ UpdateDelivery(h, e)
        PROVE  delivery'[d].status = delivery[d].status
    <3>1. CASE e = d
      BY <3>1, <2>1, <2>4 DEF Post, UpdateDelivery
    <3>2. CASE e # d
      BY <3>2, <2>4 DEF Post, UpdateDelivery
    <3> QED
      BY <3>1, <3>2
  <2> QED
    BY <2>2, <2>3, <2>4 DEF Next
<1> QED
  BY <1>1, HandsFitHolds, OutboxInv, PTL DEF Spec, SettledStays

=============================================================================
