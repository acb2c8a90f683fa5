---------------------------- MODULE FleetProofs ----------------------------
(***************************************************************************)
(* The dispatcher keeps its cap and one worker per sender, and the sweeps  *)
(* of the poller miss nothing and repeat nothing, for any number of        *)
(* senders and requests, any cap, any page size and any clocks.            *)
(***************************************************************************)
EXTENDS Fleet, FunctionTheorems, FiniteSetTheorems, TLAPS

LEMMA FiniteTxns ==
  ASSUME NEW S \in SUBSET Txns
  PROVE  IsFiniteSet(S) /\ Cardinality(S) \in Nat
<1>1. IsFiniteSet(Txns)
  BY BacklogAssumption, FS_Interval DEF Txns
<1> QED BY <1>1, FS_Subset, FS_CardinalityType

LEMMA Stamping ==
  ASSUME TypeOK, NEW t \in Txns
  PROVE  /\ rows[t].stamp \in Nat /\ sweep.after.stamp \in Nat /\ sweep.after.id \in Nat
         /\ t \in Nat /\ t > 0
BY BacklogAssumption DEF TypeOK, BacklogTypeOK, Rows, PagingTypeOK, Sweeps, Cursors, Stamps, Txns

-----------------------------------------------------------------------------
(* Types.                                                                  *)

\* What the workers and the poller write.
LEMMA RowTyped ==
  /\ Row("queued", FALSE, 0) \in Rows
  /\ Row("final", FALSE, 0) \in Rows
  /\ \A stamp \in Stamps, hashed \in BOOLEAN :
       /\ Row("processing", hashed, stamp) \in Rows
       /\ Row("submitted", hashed, stamp) \in Rows
BY DEF Row, Rows, Status

LEMMA ChangeTyped ==
  ASSUME TypeOK, NEW t \in Txns, NEW row \in Rows, Change(t, row)
  PROVE  BacklogTypeOK' /\ due' \subseteq Txns
BY DEF TypeOK, BacklogTypeOK, PagingTypeOK, Change, Write

LEMMA WorkTyped ==
  ASSUME TypeOK, NEW t \in Txns, Work(t)
  PROVE  TypeOK'
<1>1. SenderOf[t] \in Senders
  BY BacklogAssumption
<1>2. BacklogTypeOK' /\ due' \subseteq Txns
  <2>1. CASE Claim(t) \/ Persist(t) \/ Mark(t)
    BY <2>1, RowTyped, ChangeTyped DEF Claim, Persist, Mark, Stamped
  <2>2. CASE GiveBack(t) \/ Fail(t)
    BY <2>2, RowTyped, ChangeTyped DEF GiveBack, Fail
  <2>3. CASE SubmitFails(t)
    BY <2>3, RowTyped, ChangeTyped DEF SubmitFails, TypeOK, BacklogTypeOK, PagingTypeOK
  <2> QED BY <2>1, <2>2, <2>3 DEF Work
<1>3. UNCHANGED <<dispatchVars, sweep, seen, errors>>
  BY DEF Work, Claim, GiveBack, Fail, Persist, Mark, SubmitFails, Stamped
<1>4. DispatchTypeOK' /\ PagingTypeOK'
  BY <1>2, <1>3 DEF TypeOK, DispatchTypeOK, PagingTypeOK, dispatchVars
<1>5. sending' \in [Senders -> {0} \cup Txns] /\ stopping' \subseteq Senders /\ retries' \in Nat
  <2>1. CASE Claim(t) \/ GiveBack(t) \/ Fail(t)
    <3>1. UNCHANGED <<sending, stopping>> /\ (retries' = retries \/ retries' = retries + 1)
      BY <2>1 DEF Claim, GiveBack, Fail, workVars
    <3> QED BY <3>1 DEF TypeOK
  <2>2. CASE Persist(t) \/ Mark(t)
    BY <1>1, <2>2 DEF TypeOK, Persist, Mark
  <2>3. CASE SubmitFails(t)
    BY <1>1, <2>3 DEF TypeOK, SubmitFails
  <2> QED BY <2>1, <2>2, <2>3 DEF Work
<1> QED BY <1>2, <1>4, <1>5 DEF TypeOK

LEMMA SweepTyped ==
  ASSUME TypeOK, Sweep, UNCHANGED <<dispatchVars, workVars>>
  PROVE  TypeOK'
<1>1. DispatchTypeOK' /\ sending' \in [Senders -> {0} \cup Txns] /\ stopping' \subseteq Senders
      /\ retries' \in Nat
  BY DEF TypeOK, DispatchTypeOK, dispatchVars, workVars
<1>2. sweep \in Sweeps /\ Start \in Cursors
  BY DEF TypeOK, PagingTypeOK, Start, Cursors
<1>3. Over(sweep.status) \in Sweeps
  BY <1>2 DEF Over, Sweeps
<1>4. EndSweep => sweep' \in Sweeps /\ due' \subseteq Txns /\ seen' \subseteq Txns
  BY <1>3 DEF EndSweep
<1>5. BacklogTypeOK' /\ PagingTypeOK'
  <2>1. CASE BeginSweep
    <3> DEFINE next == IF sweep.status = "submitted" THEN "processing" ELSE "submitted"
    <3>1. [Over(next) EXCEPT !.pc = "query"] \in Sweeps
      BY <1>2 DEF Over, Sweeps
    <3> QED BY <2>1, <3>1 DEF BeginSweep, InStatus, TypeOK, BacklogTypeOK, PagingTypeOK
  <2>2. ASSUME NEW S \in SUBSET Txns, Page(S) PROVE BacklogTypeOK' /\ PagingTypeOK'
    <3>1. PICK last \in S :
            sweep' = [sweep EXCEPT !.pc = "page", !.page = {t \in S : Eligible(t)},
                        !.after = [stamp |-> rows[last].stamp, id |-> last],
                        !.short = Cardinality(S) < PageSize]
      BY <2>2 DEF Page
    <3> DEFINE page == {t \in S : Eligible(t)}
               after == [stamp |-> rows[last].stamp, id |-> last]
               short == Cardinality(S) < PageSize
    <3>2. page \subseteq Txns /\ short \in BOOLEAN
      OBVIOUS
    <3>3. after \in Cursors
      BY DEF TypeOK, BacklogTypeOK, Rows, Cursors
    <3>4. sweep' = [sweep EXCEPT !.pc = "page", !.page = page, !.after = after, !.short = short]
      BY <3>1
    <3> HIDE DEF page, after, short
    <3>5. sweep' \in Sweeps
      BY <1>2, <3>2, <3>3, <3>4 DEF Sweeps
    <3> QED BY <2>2, <3>5 DEF Page, TypeOK, BacklogTypeOK, PagingTypeOK
  <2>3. CASE EmptyPage \/ PageError
    BY <1>4, <2>3 DEF EmptyPage, PageError, TypeOK, BacklogTypeOK, PagingTypeOK
  <2>4. ASSUME NEW t \in Txns, Confirm(t) PROVE BacklogTypeOK' /\ PagingTypeOK'
    <3>1. BacklogTypeOK' /\ due' \subseteq Txns
      BY <2>4, RowTyped, ChangeTyped DEF Confirm, TypeOK, BacklogTypeOK, PagingTypeOK
    <3>2. sweep' \in Sweeps
      BY <1>2, <2>4 DEF Confirm, Sweeps
    <3> QED BY <2>4, <3>1, <3>2 DEF Confirm, TypeOK, PagingTypeOK
  <2>5. CASE PageDone
    <3>1. [sweep EXCEPT !.pc = "query"] \in Sweeps
      BY <1>2 DEF Sweeps
    <3> QED BY <1>4, <2>5, <3>1 DEF PageDone, TypeOK, BacklogTypeOK, PagingTypeOK
  <2> QED BY <2>1, <2>2, <2>3, <2>4, <2>5 DEF Sweep
<1> QED BY <1>1, <1>5 DEF TypeOK

\* The steps of the dispatcher, and the goroutines' ends.
LEMMA DispatchTyped ==
  ASSUME TypeOK,
         \/ \E s \in Senders : WorkerReturns(s)
         \/ (List \/ Dispatch \/ \E s \in Senders : Delete(s))
              /\ UNCHANGED <<rows, pagingVars, workVars>>
  PROVE  TypeOK'
<1>1. BacklogTypeOK' /\ PagingTypeOK' /\ sending' \in [Senders -> {0} \cup Txns]
      /\ stopping' \subseteq Senders /\ retries' \in Nat
  BY DEF TypeOK, BacklogTypeOK, PagingTypeOK, WorkerReturns, pagingVars, workVars
<1>2. DispatchTypeOK'
  <2>1. CASE List
    BY <2>1 DEF List, Oldest, InStatus, TypeOK, DispatchTypeOK
  <2>2. CASE Dispatch
    <3>1. PICK S \in SUBSET Idle :
            /\ workers' = workers \cup {SenderOf[t] : t \in S}
            /\ running' = [s \in Senders |->
                 running[s] + (IF s \in {SenderOf[t] : t \in S} THEN 1 ELSE 0)]
      BY <2>2 DEF Dispatch
    <3> DEFINE started == {SenderOf[t] : t \in S}
    <3>2. S \subseteq Txns
      BY DEF Idle, TypeOK, DispatchTypeOK
    <3>3. started \subseteq Senders
      BY <3>2, BacklogAssumption
    <3>4. /\ workers' = workers \cup started
          /\ running' = [s \in Senders |-> running[s] + (IF s \in started THEN 1 ELSE 0)]
          /\ listed' = {} /\ returned' = returned
      BY <2>2, <3>1 DEF Dispatch
    <3> HIDE DEF started
    <3>5. running' \in [Senders -> Nat]
      BY <3>4 DEF TypeOK, DispatchTypeOK
    <3> QED BY <3>3, <3>4, <3>5 DEF TypeOK, DispatchTypeOK
  <2>3. CASE \E s \in Senders : Return(s)
    BY <2>3 DEF Return, TypeOK, DispatchTypeOK
  <2>4. CASE \E s \in Senders : Delete(s)
    BY <2>4 DEF Delete, Drop, TypeOK, DispatchTypeOK
  <2> QED BY <2>1, <2>2, <2>3, <2>4 DEF WorkerReturns
<1> QED BY <1>1, <1>2 DEF TypeOK

LEMMA StepTyped ==
  ASSUME TypeOK, [Next]_vars
  PROVE  TypeOK'
<1>1. CASE \E t \in Txns : Enqueue(t)
  <2>1. BacklogTypeOK' /\ due' \subseteq Txns
    BY <1>1, RowTyped, ChangeTyped DEF Enqueue
  <2> QED BY <1>1, <2>1 DEF Enqueue, TypeOK, DispatchTypeOK, PagingTypeOK, dispatchVars, workVars
<1>2. CASE UNCHANGED vars
  BY <1>2 DEF vars, TypeOK, BacklogTypeOK, DispatchTypeOK, PagingTypeOK, dispatchVars,
              pagingVars, workVars
<1> QED BY <1>1, <1>2, WorkTyped, SweepTyped, DispatchTyped DEF Next

-----------------------------------------------------------------------------
(* The map of workers.                                                     *)

\* The loop over the list fills the free slots at most: distinct senders are
\* no more than the entries of the list that it takes.
LEMMA DispatchEntries ==
  ASSUME TypeOK, EntriesMatch, Dispatch
  PROVE  EntriesMatch'
<1>1. PICK S \in SUBSET Idle :
        /\ IsFirst(S, Idle, Slots, LAMBDA t, u : t < u)
        /\ workers' = workers \cup {SenderOf[t] : t \in S}
        /\ running' = [s \in Senders |->
             running[s] + (IF s \in {SenderOf[t] : t \in S} THEN 1 ELSE 0)]
        /\ returned' = returned
  BY DEF Dispatch
<1> DEFINE started == {SenderOf[t] : t \in S}
           f == [t \in S |-> SenderOf[t]]
<1>2. /\ Idle \in SUBSET Txns /\ S \in SUBSET Txns
      /\ IsFiniteSet(workers) /\ Cardinality(workers) \in Nat
      /\ Cardinality(workers) <= MaxWorkers /\ MaxWorkers \in Nat
  BY DispatcherAssumption, FS_CardinalityType DEF Idle, TypeOK, DispatchTypeOK, EntriesMatch
<1>3. Cardinality(S) \in Nat /\ IsFiniteSet(S) /\ Cardinality(Idle) \in Nat
  BY <1>2, FiniteTxns
<1>4. Cardinality(S) = IF Cardinality(Idle) < Slots THEN Cardinality(Idle) ELSE Slots
  BY <1>1 DEF IsFirst
<1>5. Cardinality(S) <= MaxWorkers - Cardinality(workers)
  BY <1>2, <1>3, <1>4 DEF Slots
<1>6. f \in Surjection(S, started)
  BY DEF Surjection
<1>7. IsFiniteSet(started) /\ Cardinality(started) <= Cardinality(S)
  BY <1>3, <1>6, FS_Surjection
<1>8. \A s \in started : s \notin workers
  BY DEF Idle
<1>9. /\ workers' = workers \cup started
      /\ running' = [s \in Senders |-> running[s] + (IF s \in started THEN 1 ELSE 0)]
  BY <1>1
<1> HIDE DEF started, f
<1>10. /\ IsFiniteSet(workers \cup started) /\ IsFiniteSet(workers \cap started)
       /\ Cardinality(workers \cup started)
            = Cardinality(workers) + Cardinality(started) - Cardinality(workers \cap started)
  BY <1>2, <1>7, FS_Union, FS_Intersection
<1>11. Cardinality(started) \in Nat /\ Cardinality(workers \cap started) \in Nat
  BY <1>7, <1>10, FS_CardinalityType
<1>12. IsFiniteSet(workers') /\ Cardinality(workers') <= MaxWorkers
  BY <1>2, <1>3, <1>5, <1>7, <1>9, <1>10, <1>11
<1>13. \A s \in Senders : running'[s] + returned'[s] = IF s \in workers' THEN 1 ELSE 0
  <2> SUFFICES ASSUME NEW s \in Senders
               PROVE  running'[s] + returned'[s] = IF s \in workers' THEN 1 ELSE 0
    OBVIOUS
  <2>1. returned' = returned
    BY <1>1
  <2>2. /\ running[s] \in Nat /\ returned[s] \in Nat
        /\ running[s] + returned[s] = IF s \in workers THEN 1 ELSE 0
    BY DEF TypeOK, DispatchTypeOK, EntriesMatch
  <2>3. running'[s] = running[s] + (IF s \in started THEN 1 ELSE 0)
    BY <1>9
  <2> QED BY <1>8, <1>9, <2>1, <2>2, <2>3
<1> QED BY <1>12, <1>13 DEF EntriesMatch

LEMMA DeleteEntries ==
  ASSUME TypeOK, EntriesMatch, NEW s \in Senders, Delete(s)
  PROVE  EntriesMatch'
<1>1. running[s] \in Nat /\ returned[s] \in Nat /\ returned[s] > 0
  BY DEF Delete, TypeOK, DispatchTypeOK
<1>2. /\ workers' = workers \ {s} /\ running' = running
      /\ returned' = [returned EXCEPT ![s] = @ - 1]
  BY DEF Delete, Drop
<1>3. running[s] + returned[s] = 1
  BY <1>1 DEF EntriesMatch
<1>4. \A r \in Senders : running'[r] + returned'[r] = IF r \in workers' THEN 1 ELSE 0
  BY <1>1, <1>2, <1>3 DEF TypeOK, DispatchTypeOK, EntriesMatch
<1>5. IsFiniteSet(workers') /\ Cardinality(workers') <= Cardinality(workers)
  BY <1>2, FS_Subset DEF EntriesMatch
<1>6. Cardinality(workers) \in Nat /\ Cardinality(workers') \in Nat /\ MaxWorkers \in Nat
  BY <1>5, FS_CardinalityType, DispatcherAssumption DEF EntriesMatch
<1> QED BY <1>4, <1>5, <1>6 DEF EntriesMatch

LEMMA ReturnEntries ==
  ASSUME TypeOK, EntriesMatch, NEW s \in Senders, Return(s)
  PROVE  EntriesMatch'
<1>1. \A r \in Senders : running'[r] + returned'[r] = running[r] + returned[r]
  BY DEF Return, TypeOK, DispatchTypeOK
<1> QED BY <1>1 DEF Return, EntriesMatch

LEMMA StepEntries ==
  ASSUME TypeOK, EntriesMatch, [Next]_vars
  PROVE  EntriesMatch'
<1>1. ASSUME UNCHANGED dispatchVars PROVE EntriesMatch'
  BY <1>1 DEF dispatchVars, EntriesMatch
<1>2. CASE \E t \in Txns : Enqueue(t) \/ Work(t)
  BY <1>1, <1>2 DEF Enqueue, Work, Claim, GiveBack, Fail, Persist, Mark, SubmitFails, Stamped
<1>3. CASE \E s \in Senders : WorkerReturns(s)
  BY <1>3, ReturnEntries DEF WorkerReturns
<1>4. CASE List
  BY <1>4 DEF List, EntriesMatch
<1> QED BY <1>1, <1>2, <1>3, <1>4, DispatchEntries, DeleteEntries DEF Next, vars

-----------------------------------------------------------------------------
(* The cursor.                                                             *)

\* A row that is written is no longer owed a visit; the others have not moved.
LEMMA ChangeDivides ==
  ASSUME TypeOK, CursorDivides, NEW t \in Txns, NEW row, Change(t, row),
         UNCHANGED <<sweep, seen>>
  PROVE  CursorDivides'
<1>1. due' = due \ {t} /\ \A u \in due' : rows'[u] = rows[u]
  BY DEF Change, Write, TypeOK, BacklogTypeOK, PagingTypeOK
<1>2. \A u \in due' : Beyond(u)' <=> Beyond(u)
  BY <1>1 DEF Beyond
<1> QED BY <1>1, <1>2 DEF CursorDivides

LEMMA SameDivides ==
  ASSUME CursorDivides, UNCHANGED <<rows, sweep, due, seen>>
  PROVE  CursorDivides'
BY DEF CursorDivides, Beyond

LEMMA EndDivides ==
  ASSUME EndSweep
  PROVE  CursorDivides'
BY DEF EndSweep, CursorDivides, Over

LEMMA BeginDivides ==
  ASSUME TypeOK, CursorDivides, BeginSweep
  PROVE  CursorDivides'
<1> DEFINE next == IF sweep.status = "submitted" THEN "processing" ELSE "submitted"
<1>1. /\ sweep'.pc = "query" /\ sweep'.status = next /\ sweep'.page = {}
      /\ sweep'.after.stamp = 0 /\ sweep'.after.id = 0 /\ sweep'.short = FALSE
  BY DEF BeginSweep, Over, Start
<1>2. rows' = rows /\ seen' = {} /\ due' \subseteq InStatus(next)
  BY DEF BeginSweep, CursorDivides
<1>3. \A t \in due' : t \in Txns /\ rows'[t].status = next
  BY <1>2 DEF InStatus
<1>4. \A t \in due' : Beyond(t)'
  BY <1>1, <1>2, <1>3, Stamping DEF Beyond
<1> QED BY <1>1, <1>2, <1>3, <1>4 DEF CursorDivides

\* A page takes what follows the cursor, in order; a short page takes it all.
LEMMA PageDivides ==
  ASSUME TypeOK, CursorDivides, NEW S \in SUBSET Txns, Page(S)
  PROVE  CursorDivides'
<1> DEFINE T == {t \in InStatus(sweep.status) : Beyond(t)}
<1>1. PICK last \in S :
        /\ \A t \in S \ {last} : Before(t, last)
        /\ sweep' = [sweep EXCEPT !.pc = "page", !.page = {t \in S : Eligible(t)},
                       !.after = [stamp |-> rows[last].stamp, id |-> last],
                       !.short = Cardinality(S) < PageSize]
  BY DEF Page
<1>2. /\ sweep'.pc = "page" /\ sweep'.status = sweep.status
      /\ sweep'.after.stamp = rows[last].stamp /\ sweep'.after.id = last
      /\ sweep'.short = (Cardinality(S) < PageSize)
  BY <1>1 DEF TypeOK, PagingTypeOK, Sweeps
<1>3. /\ S \subseteq T
      /\ Cardinality(S) = IF Cardinality(T) < PageSize THEN Cardinality(T) ELSE PageSize
      /\ \A t \in S, u \in T \ S : Before(t, u)
      /\ rows' = rows /\ due' = due /\ seen' = seen \cup S
  BY DEF Page, IsFirst
<1>4. due \subseteq Txns /\ T \subseteq Txns
  BY DEF TypeOK, PagingTypeOK, InStatus
<1>5. \A t \in due : t \notin seen <=> t \in T
  BY <1>4 DEF CursorDivides, InStatus
<1>6. ASSUME NEW t \in due PROVE t \in seen' <=> ~Beyond(t)'
  <2>1. Beyond(t)' <=> \/ rows[t].stamp > rows[last].stamp
                       \/ rows[t].stamp = rows[last].stamp /\ t > last
    BY <1>2, <1>3 DEF Beyond
  <2>2. /\ rows[t].stamp \in Nat /\ rows[last].stamp \in Nat /\ t \in Nat /\ last \in Nat
        /\ sweep.after.stamp \in Nat /\ sweep.after.id \in Nat
    BY <1>4, Stamping
  <2>3. CASE t \in seen
    <3>1. ~Beyond(t) /\ Beyond(last)
      BY <1>3, <2>3 DEF CursorDivides
    <3> QED BY <1>3, <2>1, <2>2, <2>3, <3>1 DEF Beyond
  <2>4. CASE t \in S
    <3>1. t = last \/ Before(t, last)
      BY <1>1, <2>4
    <3> QED BY <1>3, <2>1, <2>2, <2>4, <3>1 DEF Before
  <2>5. CASE t \notin seen /\ t \notin S
    <3>1. Before(last, t)
      BY <1>3, <1>5, <2>5
    <3> QED BY <1>3, <2>1, <2>2, <2>5, <3>1 DEF Before
  <2> QED BY <2>3, <2>4, <2>5
<1>7. Cardinality(S) < PageSize => due \subseteq seen'
  <2>1. IsFiniteSet(T) /\ Cardinality(T) \in Nat /\ PageSize \in Nat
    BY <1>4, FiniteTxns, PagingAssumption
  <2>2. Cardinality(S) < PageSize => Cardinality(S) = Cardinality(T)
    BY <1>3, <2>1
  <2>3. Cardinality(S) < PageSize => S = T
    BY <1>3, <2>1, <2>2, FS_Subset
  <2> QED BY <1>3, <1>5, <2>3
<1>8. \A t \in due : rows[t].status = sweep.status
  BY DEF CursorDivides
<1> QED BY <1>2, <1>3, <1>6, <1>7, <1>8 DEF CursorDivides

LEMMA ConfirmDivides ==
  ASSUME TypeOK, CursorDivides, NEW t \in Txns, Confirm(t)
  PROVE  CursorDivides'
<1>1. /\ sweep.pc = "page" /\ sweep'.pc = "page" /\ sweep'.status = sweep.status
      /\ sweep'.after = sweep.after /\ sweep'.short = sweep.short /\ seen' = seen
  BY DEF Confirm, TypeOK, PagingTypeOK, Sweeps
<1>2. due' \subseteq due /\ \A u \in due' : rows'[u] = rows[u]
  BY DEF Confirm, Change, Write, TypeOK, BacklogTypeOK, PagingTypeOK
<1>3. \A u \in due' : Beyond(u)' <=> Beyond(u)
  BY <1>1, <1>2 DEF Beyond
<1> QED BY <1>1, <1>2, <1>3 DEF CursorDivides

LEMMA PageDoneDivides ==
  ASSUME TypeOK, CursorDivides, PageDone
  PROVE  CursorDivides'
<1>1. CASE LastPage
  BY <1>1, EndDivides DEF PageDone
<1>2. CASE ~LastPage
  <2>1. /\ sweep'.pc = "query" /\ sweep'.status = sweep.status /\ sweep'.page = {}
        /\ sweep'.after = sweep.after /\ ~sweep'.short /\ UNCHANGED <<rows, due, seen>>
    BY <1>2 DEF PageDone, LastPage, TypeOK, PagingTypeOK, Sweeps
  <2>2. \A t \in due : Beyond(t)' <=> Beyond(t)
    BY <2>1 DEF Beyond
  <2> QED BY <2>1, <2>2 DEF CursorDivides
<1> QED BY <1>1, <1>2

LEMMA StepDivides ==
  ASSUME TypeOK, CursorDivides, [Next]_vars
  PROVE  CursorDivides'
<1>1. CASE \E t \in Txns : Enqueue(t)
  BY <1>1, ChangeDivides DEF Enqueue
<1>2. CASE \E t \in Txns : Work(t)
  <2>1. PICK t \in Txns : Work(t)
    BY <1>2
  <2>2. UNCHANGED <<sweep, seen>>
    BY <2>1 DEF Work, Claim, GiveBack, Fail, Persist, Mark, SubmitFails, Stamped
  <2>3. (\E row : Change(t, row)) \/ UNCHANGED <<rows, due>>
    BY <2>1 DEF Work, Claim, GiveBack, Fail, Persist, Mark, SubmitFails, Stamped
  <2> QED BY <2>2, <2>3, ChangeDivides, SameDivides
<1>3. CASE Sweep
  BY <1>3, BeginDivides, PageDivides, EndDivides, ConfirmDivides, PageDoneDivides
     DEF Sweep, EmptyPage, PageError
<1>4. CASE UNCHANGED <<rows, pagingVars>>
  BY <1>4, SameDivides DEF pagingVars
<1> QED BY <1>1, <1>2, <1>3, <1>4 DEF Next, WorkerReturns, vars

-----------------------------------------------------------------------------
LEMMA InitSound == Init => Inv
<1> SUFFICES ASSUME Init PROVE Inv
  OBVIOUS
<1>1. TypeOK
  BY DEF Init, BacklogInit, DispatchInit, PagingInit, TypeOK, BacklogTypeOK, DispatchTypeOK,
         PagingTypeOK, Rows, Row, Status, Sweeps, Over, Start, Cursors
<1>2. EntriesMatch
  <2>1. IsFiniteSet(workers) /\ Cardinality(workers) = 0 /\ MaxWorkers \in Nat
    BY FS_EmptySet, DispatcherAssumption DEF Init, DispatchInit
  <2> QED BY <2>1 DEF Init, DispatchInit, EntriesMatch
<1>3. CursorDivides
  BY DEF Init, PagingInit, Over, CursorDivides
<1> QED BY <1>1, <1>2, <1>3 DEF Inv

\* The map of workers and the poller's cursor are right in every state.
THEOREM FleetInv == Spec => []Inv
<1>1. Inv /\ [Next]_vars => Inv'
  BY StepTyped, StepEntries, StepDivides DEF Inv
<1> QED BY <1>1, InitSound, PTL DEF Spec

\* Every variable of the process keeps its type: no entry is deleted twice, and
\* the count of a sender's goroutines never goes below zero.
THEOREM TypeCorrect == Spec => []TypeOK
<1>1. Inv => TypeOK
  BY DEF Inv
<1> QED BY <1>1, FleetInv, PTL

\* No sender ever has two workers and the process never has more than the cap,
\* although the dispatcher goes by a list it read without the lock.
THEOREM WorkersBoundedHolds == Spec => []WorkersBounded
<1>1. Inv => WorkersBounded
  <2> SUFFICES ASSUME Inv PROVE WorkersBounded
    OBVIOUS
  <2> DEFINE busy == {s \in Senders : running[s] > 0}
  <2>1. \A s \in Senders : /\ running[s] \in Nat /\ returned[s] \in Nat
                           /\ running[s] + returned[s] = IF s \in workers THEN 1 ELSE 0
    BY DEF Inv, TypeOK, DispatchTypeOK, EntriesMatch
  <2>2. (\A s \in Senders : running[s] <= 1) /\ busy \in SUBSET workers
    BY <2>1
  <2>3. Cardinality(busy) <= Cardinality(workers) /\ Cardinality(busy) \in Nat
    BY <2>2, FS_Subset, FS_CardinalityType DEF Inv, EntriesMatch
  <2>4. Cardinality(workers) \in Nat /\ Cardinality(workers) <= MaxWorkers /\ MaxWorkers \in Nat
    BY FS_CardinalityType, DispatcherAssumption DEF Inv, EntriesMatch
  <2>5. Cardinality(busy) <= MaxWorkers
    BY <2>3, <2>4
  <2> QED BY <2>2, <2>5 DEF WorkersBounded
<1> QED BY <1>1, FleetInv, PTL

\* A sweep that ends without an error has listed every row it began with that
\* was not written since, for any page size, and however clocks and rows move.
THEOREM SweepCompleteHolds == Spec => SweepComplete
<1>1. Inv /\ [Next]_vars =>
        [sweep.pc # "over" /\ sweep'.pc = "over" /\ errors' = errors => due \subseteq seen]_vars
  <2> SUFFICES ASSUME Inv, [Next]_vars, sweep.pc # "over", sweep'.pc = "over", errors' = errors
               PROVE  due \subseteq seen
    OBVIOUS
  <2>1. sweep' # sweep
    OBVIOUS
  <2>2. Sweep
    BY <2>1 DEF Next, Enqueue, Work, Claim, GiveBack, Fail, Persist, Mark, SubmitFails, Stamped,
                WorkerReturns, pagingVars, vars
  <2>3. CASE EmptyPage
    BY <2>3 DEF EmptyPage, Inv, CursorDivides, TypeOK, PagingTypeOK, InStatus
  <2>4. CASE PageError
    BY <2>4 DEF PageError, Inv, TypeOK, PagingTypeOK
  <2>5. CASE PageDone
    <3>1. LastPage
      BY <2>5 DEF PageDone, Inv, TypeOK, PagingTypeOK, Sweeps
    <3> QED BY <3>1 DEF LastPage, Inv, CursorDivides
  <2>6. CASE \E S \in SUBSET Txns : Page(S)
    BY <2>6 DEF Page, Inv, TypeOK, PagingTypeOK, Sweeps
  <2>7. CASE \E t \in Txns : Confirm(t)
    BY <2>7 DEF Confirm
  <2>8. CASE BeginSweep
    BY <2>8 DEF BeginSweep
  <2> QED BY <2>2, <2>3, <2>4, <2>5, <2>6, <2>7, <2>8 DEF Sweep
<1> QED BY <1>1, FleetInv, PTL DEF Spec, SweepComplete

\* No sweep lists a row twice that was not written in between.
THEOREM NeverRelistedHolds == Spec => NeverRelisted
<1>1. Inv /\ [Next]_vars =>
        [\A t \in due : sweep.pc = "query" /\ t \in sweep'.page => t \notin seen]_vars
  <2> SUFFICES ASSUME Inv, [Next]_vars, NEW t \in due, sweep.pc = "query", t \in sweep'.page
               PROVE  t \notin seen
    OBVIOUS
  <2>1. sweep' # sweep
    BY DEF Inv, CursorDivides
  <2>2. Sweep
    BY <2>1 DEF Next, Enqueue, Work, Claim, GiveBack, Fail, Persist, Mark, SubmitFails, Stamped,
                WorkerReturns, pagingVars, vars
  <2>3. PICK S \in SUBSET Txns : Page(S)
    BY <2>2 DEF Sweep, BeginSweep, EmptyPage, PageError, EndSweep, Over, Confirm, PageDone
  <2>4. t \in S /\ S \subseteq {u \in InStatus(sweep.status) : Beyond(u)}
    BY <2>3 DEF Page, IsFirst, Inv, TypeOK, PagingTypeOK, Sweeps
  <2> QED BY <2>4 DEF Inv, CursorDivides
<1> QED BY <1>1, FleetInv, PTL DEF Spec, NeverRelisted

=============================================================================
