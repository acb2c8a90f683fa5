------------------------------- MODULE Paging -------------------------------
(***************************************************************************)
(* The poller's sweeps: pages of rows in the order of (updated_at, id),    *)
(* each from a cursor on, while the rows change and move in that order.    *)
(* updated_at is in whole seconds of the clock of the host that wrote the  *)
(* row: many rows share one, and a later write may set an earlier one.     *)
(***************************************************************************)
EXTENDS Backlog

CONSTANTS
  PageSize,         \* poller page_size
  MaxErrors         \* bound: queries that fail

ASSUME PagingAssumption == PageSize \in Nat \ {0} /\ MaxErrors \in Nat

VARIABLES
  sweep,      \* where the poller is
  due,        \* history: rows the sweep must visit, unchanged since it began
  seen,       \* history: rows the sweep has listed
  errors      \* failed queries so far

pagingVars == <<sweep, due, seen, errors>>

\* pc: next step; after: the cursor; page: rows of the page still to confirm;
\* short: the page was a short one.
Cursors == [stamp : {0} \cup Stamps, id : {0} \cup Txns]
Start == [stamp |-> 0, id |-> 0]
Sweeps == [pc : {"query", "page", "over"}, status : {"submitted", "processing"},
           after : Cursors, page : SUBSET Txns, short : BOOLEAN]

PagingTypeOK ==
  /\ sweep \in Sweeps
  /\ due \subseteq Txns
  /\ seen \subseteq Txns
  /\ errors \in Nat

Over(status) == [pc |-> "over", status |-> status, after |-> Start, page |-> {},
                 short |-> FALSE]

PagingInit ==
  /\ sweep = Over("processing")
  /\ due = {} /\ seen = {}
  /\ errors = 0

-----------------------------------------------------------------------------
\* A row is written: it is no longer one the sweep must visit.
Change(t, row) == Write(t, row) /\ due' = due \ {t}

Before(t, u) == rows[t].stamp < rows[u].stamp \/ (rows[t].stamp = rows[u].stamp /\ t < u)

\* Mistake: the cursor is compared by updated_at alone.
BeyondStamp(t) == rows[t].stamp > sweep.after.stamp

\* Mistake: >= for > in the comparison of ids.
BeyondOrAt(t) ==
  \/ rows[t].stamp > sweep.after.stamp
  \/ rows[t].stamp = sweep.after.stamp /\ t >= sweep.after.id

\* Strictly after the cursor.
Beyond(t) ==
  \/ rows[t].stamp > sweep.after.stamp
  \/ rows[t].stamp = sweep.after.stamp /\ t > sweep.after.id

\* requireHash: the sweep of the rows in processing skips those without one.
Eligible(t) == sweep.status = "submitted" \/ rows[t].hashed

\* poll: a sweep of the rows in submitted, then one of those in processing, and
\* so on at the next tick.  What the first query would find now is what the
\* sweep owes a visit.
BeginSweep ==
  LET next == IF sweep.status = "submitted" THEN "processing" ELSE "submitted" IN
  /\ sweep.pc = "over"
  /\ sweep' = [Over(next) EXCEPT !.pc = "query"]
  /\ due' = {t \in InStatus(next) : next = "submitted" \/ rows[t].hashed}
  /\ UNCHANGED <<rows, seen, errors>>

\* The sweep ends; nothing is kept of it.
EndSweep ==
  /\ sweep' = Over(sweep.status)
  /\ due' = {} /\ seen' = {}

\* ListByStatusPaged, and the cursor moves to the last row of the page.
Page(S) ==
  /\ sweep.pc = "query"
  /\ IsFirst(S, {t \in InStatus(sweep.status) : Beyond(t)}, PageSize, Before)
  /\ \E last \in S :
       /\ \A t \in S \ {last} : Before(t, last)
       /\ sweep' = [sweep EXCEPT !.pc = "page", !.page = {t \in S : Eligible(t)},
                      !.after = [stamp |-> rows[last].stamp, id |-> last],
                      !.short = Cardinality(S) < PageSize]
  /\ seen' = seen \cup S
  /\ UNCHANGED <<rows, due, errors>>

EmptyPage ==
  /\ sweep.pc = "query"
  /\ \A t \in InStatus(sweep.status) : ~Beyond(t)
  /\ EndSweep
  /\ UNCHANGED <<rows, errors>>

\* The query fails: the sweep is given up.
PageError ==
  /\ sweep.pc = "query"
  /\ errors < MaxErrors /\ errors' = errors + 1
  /\ EndSweep
  /\ UNCHANGED rows

\* confirmRecord of a row of the page, in any order: it becomes final if it
\* still has the status, or stays as it is.
Confirm(t) ==
  /\ sweep.pc = "page" /\ t \in sweep.page
  /\ sweep' = [sweep EXCEPT !.page = @ \ {t}]
  /\ \/ rows[t].status = sweep.status /\ Change(t, Row("final", FALSE, 0))
     \/ UNCHANGED <<rows, due>>
  /\ UNCHANGED <<seen, errors>>

\* Mistake: a full page is taken for the last one.
LastPageAny == TRUE

LastPage == sweep.short

PageDone ==
  /\ sweep.pc = "page" /\ sweep.page = {}
  /\ IF LastPage THEN EndSweep
                 ELSE sweep' = [sweep EXCEPT !.pc = "query"] /\ UNCHANGED <<due, seen>>
  /\ UNCHANGED <<rows, errors>>

Sweep ==
  \/ BeginSweep
  \/ (\E S \in SUBSET Txns : Page(S)) \/ EmptyPage \/ PageError
  \/ (\E t \in Txns : Confirm(t)) \/ PageDone

=============================================================================
