------------------------------- MODULE Intake -------------------------------
(***************************************************************************)
(* How requests enter the transactions table and how old rows leave it:    *)
(* POST /v1/execute with its idempotency key (handler Execute), and the    *)
(* archiver of each host, which first frees the keys of finished rows and  *)
(* later deletes the rows.  A handler's look-up and its insert are two     *)
(* statements; the unique index on idempotency_key decides a race, and an  *)
(* answer may be lost on its way to the client, who then asks again.       *)
(***************************************************************************)
EXTENDS Integers, FiniteSets

CONSTANTS
  Clients,              \* concurrent callers
  KeyOf,                \* the idempotency key each of them sends, or None
  None,                 \* SQL NULL: no idempotency key
  Hosts,                \* server instances, one archiver each
  MaxRows,              \* bound: rows ever created
  IdempotencyRetention, \* age at which a finished row loses its key
  Retention,            \* age at which a finished row is deleted
  Batch,                \* archive.batch_size
  MaxFaults             \* bound: statements of the archivers that fail

Oldest == 2             \* bound: the greatest age told apart

ASSUME IntakeAssumption ==
  /\ MaxRows \in Nat /\ Batch \in Nat \ {0} /\ MaxFaults \in Nat
  /\ IdempotencyRetention \in 1 .. Oldest /\ Retention \in 1 .. Oldest
  /\ DOMAIN KeyOf = Clients

VARIABLES
  table,      \* the rows, numbered in the order they were created
  request,    \* where the handler of each client's request is
  replies,    \* history: the ids each client was told with status 202
  sweep,      \* the stage of each host's archiver
  faults

vars == <<table, request, replies, sweep, faults>>

Ids == 1 .. MaxRows
Keys == {KeyOf[c] : c \in Clients} \cup {None}

\* finished: the status is terminal; age: the time since updated_at; kept:
\* history, the time since the row was finished.
Rows == [status : {"absent", "unfinished", "finished", "deleted"},
         key : Keys, age : 0 .. Oldest, kept : 0 .. Oldest]

NoRow == [status |-> "absent", key |-> None, age |-> 0, kept |-> 0]

TypeOK ==
  /\ table \in [Ids -> Rows]
  /\ request \in [Clients -> {"idle", "check", "create", "conflict"}]
  /\ replies \in [Clients -> SUBSET Ids]
  /\ sweep \in [Hosts -> {"rest", "clear", "purge"}]
  /\ faults \in Nat

Init ==
  /\ table = [i \in Ids |-> NoRow]
  /\ request = [c \in Clients |-> "idle"]
  /\ replies = [c \in Clients |-> {}]
  /\ sweep = [h \in Hosts |-> "rest"]
  /\ faults = 0

-----------------------------------------------------------------------------
InStatus(s) == {i \in Ids : table[i].status = s}

\* GetByIdempotencyKey, and the rows a UNIQUE index compares with.
WithKey(k) ==
  {i \in InStatus("unfinished") \cup InStatus("finished") : k # None /\ table[i].key = k}

\* Answer 202 with the id of row i; the answer may not reach the client.
Answer(c, i) ==
  /\ request' = [request EXCEPT ![c] = "idle"]
  /\ \/ replies' = [replies EXCEPT ![c] = @ \cup {i}]
     \/ UNCHANGED replies

\* Answer with an error, which leaves no trace.
Refuse(c) ==
  /\ request' = [request EXCEPT ![c] = "idle"]
  /\ UNCHANGED <<table, replies, sweep, faults>>

\* Execute: the key, from the body or the header, decides whether to look.
Receive(c) ==
  /\ request[c] = "idle"
  /\ request' = [request EXCEPT ![c] = IF KeyOf[c] = None THEN "create" ELSE "check"]
  /\ UNCHANGED <<table, replies, sweep, faults>>

\* The first idempotency check, before the request is validated.
Check(c) ==
  /\ request[c] = "check"
  /\ \/ /\ \E i \in WithKey(KeyOf[c]) : Answer(c, i)
        /\ UNCHANGED <<table, sweep, faults>>
     \/ /\ WithKey(KeyOf[c]) = {}
        /\ request' = [request EXCEPT ![c] = "create"]
        /\ UNCHANGED <<table, replies, sweep, faults>>
     \/ Refuse(c)

\* Mistake: the table has no unique index on idempotency_key.
InsertDuplicate(c, i) ==
  /\ table[i].status = "absent"
  /\ \A j \in Ids : j < i => table[j].status # "absent"
  /\ table' = [table EXCEPT ![i].status = "unfinished", ![i].key = KeyOf[c]]

\* Create: the insert succeeds if the key is free.
Insert(c, i) ==
  /\ WithKey(KeyOf[c]) = {}
  /\ table[i].status = "absent"
  /\ \A j \in Ids : j < i => table[j].status # "absent"
  /\ table' = [table EXCEPT ![i].status = "unfinished", ![i].key = KeyOf[c]]

\* Validation may refuse the request first, and an insert that is reported
\* as failed may have been committed.
Create(c) ==
  /\ request[c] = "create"
  /\ \/ \E i \in Ids : Insert(c, i) /\ Answer(c, i) /\ UNCHANGED <<sweep, faults>>
     \/ /\ WithKey(KeyOf[c]) # {}
        /\ request' = [request EXCEPT ![c] = "conflict"]
        /\ UNCHANGED <<table, replies, sweep, faults>>
     \/ Refuse(c)

\* Mistake: the loser of the race answers with the row it did not insert.
ReplayAny(c) ==
  /\ request[c] = "conflict"
  /\ \E i \in Ids : Answer(c, i)
  /\ UNCHANGED <<table, sweep, faults>>

\* The race path: the loser of the unique index replays the winner's row,
\* and gives up if the archiver has freed the key meanwhile.
Replay(c) ==
  /\ request[c] = "conflict"
  /\ \/ (\E i \in WithKey(KeyOf[c]) : Answer(c, i)) /\ UNCHANGED <<table, sweep, faults>>
     \/ Refuse(c)

-----------------------------------------------------------------------------
\* The pipeline gives a row its terminal status, and a new updated_at.
Finish(i) ==
  /\ table[i].status = "unfinished"
  /\ table' = [table EXCEPT ![i].status = "finished", ![i].age = 0]
  /\ UNCHANGED <<request, replies, sweep, faults>>

\* Time passes.
Older(n) == IF n < Oldest THEN n + 1 ELSE Oldest

Pass(i) ==
  /\ table[i].status \in {"unfinished", "finished"}
  /\ table[i].age < Oldest
  /\ table' = [table EXCEPT ![i].age = Older(@),
       ![i].kept = IF table[i].status = "finished" THEN Older(@) ELSE @]
  /\ UNCHANGED <<request, replies, sweep, faults>>

\* Mistake: no condition on the status.
ClearableAny ==
  {i \in Ids : table[i].key # None /\ table[i].age >= IdempotencyRetention}

\* Mistake: rows that never had a key, or have lost it, are passed over.
PurgeableKeyed == {i \in InStatus("finished") : table[i].key # None /\ table[i].age >= Retention}

\* ClearIdempotencyOlderThan and PurgeTerminalOlderThan, WHERE.
Clearable ==
  {i \in InStatus("finished") : table[i].key # None /\ table[i].age >= IdempotencyRetention}
Purgeable == {i \in InStatus("finished") : table[i].age >= Retention}

\* LIMIT: as many rows as there are, up to a batch.
Batches(S) == {B \in SUBSET S : Cardinality(B) = IF Cardinality(S) < Batch
                                                 THEN Cardinality(S) ELSE Batch}

Sweep(h) ==
  /\ sweep[h] = "rest"
  /\ sweep' = [sweep EXCEPT ![h] = "clear"]
  /\ UNCHANGED <<table, request, replies, faults>>

\* One statement of a stage: a short batch, or an error, ends the stage.
Stage(h, stage, next, S, row) ==
  /\ sweep[h] = stage
  /\ \/ \E B \in Batches(S) :
          /\ table' = [i \in Ids |-> IF i \in B THEN row[i] ELSE table[i]]
          /\ sweep' = [sweep EXCEPT ![h] = IF Cardinality(B) < Batch THEN next ELSE @]
          /\ UNCHANGED faults
     \/ /\ faults < MaxFaults /\ faults' = faults + 1
        /\ sweep' = [sweep EXCEPT ![h] = next]
        /\ UNCHANGED table
  /\ UNCHANGED <<request, replies>>

\* The column updated_at is declared ON UPDATE CURRENT_TIMESTAMP, and the
\* statement that clears the key does not set it.
ClearKeys(h) ==
  Stage(h, "clear", "purge", Clearable,
        [i \in Ids |-> [table[i] EXCEPT !.key = None, !.age = 0]])

Purge(h) ==
  Stage(h, "purge", "rest", Purgeable, [i \in Ids |-> [NoRow EXCEPT !.status = "deleted"]])

Next ==
  \/ \E c \in Clients : Receive(c) \/ Check(c) \/ Create(c) \/ Replay(c)
  \/ \E i \in Ids : Finish(i) \/ Pass(i)
  \/ \E h \in Hosts : Sweep(h) \/ ClearKeys(h) \/ Purge(h)

Spec == Init /\ [][Next]_vars

\* Requests are worked off, time passes and the archiver ticks; clients need
\* not call.
Fairness ==
  /\ \A i \in Ids : WF_vars(Finish(i)) /\ WF_vars(Pass(i))
  /\ \A h \in Hosts : WF_vars(Sweep(h)) /\ WF_vars(ClearKeys(h)) /\ WF_vars(Purge(h))

FairSpec == Spec /\ Fairness

-----------------------------------------------------------------------------
(* Properties.                                                             *)

\* However often and however concurrently clients send a key, no two requests
\* with it are unfinished at once: neither the race of two handlers nor an
\* archiver between their look-up and their insert lets a second one in.
OneUnfinished ==
  \A i, j \in InStatus("unfinished") :
    table[i].key # None /\ table[i].key = table[j].key => i = j

\* The row was finished for long enough to lose its key.
Freed(i) == table[i].status \in {"finished", "deleted"} /\ table[i].key = None

\* All answers to one key name the same stored request, but for one that had
\* been finished for the idempotency retention.
AnswersAgree ==
  \A c, d \in Clients : KeyOf[c] # None /\ KeyOf[c] = KeyOf[d] =>
    \A i \in replies[c], j \in replies[d] : i = j \/ Freed(i) \/ Freed(j)

\* No two rows hold one key, whatever their status, and a deleted row or one
\* that does not exist yet holds none.
KeysUnique ==
  /\ \A i, j \in Ids : table[i].key # None /\ table[i].key = table[j].key => i = j
  /\ \A i \in Ids : table[i].status \in {"absent", "deleted"} => table[i].key = None

\* A client that sent a key was told of a row that holds it or has lost it,
\* and of no row that does not exist.
RepliesNamed ==
  \A c \in Clients : \A i \in replies[c] :
    /\ table[i].status # "absent"
    /\ KeyOf[c] # None => table[i].key = KeyOf[c] \/ Freed(i)

\* What keeps OneUnfinished and AnswersAgree true.
Inv == TypeOK /\ KeysUnique /\ RepliesNamed

\* Every request leaves the table in the end: the first stage of a sweep runs
\* out of keys to free, so that the second is reached.
Archived == \A i \in Ids : table[i].status = "finished" ~> table[i].status = "deleted"

\* A purge that ends without an error leaves no row that has been finished
\* for the retention time.
PurgedOnTime ==
  [][\A h \in Hosts : sweep[h] = "purge" /\ sweep'[h] = "rest" /\ faults' = faults =>
       \A i \in Ids : table'[i].status = "finished" => table'[i].kept < Retention]_vars

=============================================================================
