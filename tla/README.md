# Circle wallet service: formal models

This directory holds TLA+ models of the transaction service in `src/`, the TLC
configurations that check them on small instances, and TLAPS proofs of the
safety properties that hold for every value of the constants.

The service accepts requests to execute Move functions, keeps them in MySQL,
has workers claim them in the order of each sender, sign them by way of Circle
and submit them to an Aptos node, polls the node until each has an outcome, and
announces the outcome by webhook. Several instances may share the database.

Line numbers below are those of the files under `src/internal/`.

## 1. Inventory

| Component | State | Operations | Talks to |
|---|---|---|---|
| Transaction store (`store/mysql/mysql.go`, `queue.go`) | table `transactions` (status, sequence number, hash, key, times), table `account_sequences` | create, update, conditional update, claim the oldest queued row of a sender, release / raise / reset the counter, recover stale rows, shift a sender's rows, list by status, free keys, purge | everything below, by SQL transactions |
| Submitter (`submitter/submitter.go`) | map of workers of this process; per worker a context, a bounded channel, the record in the producer's and in the consumer's hands | dispatch, claim, prepare (validate, simulate, sign), push, persist the hash, submit, mark submitted, requeue, fail, shift, reconcile, drain, sweep, recover | store, node, Circle, webhook notifier |
| Poller (`poller/poller.go`) | the page it has listed; one goroutine per record of a page | list, look up the hash, conditional update, notify | store, node, notifier |
| Webhook outbox (`webhook/*.go`, `store/mysql/webhook.go`) | table `webhook_deliveries`; the record each delivering goroutine holds | insert, claim a batch, POST, record the outcome, retry, recover stale deliveries | store, receivers |
| Execute handler (`handler/execute.go`) | none of its own between requests | look the key up, validate, insert, replay after a lost race | store, clients |
| Archiver (`archive/archiver.go`) | the stage of its sweep | free keys of old finished rows, delete old finished rows, batch by batch | store |
| Aptos node (`aptos/client.go` is the client) | mempool and chain of an account | submit, account look-up, transaction look-up, simulate | submitter, poller |
| Dispatcher (`submitter.go:102-157`) | the list of senders it has read, the map of workers | list, start workers under the cap, delete the entry of a worker that returned | store, workers |
| Paging of the poller (`poller.go:108-160`, `mysql.go:214-245`) | the cursor and the page | query a page, move the cursor, confirm, end at a short page | store |
| ABI cache (`aptos/abi.go`) | entries with a time to live, in order of use | look up, fetch without the lock, store, evict | node, workers |
| Public key cache (`circle/pubkey_cache.go`) | entries in order of use, calls in flight | look up, join or lead a call, store, evict | Circle, workers |
| Circle client (`circle/client.go`) | the RSA key, under a mutex | fetch the key, sign | Circle, workers |
| In-memory store (`store/memory*.go`) | the table as a map, an index of idempotency keys | those of the MySQL store, and a reaper by age | tests |
| HTTP surface, configuration, CLI, migrations | none that changes | read-only or start-up | |

How they interact. The database row is the only thing the goroutines share, and
nobody keeps it locked between two statements. A worker, its drain, the recover
loop and the poller all read a row, hold the copy, and write it back later,
some under a condition on the status (`UpdateIfStatus`), most blindly
(`Update` writes all columns of the copy). The channel joins a worker's producer
and consumer; the producer runs under a context that the consumer cancels after
a failure. Whether a request was executed is known to the node alone.

What is hard about it:

* copies of rows that are stale when they are written back: the submitter's
  blind updates against the poller, the recovery and the sweep;
* two statements where one would be needed: requeue and release, listing and
  requeueing, the claim's commit and its read-back, failing and announcing;
* a broadcast whose reply is lost, a transaction that the mempool loses, a
  foreign transaction that takes a sequence number;
* a crash between any two of these steps, and several hosts at once;
* the counter, which runs ahead of, behind and back to the chain;
* idempotency keys that are freed while a handler is deciding;
* a submit that reaches the node after its caller has given it up;
* rows that move in the order the poller pages by, with many on one second;
* senders that compete for worker slots, by a list read without the lock;
* cache misses that overlap, and a call made under another worker's context.

What makes each component correct:

* pipeline: a request is executed at most once and in order, its row says what
  the chain did, its webhook says what the row says, and it gets an outcome;
* outbox: an outcome is right about the delivery, final, and reached in a
  bounded number of POSTs;
* intake: one key names one stored request while the key is kept;
* archive: finished rows leave the table, and in time;
* dispatcher: one worker per sender, the cap, and nobody passed over for ever;
* paging: a sweep lists what was there to list, once, and comes to an end;
* caches: map and list agree, one call per key, and nothing stale beyond the
  time to live; preparing a record always ends.

`PROJECT.json` lists the hazards at their lines, each with the properties that
are about it.

## 2. Modules

| Module | Models | Extends |
|---|---|---|
| `Requests` | the requests of one sender, statuses, transaction hashes, records | |
| `TxStore` | `transactions` and `account_sequences`: one operator per SQL transaction | `Requests` |
| `AptosNode` | the node as the service uses it (external) | `Requests` |
| `Submitter` | start of a worker, producer, consumer, failure procedures, drain, sweep | `TxStore`, `AptosNode` |
| `Poller` | look-up, conditional update, notification | `Submitter` |
| `Pipeline` | the composition, with intake of requests, recover loop, crashes and time | `Poller` |
| `Service` | what the service promises its clients: the abstract specification | |
| `MemoryStore` | the in-memory store: what each method makes of the rows it finds | `TxStore` |
| `Conformance` | the pipeline as an implementation of `Service`, and of MySQL by `MemoryStore` | `Pipeline`, `MemoryStore` |
| `SingleHost` | conditions under which one host keeps the better promise, and the invariants behind it | `Conformance` |
| `Lru` | the list of a cache's keys by last use | |
| `KeyCache` | the public key cache, with singleflight | `Lru` |
| `AbiCache` | the ABI cache, with the versions on chain | `Lru` |
| `Prepare` | workers of several senders that prepare records through both caches and the RSA key | `KeyCache`, `AbiCache` |
| `Backlog` | the table as the dispatcher and the poller read it | |
| `Dispatcher` | the list of senders, the cap, the map of workers | `Backlog` |
| `Paging` | the sweeps of the poller, page by page | `Backlog` |
| `Fleet` | dispatcher, reduced workers of several senders, and paging over one table | `Dispatcher`, `Paging` |
| `Outbox` | the webhook outbox and its workers | |
| `Intake` | Execute with idempotency keys, and the archiver | |
| `MemoryTable` | the in-memory store's records and index of keys, with its callers | |
| `PipelineProofs`, `ConformanceProofs`, `FleetProofs`, `PrepareProofs`, `OutboxProofs`, `IntakeProofs`, `MemoryProofs` | the theorems | the module, `TLAPS` |
| `SingleHostProofs` | the theorems on one host | `SingleHost`, `ConformanceProofs` |
| `MCPipeline`, `MCOutbox`, `MCIntake`, `MCPrepare`, `MCFleet` | values of the constants for TLC | the module |

### The pipeline

`rows[t]` is the row of request `t`: its status (`absent` before the insert),
its sequence number and its hash. `nextSeq` is `next_sequence`. Requests are
numbered in the order the claims go by, `(created_at, id)`. A hash stands for one signing: the
request, the sequence number signed for, and the how-manieth signing it is,
because every build puts a new expiration in the signed bytes.

An *actor* is the producer or the consumer of a host's worker. Its `pc` names
its next SQL statement or RPC, and each of these is a step; `rec` is the record
in its hands, a copy that is not refreshed. The failure procedures
(`requeueTransient`, `markPermanentFailure`, `reconcileAndRequeue`) are run by
both actors, so they are written once, with a return point `ret`. The code and
the actions correspond like this:

| Code (`submitter.go`) | Actions |
|---|---|
| `Run` | `Spawn`, `Exit` |
| `pipelineProducer`, `ClaimNextQueuedForSender` | `Claim`, `Load`, `StopProducing`, `Push`, `GiveUpPush` |
| `prepareRecord` | `Sign`, or `Unprepared` with the failure procedure it calls |
| `submitSigned` | `PersistHash`, `SubmitAccepted`, `SubmitMisnumbered`, `SubmitError`, `MarkSubmitted` |
| `runSenderWorker`, `drainPipeline` | `Receive`, `StopPipeline`, `Drain`, `DrainAccount`, `DrainReconcile`, `Finish` |
| `sweepOrphanedProcessing` | `SweepList`, `Sweep` |
| `requeueTransient`, `requeueRecord` | `Requeue`, `Release` |
| `markPermanentFailure` | `Fail`, `Shift`, `NotifyFailed` |
| `reconcileAndRequeue`, `applyReconcile` | `FetchAccount`, `AdjustCounter`, `ListSiblings`, `RequeueSibling`, `RequeueReconciled` |
| `recoverLoop` | `Recover` |

An SQL statement of the producer fails when its context is cancelled
(`Cancelled`); any statement may fail while `faults < MaxFaults`. A crash loses
what a host has in memory. A shutdown is modelled by the same action, because
under the cancelled context the remaining statements have no effect.

`Recover` may take any set of stale rows: the rows that are old enough at the
tick. With `SlowWorkers = FALSE` a row in the hands of a live worker is not
stale, which the code relies on (threshold 120 s). With `TRUE` it may be.

Node: `log` is what it has accepted, in the order of the sequence numbers, and
the first `committed` entries are on chain. The service learns of the node only
through the sequence number of the account, the look-up of a hash, and the
replies to submits. A submit whose caller gave up (`Abandon`) stays `underway`,
and may reach the node at any later time (`Land`): `SubmitTransactionCtx` leaves
its goroutine running.

### The promise, and the other store

`Service` knows requests, transactions on chain and outcomes told, and nothing
of tables and workers. `Take`, `Execute` and `Tell` are its steps. Under
`Conformance` a request is taken when its row is there, the transactions are
the service's own entries of the committed log, and the outcomes are `told`.
With `Exact` the promise is: once each, in order, one outcome, and that one
right. Without, it is that nothing is lost, nothing is executed unasked, and
nothing is confirmed that did not happen: that much survives lost replies.

`StoresAgree` says that a queue statement which changes the store, and which
MySQL carries out, leaves it as the in-memory method would. The two are written
differently (`memory_queue.go:124` passes over rows without a number, the
bounds are comparisons), so this rests on the states the pipeline gets into.

### Preparing records

`Prepare` has what `prepareRecord` resolves and signs, call by call, for the
workers of several senders. A job's `pc` names its next call, and `stage` whose
wallet it is about. A miss in the key cache joins or leads a flight (`Do`), and
whatever becomes of the leader's call goes to all who wait (`Resolved`,
`Unresolved`): the call runs under the leader's context (`pubkey_cache.go:72`).
Versions of an ABI are counted, and times are kept as ages up to the age from
which nothing is told apart: `since[m][v]` is how long ago version `v` of module
`m` was replaced. The node reads the module (`Answer`) and its answer arrives
later (`StoreModule`), so an older answer may overwrite a newer one.

| Code | Actions |
|---|---|
| `PublicKeyCache.Resolve`, `Client.GetWallet` | `Lookup`, `Do`, `Resolved`, `Unresolved` |
| `ABICache.getModule` | `GetModule`, `Answer`, `StoreModule`, `NoModule` |
| `Client.getRSAKey` | `LockRSA`, `GotRSA`, `Unsigned` |
| `Signer.SignTransaction` | `SignFirst` (the sender, if another pays), `SignLast`, `Unsigned` |
| `pipeCancel` | `Cancel` |

### Dispatcher and paging

`Fleet` is one process with several senders. A row keeps what the two queries
read: status, whether it has a hash, and `stamp`, its `updated_at`. A stamp is
any value on each write: it is in whole seconds (`TIMESTAMP`) of the clock of
whichever host wrote it. Workers are reduced to what they do to rows (claim,
give back, fail, persist the hash, mark submitted, a submit that fails).
`List` and `Dispatch` are two steps, as the list is read before the lock is
taken, and `Return` and `Delete` are two, as the entry goes after the worker
has returned. `Page` is one query and the move of the cursor, and the rows of
a page are confirmed in any order (`Confirm`). `due` and `seen` are history:
the rows a sweep owes a visit, and those it has listed.

### The outbox

`delivery[d]` is a row and `job[h][d]` the goroutine of host `h` that delivers
it. `attempted` abstracts `last_attempt_at` to what the recovery can tell:
`never` (NULL), `recently`, `longAgo`. A worker is one loop, so it claims or
recovers only when its batch is done. `got`, `rejected` and `posts` record what
the receiver saw. `next_retry_at` only delays a claim and is left out.

### Intake and archive

The look-up and the insert of `Execute` are two steps, and the unique index
decides a race. Answers may be lost, and an insert may be committed although it
is reported as failed. A row's `age` is the time since `updated_at`, which the
schema declares `ON UPDATE CURRENT_TIMESTAMP`; `kept` is the time since the row
was finished. An archiver's stage repeats its statement until a batch is short.

### The in-memory store's records

`MemoryTable` has `records` and `idempotencyIdx`, and per caller the copy it
holds (`held`), which keeps the key it was read with. `Put` writes it back as
`Update` does, key included: over a record whose key was freed since, it takes
the key again unless another record has it. `Batches` are any, as Go iterates
over a map in any order. `age` is the time since `UpdatedAt`, up to the
archiver's cutoff, and `born` that since `CreatedAt`, up to the reaper's.

## 3. Runs

The pipeline, outbox and intake runs say `CHECK_DEADLOCK FALSE`: the requests
and the bounded faults may all be used up, and then the system rests. `prepare`
and `fleet` never rest, and are checked for deadlock.

### Runs that pass

| Run | Instance | Shows | Distinct states |
|---|---|---|---|
| `pipeline_safety` | two requests, the second one refused by the VM; one host; a crash anywhere or a foreign transaction, and one mempool eviction | `AtMostOnce`, `FifoOnChain`, `ConfirmedIsOnChain`, `SubmittedWasAccepted`, `OneVerdict`, `NoOrphans`; `ImplementsExactly` and `StoresAgree` through reconciliation, drain and sweep | 2 186 000 |
| `pipeline_live` | one request; crash, outages, a late submit, a failing statement, both deadlines | `Settles`, `ImplementsService`, `StoresAgree`; the inductive invariant `Inv`, with `NumberedInFlight`, `AnnouncedIsOnChain`; `StatusOnChain`, the invariant of one host | 192 000 |
| `outbox_worker` | two deliveries, one host, two tries, a crash, a failing update, a backlog | `SettledRightly`, `SettledStays`, `BoundedPosts`, `AttemptedSettles`; `Inv` and `HandsFit`, from which the first three are proved | 13 000 |
| `intake_keys` | two callers sharing a key, one without; batches of one; one failing statement | `OneUnfinished`, `AnswersAgree`, `Archived`, `Inv` | 254 000 |
| `prepare` | two senders, one paying from the other's wallet, sharing a module; caches of one entry; one upgrade, one failed call, any number of cancellations | `CachesConsistent`, `OneFlight`, `AbiRecent`, `FailsForCause`, `PrepareEnds`; the inductive invariant `Inv` | 112 000 |
| `fleet` | two senders, one request each, one slot; pages of one row, two stamps; one failed query, two rows given back | `WorkersBounded`, `Served`, `SweepComplete`, `NeverRelisted`, `LookedUp`; the inductive invariant `Inv` | 74 000 |

Why the bounds are enough. Two requests are what order, sharing of the
counter, shifting and a full channel (depth 1) need; the third would repeat
them. A request may be signed twice, which is what a duplicate needs. One crash
or one foreign transaction already reaches every failure procedure;
`pipeline_safety` has one or the other in a behaviour (`Mixed = FALSE`), and
`pipeline_live` combines its troubles for one request. Two tries of a delivery separate the first, the last and one too many.
Two clients race for a key, and the third needs none. Caches of one entry evict
at each miss on another key. Two senders and one slot are a full cap with
somebody waiting, and two rows with pages of one are a sweep that goes on after
a full page, with a row before and a row behind the cursor, on the same or
another second. Ages are told apart up to
the two thresholds the code compares with. No symmetry is used: requests are
ordered, and the liveness checks would not allow it.

The bounds are also the limits of what is shown. The following are true of the
model because of a bound or a choice of the constants, and false beyond it:

* `AtMostOnce` fails when a lost reply hides an accepted submit
  (`LostReplies`), when a worker outlives the stale threshold (`SlowWorkers`:
  the condition `status = processing` of `PersistHash` cannot tell two claims
  of the row apart), with two hosts (`pipeline_hosts`), and when the producer
  reconciles (`pipeline_simulated`).
* `FifoOnChain` fails when a statement fails: the read-back after a claim, say,
  which leaves the claimed row to the recovery while later requests go ahead.
* `OneVerdict` fails once requests may expire: the poller expires a row whose
  hash it does not find, the consumer marks the row submitted all the same, and
  the next look-up confirms it.
* `SettledStays` and `BoundedPosts` fail with two hosts and a crash: the claim
  leaves an old `last_attempt_at`, and the other host's recovery resets the
  delivery that is being posted.
* A request may be executed twice, so `ImplementsExactly` fails, when a submit
  that was given up lands after the request was signed again. `pipeline_live`
  allows one signing per request only and checks the weaker promise.
* `FifoOnChain` is about the order of `(created_at, id)`. `created_at` is in
  whole seconds and ids are random, so of the requests that arrive within one
  second any may go first, whereas README.md:386 promises "FIFO per sender".
* A final row need not be announced: the webhook of a row the producer failed is
  inserted under a context that may have been cancelled since the row was
  updated (`submitter.go:712`).
* `FailsForCause` allows what the code does: a worker's cancelled call to Circle
  fails for good the record of another sender that waited for it
  (`pubkey_cache.go:72`, `submitter.go:336`), and so does a network error,
  although `submitter.go:311` says that network errors are transient.
* `Served` holds for finitely many requests: a sender whose queue never
  empties keeps its worker, and the cap's slot, for ever. In the same way
  `LookedUp` needs writes to end: a sweep that meets rows written anew at each
  page does not reach a short page, and the sweep of the rows in `processing`
  comes after it.
* A request that expired may have been executed. Nothing in the code says
  otherwise, and no property here does.

### Runs that end in a counterexample

Each checks one statement of the repository's own documents or comments; the
quotations are with the findings in `PROJECT.json`.

| Run | Statement | What happens instead |
|---|---|---|
| `pipeline_simulated` | rows with a hash are never requeued by a reconciliation (`submitter.go:892-898`) | the list is read, the consumer persists a hash and broadcasts, the blind requeue follows, and the request is executed twice |
| `pipeline_hosts` | instances share the database without double processing (`README.md:7`) | each host has a worker for the sender, and the sweep of one requeues what the other is about to broadcast |
| `pipeline_final` | the life cycle ends in a final status (`store/store.go:11`) | the poller confirms a row in `processing`, and the consumer's blind update makes it `submitted` |
| `pipeline_underflow` | the decrement is bounded at zero (`queue.go:233-235`) | `BIGINT UNSIGNED` minus a greater number is an error in MySQL's default mode, before `GREATEST` sees it, and the recovery rolls back at every tick |
| `outbox_orphan` | deliveries orphaned by a crash are recovered (`webhook/doc.go:9-10`) | a delivery never tried has no `last_attempt_at` for the recovery to compare with |
| `intake_retention` | a finished row is deleted after `retention_days` (`config/config.go:172-173`) | freeing the key moves `updated_at`, and the row starts to age again |

`UnsignedErrors` selects what the decrement of the counter does: `TRUE` is
MySQL's default SQL mode, `FALSE` is what the comments in `queue.go` describe.
The safety runs use `TRUE`. `pipeline_live` uses `FALSE`; with `TRUE` its
`Settles` fails in the way `pipeline_underflow` shows.

### Fairness

`Pipeline!Fairness`: an actor that can take a step takes one, as goroutines do;
the dispatcher ticks, so a worker starts while rows are queued; the recover
loop ticks (every 30 s), so each stale row is recovered; a sweep of the poller
visits each row that it lists, so fairness is per request; the node commits
what it accepted; and time passes. Which of several outcomes a step has (an
error, a lost reply, an outage) is left open, and so is intake. What makes
`Settles` true is then the deadline: a request that keeps failing expires.

`Outbox!Fairness`: goroutines run, thresholds pass, and a due delivery is
claimed in the end, because the claim goes by `next_retry_at` (strong, since a
worker that is busy cannot claim). `Intake!Fairness`: the pipeline finishes
what was inserted (that is `Settles`), time passes, and the archiver ticks.

`Prepare!Fairness`: goroutines run and HTTP calls return, with an answer or an
error (each is bounded by a timeout); the mutex of the RSA key is granted in
the end (strong fairness of `LockRSA`: Go's mutex hands over to a waiter that
starves). `Fleet!Fairness`: each row's worker works, workers return and delete
their entries, the dispatcher ticks, the poller sweeps. Nothing says which
sender is served, nor what a look-up finds.

## 4. Proofs

The theorems hold for any number of requests, hosts, deliveries, clients and
rows, of crashes, faults and retries, for either value of each switch, and for
any depth of the channel, any number of senders and wallets, any cap and page
size, and caches of any size; those of `MemoryProofs` for any number of records,
keys and callers. They assume only the named `ASSUME`s of the
modules: types of the constants, and at least one request, one retry, a batch of
one; the theorems marked "one host" assume `OneWorker` as well (outbox) or what
is said under "One host" (pipeline).

| Theorem | Says |
|---|---|
| `PipelineProofs!InvHolds` | `Spec => []Inv` |
| `TypeCorrect` | every variable keeps its type; the counter stays a natural number |
| `NumberedInFlightHolds` | a queued row has no sequence number and one in flight has one |
| `AnnouncedIsOnChainHolds` | no webhook says confirmed unless the chain executed the request |
| `ConformanceProofs!Implements` | the pipeline implements `Service` without `Exact`, under every fault |
| `StoresAgreeHolds` | a queue statement leaves what the in-memory store's method would |
| `SingleHostProofs!StatusOnChainHolds`, `ConfirmedHolds`, `SubmittedHolds` | one host: what a row says of the chain is true |
| `NoOrphansHolds` | one host, no failing statements: a worker that exits leaves no unhashed row in `processing` |
| `SentOnceHolds`, `AtMostOnceHolds`, `OneVerdictHolds` | one steady host: one transaction and one outcome per request |
| `SentInOrderHolds`, `FifoOnChainHolds` | one calm host: requests reach the chain in order |
| `ImplementsExactlyHolds` | one calm host: the pipeline implements `Service` with `Exact` |
| `FleetProofs!FleetInv`, `TypeCorrect` | the map of workers and the cursor of the poller are right in every state |
| `WorkersBoundedHolds` | one worker per sender, and no more than the cap |
| `SweepCompleteHolds`, `NeverRelistedHolds` | a sweep lists what it owes a visit, and no unwritten row twice |
| `PrepareProofs!PrepareInv`, `TypeCorrect` | workers, caches and flights agree |
| `CachesConsistentHolds`, `OneFlightHolds`, `AbiRecentHolds`, `FailsForCauseHolds` | the safety properties of the run `prepare` |
| `OutboxProofs!OutboxInv`, `SettledRightlyHolds` | an outcome is right about its delivery, with any number of hosts |
| `HandsFitHolds`, `BoundedPostsHolds`, `SettledStaysHolds` | one host: the requests are bounded, and an outcome is final |
| `IntakeProofs!IntakeInv`, `OneUnfinishedHolds`, `AnswersAgreeHolds` | one key, one request, with any number of archivers |
| `MemoryProofs!MemoryInv`, `TypeCorrect` | records, index and copies agree |
| `IndexExactHolds`, `StaysGoneHolds` | the index is a unique index, and what was removed stays gone |

**Pipeline.** `NumberedInFlight` is not inductive: an update writes back a copy,
so the copy must be as good as a row. `Inv` therefore says of *every* copy,
in a hand, in a list, in a channel or with a poller, that it could be the row
(`Sound`: its hash belongs to its request, its number fits its status); and of
every verdict about to be written or announced that the chain has it
(`PollsSound`). A verdict stays true because the committed part of `log` only
grows (`Grows`, `GrowsKeeps`). The proof first shows what each SQL operator
does to sound rows, then that each step of an actor leaves its hand sound
(`GotoSound`, `CallSound`, `LeaveSound`, `ReturnSound` are the four ways to
move), and last that no step disturbs the others.

**Conformance.** Each step takes one request at most, commits are `Execute`,
notifications are `Tell`, and all others stutter. That nothing is executed or
told of a request that was not taken needs `AllKnown`: whatever is held, listed,
under way or in the log is of a request whose row is there, and rows are never
deleted while the pipeline works. That a confirmation is right is
`AnnouncedIsOnChain`. `StoresAgree` rests on `NumberedInFlight`: the methods of
the two stores differ on rows without a number only where no such row gets.

**One host.** These theorems are about any number of requests and any depth of
the channel, with any bounds on foreign transactions, mempool losses and
signings, under one of three conditions on the other constants:

| Condition | Excludes | Left in |
|---|---|---|
| `Alone` | a second host | every fault, slow workers, deadlines, refused requests |
| `Steady` | also reconciliation by the producer (`Simulate`), late submits (`LostReplies`), slow workers, and every request given up for good (`Refused`, `Outages`, deadlines) | crashes, failing statements, transactions that the VM rejects on chain |
| `Calm` | also crashes and failing statements | requeues and reconciliation after foreign transactions and losses |

`NoOrphansHolds` assumes `Alone` and `MaxFaults = 0`. No condition is there for
the proof's sake: without it TLC finds one of the properties violated on a small
instance. For `Simulate`, `LostReplies` and `SlowWorkers` see section 3. With a
second host, one request and no fault are enough to violate `ConfirmedIsOnChain`
and `SubmittedWasAccepted` too. A requeue that fails and a sweep that cannot list
leave an orphan. Requests given up for good: after a crash that leaves
two claimed rows, foreign transactions take their numbers, the third request is
broadcast, the recovery lowers the counter, the first request is claimed with a
lower number and given up, and the shift takes the broadcast row for one that
was not sent: it goes back to the queue with its number lowered, and out again
(three requests, a failing update of the status). Failing statements and order:
the producer's requeue fails, the row stays claimed, its number is released, and
the next request takes it and goes ahead. Crashes and order: a crash leaves a
claimed row, and the next request is broadcast, behind a foreign transaction,
before the recovery finds it.
`FifoOnChain` and `ImplementsExactly` hold with a crash *or* a foreign
transaction for two requests; that stays with TLC (`pipeline_safety`).

The argument goes in four steps, each of which uses the ones before.

1. `StatusOnChain` (`Alone`). `Shape` gives the program text of the two
   goroutines: which `pc` each can have, where a failure procedure returns to,
   and that the consumer winds up only when its producer is gone and its channel
   empty. `HashInHand`: what is submitted is what was persisted. The blind
   updates are then the hazard: a read-back after a slow claim may see a row that
   went past `processing`. `NoneRevived` says that until the consumer fails, such
   a copy is of a row that is past it still, so that writing its status back is true.
2. `SweepCovers` (`Alone`, no failing statement): while the sweep runs, every
   row in `processing` without a hash is on its list.
3. `SentOnce` (`Steady`). With a number consumed and a hash accepted, the row
   has left the queue (`NoneResent`), and nobody holds a copy that could bring it
   back (`LetGo`): copies that a failure procedure writes have no hash
   (`CopiesUnhashed`), and each row is held once (`HeldOnce`). `LogPlaced` ties
   entries of the log to their numbers, and so gives `AtMostOnce`; `ToldTrue` and
   `VerdictTrue` tie webhooks to what was executed, and give `OneVerdict`.
4. `SentInOrder` (`Calm`). `HeldInOrder`: the consumer, the channel and the
   producer hold rows in order, all older than what waits, and hold every
   claimed row. `NotYet`: a row that was not broadcast waits, is held, or is being
   given back. So what is submitted is the oldest request not yet broadcast
   (`OldestSubmitted`), and the log is in order. With it, a commit is an `Execute`
   of the exact service, and a webhook a `Tell`, or a repetition of one: a row
   that was reopened by the blind update is announced twice, with one outcome.

TLC checked the invariants of steps 3 and 4 on two requests under `Calm`, with a
foreign transaction and a loss, before they were proved (401 671 states); the
run `pipeline_live` checks that of step 1 under every fault.

**Fleet.** `EntriesMatch` says that a sender is in the map exactly while one
goroutine runs for it or has yet to delete the entry; so the workers are at most
the entries, and these the cap. `CursorDivides` says that of the rows a sweep
owes a visit those at or before the cursor are the ones it has listed, so a page
takes none twice, and a short one leaves none behind.

**Prepare.** `JobsFit` gives each call its argument; `FlightsLed` ties
singleflight's group to the leaders; `AnswersRecent` and `EntriesRecent` bound
what is on its way by its delay and what is cached by its age and one delay, so
that storing an old answer over a newer one starts its age again without making
it staler than a time to live and a delay. That the map and the list agree
through `MoveToFront`, `PushFront` and eviction is shown of sequences that name
each key once (`TouchedKeeps`, `PushedKeeps`).

**Outbox.** A goroutine's update is blind, so `Inv` says of each record in hand
what `SettledRightly` says of the rows. `got` and `rejected` never become false.
With one host, `HandsFit` adds that a row in hand is as it was claimed and that
each request is counted by the row or by the record about to replace it.

**Intake.** `Inv` has the unique index, and that an answer names a row that
still holds the key or was freed. Freed rows stay freed, so two answers to one
key either name the one row that holds it, or one of them names a freed row.

**In-memory store.** `MemoryTable` has no run of its own: it is proved, under
`MemoryAssumption`, for all its instances. `IndexExact` is inductive with the types, and `StaysGone`
needs only that ids are not given twice. Both hold whatever a held copy says:
`Put` decides by the record and the index it finds (`PlacedKeeps`).

Model-checked only: liveness (`Settles`, `AttemptedSettles`, `Archived`,
`PrepareEnds`, `Served`, `LookedUp`), since it rests on fairness; and order
(`FifoOnChain`, `ImplementsExactly`) with a crash, or without crashes for a
last request that is given up.

## 5. What is not modelled

* The commit of an SQL transaction whose reply is lost (only `Intake` has it).
* A simulation against a node with pending transactions; it sees the chain.
* The rate limit of the poller, which only delays; the receiver of webhooks and
  malformed URLs, which fail permanently.
* Configurations outside the documented ones: `max_retry_duration` below the
  expiration, `webhook.max_retries` of 0.
* That a blind `Update` also writes the idempotency key back: in `Intake` the
  pipeline leaves keys alone.
* Of `Prepare`: the build of a transaction and its simulation, which `Submitter`
  has as outcomes; a deadline of its own for each call, which is one more way
  for the call to fail.
* Of the in-memory store: `Close`, and the order of the listings, which `Paging`
  has of the SQL.
* Argument encoding (`aptos/args.go`), a pure conversion whose failure is a
  permanent failure of the request; encryption and the assembly of
  authenticators (`circle/`), conversions as well.
* The HTTP surface (authentication, validation, the global rate limiter),
  configuration, CLI, migrations and the example programs: sequential code that
  keeps no state the rest depends on.

## 6. What is left

1. `FifoOnChain` for one host that may crash while nobody else uses the account.
2. `AtMostOnce` with requests that are given up for good, for which the shift
   must be shown to find only rows that were not broadcast: TLC first, to find
   the weakest condition under which it does.
3. `Fleet` with three requests and a page of two, beyond what a run of a few
   minutes reaches with liveness.
