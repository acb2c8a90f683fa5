------------------------------- MODULE Prepare -------------------------------
(***************************************************************************)
(* What prepareRecord (submitter.go) resolves and signs, for the workers   *)
(* of several senders in one process: they share the cache of public keys, *)
(* the cache of ABIs and the mutex around Circle's RSA key.  A worker's    *)
(* context is cancelled when its consumer fails to submit.                 *)
(***************************************************************************)
EXTENDS KeyCache, AbiCache

CONSTANTS
  Senders,          \* senders with a worker in this process
  WalletOf,         \* the wallet of each
  PayerOf,          \* the wallet of its separate fee payer, or None
  ModulesOf,        \* the modules its requests call
  None,             \* no payer, no module, no holder of the mutex
  MaxFaults         \* bound: HTTP calls that fail, or are refused

ASSUME PrepareAssumption ==
  /\ WalletOf \in [Senders -> Wallets]
  /\ PayerOf \in [Senders -> Wallets \cup {None}]
  /\ ModulesOf \in [Senders -> SUBSET Modules]
  /\ None \notin Wallets \cup Modules \cup Senders
  /\ MaxFaults \in Nat

VARIABLES
  job,        \* what the worker of each sender is at
  cancelled,  \* whether its context is done
  failed,     \* whether it marked the record it last prepared as failed
  rsaKnown,   \* Client.rsaKey
  rsaHolder,  \* who holds rsaKeyMu
  faults      \* failed HTTP calls so far

workVars == <<job, cancelled, failed, rsaKnown, rsaHolder, faults>>
vars == <<keyVars, abiVars, workVars>>

\* pc: the next call; stage: whose wallet it is about; calls: the module, until
\* its ABI is there; version, delay: the node's answer, and for how many ticks
\* it has been on its way.
PCs == {"idle", "lookup", "do", "wait", "fetch", "abi", "ask", "answer",
        "lock", "rsa", "post"}
Stages == {"sender", "payer"}
Jobs == [pc : PCs, stage : Stages, calls : Modules \cup {None},
         version : Versions \cup {0}, delay : 0 .. MaxDelay]
Idle == [pc |-> "idle", stage |-> "sender", calls |-> None, version |-> 0, delay |-> 0]

TypeOK ==
  /\ KeyTypeOK /\ AbiTypeOK
  /\ job \in [Senders -> Jobs]
  /\ cancelled \in [Senders -> BOOLEAN]
  /\ failed \in [Senders -> BOOLEAN]
  /\ rsaKnown \in BOOLEAN
  /\ rsaHolder \in Senders \cup {None}
  /\ faults \in Nat

Init ==
  /\ KeyInit /\ AbiInit
  /\ job = [s \in Senders |-> Idle]
  /\ cancelled = [s \in Senders |-> FALSE]
  /\ failed = [s \in Senders |-> FALSE]
  /\ rsaKnown = FALSE
  /\ rsaHolder = None
  /\ faults = 0

-----------------------------------------------------------------------------
At(s, pc) == job[s].pc = pc

\* The wallet a worker's call is about.
Wanted(s) == IF job[s].stage = "payer" THEN PayerOf[s] ELSE WalletOf[s]

\* A call under the worker's context fails if that is done; any call may fail.
Breaks(s) ==
  \/ cancelled[s] /\ UNCHANGED faults
  \/ faults < MaxFaults /\ faults' = faults + 1

\* Where prepareRecord goes once the key of the stage is there.
Keyed(j) == [j EXCEPT !.pc = IF j.stage = "sender" THEN "abi" ELSE "lock",
                      !.stage = "sender"]

\* The record leaves the worker's hands: signed, requeued, or failed for good.
\* Under a context that is done no statement succeeds, and the row is left to
\* the worker's sweep.
End(s, fails) ==
  /\ job' = [job EXCEPT ![s] = Idle]
  /\ failed' = [failed EXCEPT ![s] = fails /\ ~cancelled[s]]
  /\ cancelled' = [cancelled EXCEPT ![s] = FALSE]

-----------------------------------------------------------------------------
\* The worker's producer has claimed a record.
Start(s) ==
  /\ At(s, "idle")
  /\ \E m \in ModulesOf[s] : job' = [job EXCEPT ![s].pc = "lookup", ![s].calls = m]
  /\ failed' = [failed EXCEPT ![s] = FALSE]
  /\ UNCHANGED <<keyVars, abiVars, cancelled, rsaKnown, rsaHolder, faults>>

\* pipeCancel.
Cancel(s) ==
  /\ ~At(s, "idle") /\ ~cancelled[s]
  /\ cancelled' = [cancelled EXCEPT ![s] = TRUE]
  /\ UNCHANGED <<keyVars, abiVars, job, failed, rsaKnown, rsaHolder, faults>>

\* Resolve: the look-up comes before the flight is joined.
Lookup(s) ==
  /\ At(s, "lookup")
  /\ \/ KeyHit(Wanted(s)) /\ job' = [job EXCEPT ![s] = Keyed(@)]
     \/ /\ Wanted(s) \notin known
        /\ job' = [job EXCEPT ![s].pc = "do"]
        /\ UNCHANGED keyVars
  /\ UNCHANGED <<abiVars, cancelled, failed, rsaKnown, rsaHolder, faults>>

Do(s) ==
  /\ At(s, "do")
  /\ \/ /\ Lead(Wanted(s))
        /\ job' = [job EXCEPT ![s].pc = "fetch"]
     \/ /\ Wanted(s) \in flying
        /\ job' = [job EXCEPT ![s].pc = "wait"]
        /\ UNCHANGED flying
  /\ UNCHANGED <<known, keyLru, abiVars, cancelled, failed, rsaKnown, rsaHolder, faults>>

\* The leader of a flight and those who wait for it.
Aboard(s) == {s} \cup {d \in Senders : At(d, "wait") /\ Wanted(d) = Wanted(s)}

\* Circle answers the leader with the key: it is stored, and all go on.
Resolved(s) ==
  /\ At(s, "fetch")
  /\ KeyStore(Wanted(s)) /\ Land(Wanted(s))
  /\ job' = [d \in Senders |-> IF d \in Aboard(s) THEN Keyed(job[d]) ELSE job[d]]
  /\ UNCHANGED <<abiVars, cancelled, failed, rsaKnown, rsaHolder, faults>>

\* Mistake: a payer whose key cannot be resolved fails the record as well.
FatalPayer(d) == ~cancelled[d]

\* A key that cannot be resolved is permanent for the sender, transient for
\* the payer.
Fatal(d) == job[d].stage = "sender" /\ ~cancelled[d]

\* Circle refuses, or the leader's call breaks: the error goes to all.
Unresolved(s) ==
  /\ At(s, "fetch")
  /\ Breaks(s)
  /\ Land(Wanted(s))
  /\ job' = [d \in Senders |-> IF d \in Aboard(s) THEN Idle ELSE job[d]]
  /\ failed' = [d \in Senders |-> failed[d] \/ (d \in Aboard(s) /\ Fatal(d))]
  /\ cancelled' = [d \in Senders |-> d \notin Aboard(s) /\ cancelled[d]]
  /\ UNCHANGED <<known, keyLru, abiVars, rsaKnown, rsaHolder>>

\* Mistake: a payer's key is wanted whether or not there is a payer.
DescribedPaid(s) == [Idle EXCEPT !.pc = "lookup", !.stage = "payer"]

\* Where prepareRecord goes with the ABI: to the payer's key, or to sign.
Described(s) ==
  IF PayerOf[s] = None THEN [Idle EXCEPT !.pc = "lock"]
                       ELSE [Idle EXCEPT !.pc = "lookup", !.stage = "payer"]

\* getModule: from the cache, or else from the node, which takes no context.
GetModule(s) ==
  /\ At(s, "abi")
  /\ \/ /\ AbiHit(job[s].calls)
        /\ job' = [job EXCEPT ![s] = Described(s)]
     \/ /\ ~Fresh(job[s].calls)
        /\ job' = [job EXCEPT ![s].pc = "ask"]
        /\ UNCHANGED abiVars
  /\ UNCHANGED <<keyVars, cancelled, failed, rsaKnown, rsaHolder, faults>>

\* The node reads the module.
Answer(s) ==
  /\ At(s, "ask")
  /\ job' = [job EXCEPT ![s].pc = "answer", ![s].version = Current(job[s].calls)]
  /\ UNCHANGED <<keyVars, abiVars, cancelled, failed, rsaKnown, rsaHolder, faults>>

\* Its answer arrives.
StoreModule(s) ==
  /\ At(s, "answer")
  /\ AbiStore(job[s].calls, job[s].version)
  /\ job' = [job EXCEPT ![s] = Described(s)]
  /\ UNCHANGED <<keyVars, since, cancelled, failed, rsaKnown, rsaHolder, faults>>

\* The module is not there, or the call fails: both are permanent.
NoModule(s) ==
  /\ At(s, "ask")
  /\ faults < MaxFaults /\ faults' = faults + 1
  /\ End(s, TRUE)
  /\ UNCHANGED <<keyVars, abiVars, rsaKnown, rsaHolder>>

\* getRSAKey: the mutex is held during the HTTP call if there is no key yet.
LockRSA(s) ==
  /\ At(s, "lock") /\ rsaHolder = None
  /\ IF rsaKnown
     THEN job' = [job EXCEPT ![s].pc = "post"] /\ UNCHANGED rsaHolder
     ELSE job' = [job EXCEPT ![s].pc = "rsa"] /\ rsaHolder' = s
  /\ UNCHANGED <<keyVars, abiVars, cancelled, failed, rsaKnown, faults>>

GotRSA(s) ==
  /\ At(s, "rsa")
  /\ rsaKnown' = TRUE /\ rsaHolder' = None
  /\ job' = [job EXCEPT ![s].pc = "post"]
  /\ UNCHANGED <<keyVars, abiVars, cancelled, failed, faults>>

\* Mistake: a failed call returns without unlocking.
KeepLock(s) == rsaHolder' = s

Unlock(s) == rsaHolder' = IF rsaHolder = s THEN None ELSE rsaHolder

\* The RSA key or the signature cannot be had: transient.
Unsigned(s) ==
  /\ At(s, "rsa") \/ At(s, "post")
  /\ Breaks(s)
  /\ Unlock(s)
  /\ End(s, FALSE)
  /\ UNCHANGED <<keyVars, abiVars, rsaKnown>>

\* SignTransaction, as the sender and then as the separate fee payer.
SignFirst(s) ==
  /\ At(s, "post")
  /\ job[s].stage = "sender" /\ PayerOf[s] # None
  /\ job' = [job EXCEPT ![s].pc = "lock", ![s].stage = "payer"]
  /\ UNCHANGED <<keyVars, abiVars, cancelled, failed, rsaKnown, rsaHolder, faults>>

SignLast(s) ==
  /\ At(s, "post")
  /\ job[s].stage = "payer" \/ PayerOf[s] = None
  /\ End(s, FALSE)
  /\ UNCHANGED <<keyVars, abiVars, rsaKnown, rsaHolder, faults>>

\* Time passes, while no answer is late.
Tick ==
  /\ \A s \in Senders : At(s, "answer") => job[s].delay < MaxDelay
  /\ AbiTick
  /\ job' = [s \in Senders |-> IF At(s, "answer")
               THEN [job[s] EXCEPT !.delay = @ + 1] ELSE job[s]]
  /\ UNCHANGED <<keyVars, cancelled, failed, rsaKnown, rsaHolder, faults>>

Step(s) ==
  \/ Lookup(s) \/ Do(s) \/ Resolved(s) \/ Unresolved(s)
  \/ GetModule(s) \/ Answer(s) \/ StoreModule(s) \/ NoModule(s)
  \/ LockRSA(s) \/ GotRSA(s) \/ Unsigned(s) \/ SignFirst(s) \/ SignLast(s)

Next ==
  \/ \E s \in Senders : Start(s) \/ Cancel(s) \/ Step(s)
  \/ \E m \in Modules : Upgrade(m) /\ UNCHANGED <<keyVars, workVars>>
  \/ Tick

Spec == Init /\ [][Next]_vars

\* Goroutines run, HTTP calls return, and a mutex is granted in the end to
\* each who waits for it.
Fairness == \A s \in Senders : WF_vars(Step(s)) /\ SF_vars(LockRSA(s))

FairSpec == Spec /\ Fairness

-----------------------------------------------------------------------------
(* Properties.                                                             *)

\* The maps and the lists of the two caches name the same keys, each of them
\* once, and never more than the cap, whatever was fetched twice, evicted or
\* stored over by callers that overlapped.
CachesConsistent ==
  /\ Consistent(keyLru, known, MaxKeys)
  /\ Consistent(abiLru, Cached, MaxAbis)

\* At most one call to Circle is under way for a wallet, and everyone who
\* waits for a key waits for a call that is: no result gets lost on the way.
OneFlight ==
  /\ \A s, d \in Senders :
       At(s, "fetch") /\ At(d, "fetch") /\ Wanted(s) = Wanted(d) => s = d
  /\ \A s \in Senders : At(s, "wait") =>
       \E d \in Senders : At(d, "fetch") /\ Wanted(d) = Wanted(s)

\* The call to Circle for the wallet of sender s is cut short: it fails, or the
\* pipeline of another sender that makes it was cancelled.
CutShort(s) ==
  \E d \in Senders :
    /\ At(d, "fetch") /\ Wanted(d) = WalletOf[s]
    /\ faults' # faults \/ (d # s /\ cancelled[d])

\* A record fails for good only because the call for its module fails or the
\* call for its wallet is cut short: it is never handed the error of a call
\* that is about something else, nor one that only a cancellation of its own
\* pipeline brought about.
FailsForCause ==
  [][\A s \in Senders : failed'[s] /\ ~failed[s] =>
        \/ At(s, "ask") /\ faults' # faults
        \/ CutShort(s)]_vars

\* A record is built from an ABI that was replaced less than a time to live
\* and the delay of one answer ago, although a slow fetch may put an older
\* ABI back in place of a newer one and start its age again.
AbiRecent ==
  \A s \in Senders :
    LET m == job[s].calls IN
    /\ At(s, "abi") /\ Fresh(m) => Recent(m, abis[m].version, Ttl + MaxDelay)
    /\ At(s, "answer") => Recent(m, job[s].version, Ttl + MaxDelay)

\* Every record that is being prepared is done with in the end: no waiter
\* misses its flight, and nobody keeps the mutex.
PrepareEnds == \A s \in Senders : ~At(s, "idle") ~> At(s, "idle")

-----------------------------------------------------------------------------
(* The inductive invariant behind the safety properties.                   *)

\* A worker asks for the key of a payer only if there is one, and has the
\* module of its request in hand until the ABI is there.
JobsFit ==
  \A s \in Senders :
    /\ job[s].stage = "payer" => PayerOf[s] # None
    /\ \/ job[s].pc \in {"abi", "ask", "answer"}
       \/ job[s].pc \in {"lookup", "do", "wait", "fetch"} /\ job[s].stage = "sender"
       => job[s].calls \in Modules

\* singleflight's group has the wallets that a leader's call is about.
FlightsLed ==
  /\ \A w \in flying : \E s \in Senders : At(s, "fetch") /\ Wanted(s) = w
  /\ \A s \in Senders : At(s, "fetch") \/ At(s, "wait") => Wanted(s) \in flying

\* Version v of module m was replaced `ticks` ago at most, if it was.
ReplacedWithin(m, v, ticks) ==
  v \in 1 .. Current(m) /\ (v # Current(m) => since[m][v] <= ticks)

\* An answer on its way is as recent as its delay allows, and a fresh entry as
\* its age and the delay of its answer allow.
AnswersRecent ==
  \A s \in Senders : At(s, "answer") =>
    ReplacedWithin(job[s].calls, job[s].version, job[s].delay)

EntriesRecent ==
  \A m \in Modules : Fresh(m) =>
    ReplacedWithin(m, abis[m].version, abis[m].age + MaxDelay)

\* What the workers, the group and the caches say of each other, in every
\* state the process gets into.
Inv == /\ TypeOK /\ CachesConsistent
       /\ JobsFit /\ FlightsLed /\ OneFlight
       /\ AnswersRecent /\ EntriesRecent

=============================================================================
