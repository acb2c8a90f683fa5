------------------------------ MODULE AbiCache ------------------------------
(***************************************************************************)
(* aptos/abi.go: the ABIs of Move modules, as versions that upgrades count *)
(* up.  Modules are fetched without the lock, so the result that is stored *)
(* is the node's answer of some time ago.  Times are kept as ages, up to   *)
(* the age from which nothing is told apart any more.                      *)
(***************************************************************************)
EXTENDS Lru

CONSTANTS
  Modules,          \* Move modules that requests call
  MaxAbis,          \* maxEntries
  Ttl,              \* ttl, in ticks
  MaxDelay,         \* ticks an answer of the node may be on its way
  Upgradable,       \* bound: modules that are upgraded
  MaxUpgrades,      \* bound: upgrades of each
  NoEntry           \* a key the map does not hold

ASSUME AbiCacheAssumption ==
  /\ MaxAbis \in Nat \ {0} /\ Ttl \in Nat \ {0}
  /\ MaxDelay \in Nat /\ MaxUpgrades \in Nat

VARIABLES
  abis,       \* modules: the cached entries
  abiLru,     \* lru
  since       \* chain, per module: ticks since each of its former versions was replaced

abiVars == <<abis, abiLru, since>>

\* No entry is this old when it is served: ages stop here.
Horizon == Ttl + MaxDelay

Versions == 1 .. MaxUpgrades + 1
Entries == [version : Versions, age : 0 .. Ttl]

ASSUME NoEntryAssumption == NoEntry \notin Entries

AbiTypeOK ==
  /\ abis \in [Modules -> Entries \cup {NoEntry}]
  /\ abiLru \in Seq(Modules)
  /\ since \in [Modules -> Seq(0 .. Horizon)]
  /\ \A m \in Modules : Len(since[m]) <= MaxUpgrades

AbiInit ==
  /\ abis = [m \in Modules |-> NoEntry]
  /\ abiLru = <<>>
  /\ since = [m \in Modules |-> <<>>]

-----------------------------------------------------------------------------
Cached == {m \in Modules : abis[m] # NoEntry}

\* The version on chain.
Current(m) == Len(since[m]) + 1

\* Version v of module m is current, or was so less than `ticks` ticks ago.
Recent(m, v, ticks) == v = Current(m) \/ since[m][v] < ticks

\* Mistake: a module that is cached never expires.
FreshForever(m) == abis[m] # NoEntry

Fresh(m) == abis[m] # NoEntry /\ abis[m].age < Ttl

\* getModule's fast path: a live entry is promoted.
AbiHit(m) ==
  /\ Fresh(m)
  /\ abiLru' = Touched(abiLru, m)
  /\ UNCHANGED <<abis, since>>

\* Mistake: a module that was stored meanwhile is pushed again.
AbiStoreTwice(m, v) ==
  /\ abiLru' = Capped(Pushed(abiLru, m), MaxAbis)
  /\ abis' = [n \in Modules |->
       CASE n \in Victims(Pushed(abiLru, m), MaxAbis) -> NoEntry
         [] n = m -> [version |-> v, age |-> 0]
         [] OTHER -> abis[n]]

\* storeLocked: whatever an entry holds is replaced and its age starts again;
\* a new one may push others out at the back.
AbiStore(m, v) ==
  LET stored == [abis EXCEPT ![m] = [version |-> v, age |-> 0]] IN
  IF abis[m] # NoEntry
  THEN abiLru' = Touched(abiLru, m) /\ abis' = stored
  ELSE /\ abiLru' = Capped(Pushed(abiLru, m), MaxAbis)
       /\ abis' = [n \in Modules |-> IF n \in Victims(Pushed(abiLru, m), MaxAbis)
                                     THEN NoEntry ELSE stored[n]]

\* A new version of the module is published.
Upgrade(m) ==
  /\ m \in Upgradable /\ Len(since[m]) < MaxUpgrades
  /\ since' = [since EXCEPT ![m] = Append(@, 0)]
  /\ UNCHANGED <<abis, abiLru>>

Older(age, limit) == IF age < limit THEN age + 1 ELSE limit

AbiTick ==
  /\ abis' = [m \in Modules |-> IF abis[m] = NoEntry THEN NoEntry
                ELSE [abis[m] EXCEPT !.age = Older(@, Ttl)]]
  /\ since' = [m \in Modules |-> [v \in 1 .. Len(since[m]) |-> Older(since[m][v], Horizon)]]
  /\ UNCHANGED abiLru

=============================================================================
