------------------------------ MODULE KeyCache ------------------------------
(***************************************************************************)
(* circle/pubkey_cache.go: the public keys of Circle wallets.  A miss is   *)
(* resolved by one call to Circle, and whoever misses on the same wallet   *)
(* meanwhile waits for that call (singleflight).  A wallet's key never     *)
(* changes, so an entry is no more than the wallet it is for.              *)
(***************************************************************************)
EXTENDS Lru

CONSTANTS
  Wallets,          \* wallet ids that requests name
  MaxKeys           \* maxEntries

ASSUME KeyCacheAssumption == MaxKeys \in Nat \ {0}

VARIABLES
  known,      \* entries: the wallets whose key is cached
  keyLru,     \* lru
  flying      \* group: the wallets a call is in flight for

keyVars == <<known, keyLru, flying>>

KeyTypeOK ==
  /\ known \subseteq Wallets
  /\ keyLru \in Seq(Wallets)
  /\ flying \subseteq Wallets

KeyInit == known = {} /\ keyLru = <<>> /\ flying = {}

-----------------------------------------------------------------------------
\* lookup, on a hit.
KeyHit(w) ==
  /\ w \in known
  /\ keyLru' = Touched(keyLru, w)
  /\ UNCHANGED <<known, flying>>

\* Mistake: a wallet that was stored meanwhile is pushed again.
KeyStoreTwice(w) ==
  /\ keyLru' = Capped(Pushed(keyLru, w), MaxKeys)
  /\ known' = (known \cup {w}) \ Victims(Pushed(keyLru, w), MaxKeys)

\* store: a new entry may push others out at the back.
KeyStore(w) ==
  IF w \in known
  THEN keyLru' = Touched(keyLru, w) /\ UNCHANGED known
  ELSE /\ keyLru' = Capped(Pushed(keyLru, w), MaxKeys)
       /\ known' = (known \cup {w}) \ Victims(Pushed(keyLru, w), MaxKeys)

\* Mistake: every miss makes a call of its own.
LeadAlways(w) == flying' = flying \cup {w}

\* group.Do: the first to come leads, and calls Circle.
Lead(w) == w \notin flying /\ flying' = flying \cup {w}

\* The call has returned: the entry of the group goes.
Land(w) == flying' = flying \ {w}

=============================================================================
