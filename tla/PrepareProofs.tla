---------------------------- MODULE PrepareProofs ----------------------------
(***************************************************************************)
(* Proofs about Prepare, for any number of senders, wallets and modules,   *)
(* caches of any size, any time to live, upgrades and failed calls.        *)
(***************************************************************************)
EXTENDS Prepare, FiniteSetTheorems, SequenceTheorems, TLAPS

-----------------------------------------------------------------------------
(* Lists by last use.                                                      *)

Distinct(lru) == \A i, j \in 1 .. Len(lru) : lru[i] = lru[j] => i = j

\* A list that names as many keys as it is long names each of them once.
LEMMA ConsistentDistinct ==
  ASSUME NEW S, NEW lru \in Seq(S), NEW keys, NEW max
  PROVE  Consistent(lru, keys, max) <=>
           Listed(lru) = keys /\ Distinct(lru) /\ Len(lru) <= max
<1>1. Len(lru) \in Nat /\ lru \in [1 .. Len(lru) -> Listed(lru)]
  BY LenProperties DEF Listed
<1>2. lru \in Surjection(1 .. Len(lru), Listed(lru))
  BY <1>1 DEF Surjection, Listed
<1>3. IsFiniteSet(1 .. Len(lru)) /\ Cardinality(1 .. Len(lru)) = Len(lru)
  BY <1>1, FS_Interval
<1>4. Cardinality(Listed(lru)) = Len(lru) <=> lru \in Injection(1 .. Len(lru), Listed(lru))
  BY <1>2, <1>3, FS_Surjection
<1>5. lru \in Injection(1 .. Len(lru), Listed(lru)) <=> Distinct(lru)
  BY <1>1 DEF Injection, IsInjective, Distinct
<1> QED
  BY <1>4, <1>5 DEF Consistent

\* MoveToFront changes the order alone.
LEMMA TouchedKeeps ==
  ASSUME NEW S, NEW lru \in Seq(S), NEW k \in Listed(lru), Distinct(lru)
  PROVE  /\ Touched(lru, k) \in Seq(S)
         /\ Len(Touched(lru, k)) = Len(lru)
         /\ Listed(Touched(lru, k)) = Listed(lru)
         /\ Distinct(Touched(lru, k))
<1> DEFINE n == Len(lru)
           i == CHOOSE j \in 1 .. n : lru[j] = k
           before == SubSeq(lru, 1, i - 1)
           after == SubSeq(lru, i + 1, n)
           new == Touched(lru, k)
<1>1. n \in Nat /\ \A j \in 1 .. n : lru[j] \in S
  BY LenProperties, ElementOfSeq
<1>2. i \in 1 .. n /\ lru[i] = k
  BY DEF Listed
<1>3. new = <<k>> \o before \o after
  BY DEF Touched
<1> HIDE DEF i, new
<1>4. /\ before \in Seq(S) /\ Len(before) = i - 1
      /\ \A j \in 1 .. i - 1 : before[j] = lru[j]
  BY <1>1, <1>2, SubSeqProperties
<1>5. /\ after \in Seq(S) /\ Len(after) = n - i
      /\ \A j \in 1 .. n - i : after[j] = lru[i + j]
  BY <1>1, <1>2, SubSeqProperties
<1>6. <<k>> \in Seq(S) /\ Len(<<k>>) = 1 /\ <<k>>[1] = k
  BY <1>1, <1>2
<1> HIDE DEF before, after
<1>7. /\ <<k>> \o before \in Seq(S) /\ Len(<<k>> \o before) = i
      /\ \A j \in 1 .. i : (<<k>> \o before)[j] = IF j = 1 THEN k ELSE lru[j - 1]
  BY <1>2, <1>4, <1>6, ConcatProperties
<1>8. /\ new \in Seq(S) /\ Len(new) = n
      /\ \A j \in 1 .. n : new[j] = IF j = 1 THEN lru[i]
                                    ELSE IF j <= i THEN lru[j - 1] ELSE lru[j]
  <2> DEFINE front == <<k>> \o before
  <2>1. /\ front \in Seq(S) /\ Len(front) = i
        /\ \A j \in 1 .. i : front[j] = IF j = 1 THEN k ELSE lru[j - 1]
    BY <1>7
  <2>2. new = front \o after
    BY <1>3
  <2> HIDE DEF front
  <2>4. Len(front) = i /\ Len(front) + Len(after) = n
    BY <1>1, <1>2, <1>5, <2>1
  <2>3. /\ new \in Seq(S) /\ Len(new) = n
        /\ \A j \in 1 .. n :
             new[j] = IF j <= i THEN front[j] ELSE after[j - i]
    <3>1. /\ new \in Seq(S) /\ Len(new) = Len(front) + Len(after)
          /\ \A j \in 1 .. Len(front) + Len(after) :
               new[j] = IF j <= Len(front) THEN front[j] ELSE after[j - Len(front)]
      BY <1>5, <2>1, <2>2, ConcatProperties
    <3> QED
      BY <2>4, <3>1
  <2>5. ASSUME NEW j \in 1 .. n, j > i PROVE new[j] = lru[j]
    <3>1. j - i \in 1 .. n - i /\ i + (j - i) = j
      BY <1>1, <1>2, <2>5
    <3>2. after[j - i] = lru[i + (j - i)]
      BY <1>5, <3>1
    <3> QED
      BY <1>1, <1>2, <2>3, <2>4, <2>5, <3>1, <3>2
  <2>6. ASSUME NEW j \in 1 .. n, j <= i PROVE new[j] = IF j = 1 THEN lru[i] ELSE lru[j - 1]
    BY <1>1, <1>2, <2>1, <2>3, <2>4, <2>6
  <2> QED
    BY <1>1, <1>2, <2>3, <2>4, <2>5, <2>6
<1>9. Distinct(new)
  <2> DEFINE was(j) == IF j = 1 THEN i ELSE IF j <= i THEN j - 1 ELSE j
  <2> SUFFICES ASSUME NEW a \in 1 .. n, NEW b \in 1 .. n, new[a] = new[b] PROVE a = b
    BY <1>8 DEF Distinct
  <2>1. /\ was(a) \in 1 .. n /\ new[a] = lru[was(a)]
        /\ was(b) \in 1 .. n /\ new[b] = lru[was(b)]
    BY <1>1, <1>2, <1>8
  <2>2. was(a) = was(b)
    <3> HIDE DEF was
    <3> QED
      BY <2>1 DEF Distinct
  <2> QED
    BY <1>1, <1>2, <2>2
<1>10. Listed(new) \subseteq Listed(lru)
  <2>1. ASSUME NEW j \in 1 .. n PROVE \E h \in 1 .. n : new[j] = lru[h]
    <3>1. j > 1 => j - 1 \in 1 .. n
      BY <1>1
    <3> QED
      BY <1>1, <1>2, <1>8, <3>1
  <2>2. \A x \in Listed(new) : \E j \in 1 .. n : x = new[j]
    BY <1>8 DEF Listed
  <2>3. \A h \in 1 .. n : lru[h] \in Listed(lru)
    BY DEF Listed
  <2> QED
    BY <2>1, <2>2, <2>3
<1>11. ASSUME NEW j \in 1 .. n PROVE lru[j] \in Listed(new)
  <2>1. CASE j = i
    BY <1>2, <1>8, <2>1 DEF Listed
  <2>2. CASE j < i
    <3>1. j + 1 \in 1 .. n /\ new[j + 1] = lru[j]
      BY <1>1, <1>2, <1>8, <2>2
    <3> QED
      BY <1>8, <3>1 DEF Listed
  <2>3. CASE j > i
    BY <1>1, <1>2, <1>8, <2>3 DEF Listed
  <2> QED
    BY <1>2, <2>1, <2>2, <2>3
<1> QED
  BY <1>8, <1>9, <1>10, <1>11 DEF Listed, new

\* PushFront and the eviction of what is beyond the cap: the new key is in,
\* and what has left the list is what is deleted from the map.
LEMMA PushedKeeps ==
  ASSUME NEW S, NEW lru \in Seq(S), NEW k \in S, k \notin Listed(lru), Distinct(lru),
         NEW max, max \in Nat
  PROVE  /\ Capped(Pushed(lru, k), max) \in Seq(S)
         /\ Len(Capped(Pushed(lru, k), max)) <= max
         /\ Listed(Capped(Pushed(lru, k), max))
              = (Listed(lru) \cup {k}) \ Victims(Pushed(lru, k), max)
         /\ Distinct(Capped(Pushed(lru, k), max))
<1> DEFINE all == Pushed(lru, k)
           new == Capped(all, max)
           n == Len(lru) + 1
<1>1. n \in Nat \ {0} /\ \A j \in 1 .. Len(lru) : lru[j] \in S
  BY LenProperties, ElementOfSeq
<1>2. <<k>> \in Seq(S) /\ Len(<<k>>) = 1 /\ <<k>>[1] = k
  OBVIOUS
<1>3. /\ all \in Seq(S) /\ Len(all) = n
      /\ \A j \in 1 .. n : all[j] = IF j = 1 THEN k ELSE lru[j - 1]
  BY <1>1, <1>2, ConcatProperties DEF Pushed
<1> HIDE DEF all
<1>4. Distinct(all)
  <2> SUFFICES ASSUME NEW a \in 1 .. n, NEW b \in 1 .. n, all[a] = all[b] PROVE a = b
    BY <1>3 DEF Distinct
  <2>1. \A j \in 1 .. n : j # 1 => j - 1 \in 1 .. Len(lru) /\ all[j] = lru[j - 1]
    BY <1>1, <1>3
  <2>2. \A j \in 1 .. n : j # 1 => all[j] # k
    BY <2>1 DEF Listed
  <2>3. all[1] = k
    BY <1>1, <1>3
  <2>4. CASE a = 1 \/ b = 1
    BY <2>2, <2>3, <2>4
  <2>5. CASE a # 1 /\ b # 1
    <3>1. a - 1 = b - 1
      BY <2>1, <2>5 DEF Distinct
    <3> QED
      BY <1>1, <3>1
  <2> QED
    BY <2>4, <2>5
<1>5. Listed(all) = Listed(lru) \cup {k}
  <2>1. ASSUME NEW j \in 1 .. Len(lru) PROVE lru[j] \in Listed(all)
    <3>1. j + 1 \in 1 .. n /\ all[j + 1] = lru[j]
      BY <1>1, <1>3
    <3> QED
      BY <1>3, <3>1 DEF Listed
  <2>2. k \in Listed(all)
    BY <1>1, <1>3 DEF Listed
  <2>3. ASSUME NEW j \in 1 .. n PROVE all[j] \in Listed(lru) \cup {k}
    BY <1>1, <1>3 DEF Listed
  <2> QED
    BY <1>3, <2>1, <2>2, <2>3 DEF Listed
<1>6. CASE n <= max
  <2>1. new = all
    BY <1>3, <1>6 DEF Capped
  <2>2. Victims(all, max) = {}
    BY <1>1, <1>3, <1>6 DEF Victims
  <2> QED
    BY <1>3, <1>4, <1>5, <1>6, <2>1, <2>2 DEF all
<1>7. CASE ~(n <= max)
  <2>1. new = SubSeq(all, 1, max)
    BY <1>3, <1>7 DEF Capped
  <2>2. \A j \in 1 .. max : all[j] \in S
    BY <1>1, <1>3, <1>7
  <2>3. /\ new \in Seq(S) /\ Len(new) = max
        /\ \A j \in 1 .. max : new[j] = all[j]
    BY <2>1, <2>2, SubSeqProperties
  <2> HIDE DEF new
  <2>4. Distinct(new)
    <3> SUFFICES ASSUME NEW a \in 1 .. max, NEW b \in 1 .. max, new[a] = new[b] PROVE a = b
      BY <2>3 DEF Distinct
    <3>1. a \in 1 .. n /\ b \in 1 .. n /\ all[a] = all[b]
      BY <1>1, <1>7, <2>3
    <3> QED
      BY <1>3, <1>4, <3>1 DEF Distinct
  <2>5. ASSUME NEW j \in 1 .. n, NEW h \in max + 1 .. n, all[j] = all[h] PROVE j \notin 1 .. max
    BY <1>1, <1>3, <1>4, <2>5 DEF Distinct
  <2>6. Listed(new) = Listed(all) \ Victims(all, max)
    BY <1>1, <1>3, <1>7, <2>3, <2>5 DEF Listed, Victims
  <2> QED
    BY <1>5, <2>3, <2>4, <2>6 DEF new, all
<1> QED
  BY <1>6, <1>7

-----------------------------------------------------------------------------
(* The caches.                                                             *)

\* lookup and store keep the map and the list of the keys together.
LEMMA KeysKept ==
  ASSUME known \subseteq Wallets, keyLru \in Seq(Wallets),
         Consistent(keyLru, known, MaxKeys),
         \/ UNCHANGED <<known, keyLru>>
         \/ \E w \in Wallets : KeyHit(w) \/ KeyStore(w)
  PROVE  /\ known' \subseteq Wallets /\ keyLru' \in Seq(Wallets)
         /\ Consistent(keyLru, known, MaxKeys)'
<1> USE KeyCacheAssumption
<1>1. Listed(keyLru) = known /\ Distinct(keyLru) /\ Len(keyLru) <= MaxKeys
  BY ConsistentDistinct
<1>2. CASE UNCHANGED <<known, keyLru>>
  BY <1>2
<1>3. ASSUME NEW w \in Wallets, w \in known, keyLru' = Touched(keyLru, w), known' = known
      PROVE  /\ keyLru' \in Seq(Wallets)
             /\ Consistent(keyLru, known, MaxKeys)'
  <2>1. /\ keyLru' \in Seq(Wallets) /\ Len(keyLru') = Len(keyLru)
        /\ Listed(keyLru') = Listed(keyLru) /\ Distinct(keyLru')
    BY <1>1, <1>3, TouchedKeeps
  <2> QED
    BY <1>1, <1>3, <2>1, ConsistentDistinct
<1>4. ASSUME NEW w \in Wallets, w \notin known,
             keyLru' = Capped(Pushed(keyLru, w), MaxKeys),
             known' = (known \cup {w}) \ Victims(Pushed(keyLru, w), MaxKeys)
      PROVE  /\ known' \subseteq Wallets /\ keyLru' \in Seq(Wallets)
             /\ Consistent(keyLru, known, MaxKeys)'
  <2>1. w \notin Listed(keyLru) /\ MaxKeys \in Nat
    BY <1>1, <1>4
  <2>2. /\ keyLru' \in Seq(Wallets) /\ Len(keyLru') <= MaxKeys
        /\ Listed(keyLru') = (Listed(keyLru) \cup {w}) \ Victims(Pushed(keyLru, w), MaxKeys)
        /\ Distinct(keyLru')
    BY <1>1, <1>4, <2>1, PushedKeeps
  <2>3. Consistent(keyLru', known', MaxKeys)
    BY <1>1, <1>4, <2>2, ConsistentDistinct
  <2> QED
    BY <1>4, <2>2, <2>3
<1> QED
  BY <1>2, <1>3, <1>4 DEF KeyHit, KeyStore

\* getModule and storeLocked keep the map and the list of the ABIs together,
\* and so do upgrades and time, which do not touch the list.
LEMMA AbisKept ==
  ASSUME AbiTypeOK, Consistent(abiLru, Cached, MaxAbis),
         \/ UNCHANGED <<abis, abiLru>>
         \/ AbiTick
         \/ \E m \in Modules : AbiHit(m) \/ \E v \in Versions : AbiStore(m, v)
  PROVE  /\ abis' \in [Modules -> Entries \cup {NoEntry}]
         /\ abiLru' \in Seq(Modules)
         /\ Consistent(abiLru, Cached, MaxAbis)'
<1> USE AbiCacheAssumption, NoEntryAssumption
<1>1. /\ Listed(abiLru) = Cached /\ Distinct(abiLru) /\ Len(abiLru) <= MaxAbis
      /\ abiLru \in Seq(Modules) /\ abis \in [Modules -> Entries \cup {NoEntry}]
  BY ConsistentDistinct DEF AbiTypeOK
<1>2. CASE UNCHANGED <<abis, abiLru>>
  BY <1>1, <1>2 DEF Cached
<1>3. CASE AbiTick
  <2>1. \A m \in Modules :
          IF abis[m] = NoEntry THEN abis'[m] = NoEntry ELSE abis'[m] \in Entries
    <3> SUFFICES ASSUME NEW m \in Modules, abis[m] # NoEntry PROVE abis'[m] \in Entries
      BY <1>3 DEF AbiTick
    <3>1. abis'[m] = [abis[m] EXCEPT !.age = Older(@, Ttl)]
      BY <1>3 DEF AbiTick
    <3>2. abis[m] \in Entries
      BY <1>1
    <3>3. \A age \in 0 .. Ttl : Older(age, Ttl) \in 0 .. Ttl
      BY DEF Older
    <3> QED
      BY <3>1, <3>2, <3>3 DEF Entries
  <2>2. abis' \in [Modules -> Entries \cup {NoEntry}]
    BY <1>3, <2>1 DEF AbiTick
  <2>3. Cached' = Cached
    BY <1>1, <2>1 DEF Cached
  <2> QED
    BY <1>1, <1>3, <2>2, <2>3 DEF AbiTick
<1>4. ASSUME NEW m \in Modules, abis[m] # NoEntry, abiLru' = Touched(abiLru, m)
      PROVE  /\ abiLru' \in Seq(Modules)
             /\ Consistent(abiLru', Cached, MaxAbis)
  <2>1. /\ abiLru' \in Seq(Modules) /\ Len(abiLru') = Len(abiLru)
        /\ Listed(abiLru') = Listed(abiLru) /\ Distinct(abiLru')
    BY <1>1, <1>4, TouchedKeeps DEF Cached
  <2> QED
    BY <1>1, <2>1, ConsistentDistinct
<1>5. ASSUME NEW m \in Modules, AbiHit(m)
      PROVE  abiLru' \in Seq(Modules) /\ Consistent(abiLru, Cached, MaxAbis)' /\ abis' = abis
  <2>1. Cached' = Cached
    BY <1>5 DEF AbiHit, Cached
  <2> QED
    BY <1>4, <1>5, <2>1 DEF AbiHit, Fresh
<1>6. ASSUME NEW m \in Modules, NEW v \in Versions, AbiStore(m, v)
      PROVE  /\ abis' \in [Modules -> Entries \cup {NoEntry}]
             /\ abiLru' \in Seq(Modules)
             /\ Consistent(abiLru, Cached, MaxAbis)'
  <2> DEFINE entry == [version |-> v, age |-> 0]
  <2>1. entry \in Entries
    BY DEF Entries
  <2> DEFINE stored == [abis EXCEPT ![m] = entry]
  <2>2. \A n \in Modules : stored[n] = IF n = m THEN entry ELSE abis[n]
    BY <1>1
  <2>3. stored \in [Modules -> Entries \cup {NoEntry}] /\ entry # NoEntry
    BY <1>1, <2>1
  <2>4. \/ abis[m] # NoEntry /\ abiLru' = Touched(abiLru, m) /\ abis' = stored
        \/ /\ abis[m] = NoEntry
           /\ abiLru' = Capped(Pushed(abiLru, m), MaxAbis)
           /\ abis' = [n \in Modules |-> IF n \in Victims(Pushed(abiLru, m), MaxAbis)
                                         THEN NoEntry ELSE stored[n]]
    BY <1>6 DEF AbiStore
  <2> HIDE DEF stored, entry
  <2>5. CASE abis[m] # NoEntry
    <3>1. Cached' = Cached
      BY <2>2, <2>3, <2>4, <2>5 DEF Cached
    <3> QED
      BY <1>4, <2>3, <2>4, <2>5, <3>1
  <2>6. CASE abis[m] = NoEntry
    <3>1. \A n \in Modules :
            abis'[n] = IF n \in Victims(Pushed(abiLru, m), MaxAbis) THEN NoEntry ELSE stored[n]
      BY <2>4, <2>6
    <3>2. Cached' = (Cached \cup {m}) \ Victims(Pushed(abiLru, m), MaxAbis)
      BY <2>2, <2>3, <3>1 DEF Cached
    <3>3. m \notin Listed(abiLru) /\ MaxAbis \in Nat
      BY <1>1, <2>6 DEF Cached
    <3>4. /\ abiLru' \in Seq(Modules) /\ Len(abiLru') <= MaxAbis
          /\ Listed(abiLru') = (Listed(abiLru) \cup {m}) \ Victims(Pushed(abiLru, m), MaxAbis)
          /\ Distinct(abiLru')
      BY <1>1, <2>4, <2>6, <3>3, PushedKeeps
    <3>5. Consistent(abiLru', Cached', MaxAbis)
      BY <1>1, <3>2, <3>4, ConsistentDistinct
    <3>6. abis' \in [Modules -> Entries \cup {NoEntry}]
      BY <2>3, <2>4, <2>6
    <3> QED
      BY <3>4, <3>5, <3>6
  <2> QED
    BY <2>5, <2>6
<1> QED
  BY <1>1, <1>2, <1>3, <1>5, <1>6

-----------------------------------------------------------------------------
(* The workers.                                                            *)

Asking(j) ==
  j.pc \in {"abi", "ask", "answer"}
    \/ (j.pc \in {"lookup", "do", "wait", "fetch"} /\ j.stage = "sender")

\* What TypeOK and JobsFit say of one job.
JobOK(s, j) ==
  /\ j \in Jobs
  /\ j.stage = "payer" => PayerOf[s] # None
  /\ Asking(j) => j.calls \in Modules

LEMMA JobsOK ==
  job \in [Senders -> Jobs] /\ JobsFit <=>
    job \in [Senders -> Jobs] /\ \A s \in Senders : JobOK(s, job[s])
BY DEF JobsFit, JobOK, Asking

\* Wherever a job goes next, it has what the next call needs.
LEMMA JobMoves ==
  ASSUME NEW s \in Senders, NEW j, JobOK(s, j)
  PROVE  /\ JobOK(s, Idle)
         /\ JobOK(s, [j EXCEPT !.pc = "lock"])
         /\ \A pc \in {"rsa", "post"} : JobOK(s, [j EXCEPT !.pc = pc])
         /\ j.pc \in {"lookup", "do", "wait", "fetch"} =>
              JobOK(s, Keyed(j)) /\ \A pc \in {"do", "wait", "fetch"} : JobOK(s, [j EXCEPT !.pc = pc])
         /\ JobOK(s, Described(s))
<1>1. JobOK(s, Idle)
  BY AbiCacheAssumption DEF JobOK, Asking, Jobs, PCs, Stages, Idle
<1>2. \A pc \in {"lock", "rsa", "post"} : JobOK(s, [j EXCEPT !.pc = pc])
  BY DEF JobOK, Asking, Jobs, PCs
<1>3. ASSUME j.pc \in {"lookup", "do", "wait", "fetch"}
      PROVE  JobOK(s, Keyed(j))
  <2>1. CASE j.stage = "sender"
    BY <1>3, <2>1 DEF JobOK, Asking, Jobs, PCs, Keyed
  <2>2. CASE j.stage # "sender"
    BY <1>3, <2>2 DEF JobOK, Asking, Jobs, PCs, Stages, Keyed
  <2> QED
    BY <2>1, <2>2
<1>4. ASSUME j.pc \in {"lookup", "do", "wait", "fetch"}
      PROVE  \A pc \in {"do", "wait", "fetch"} : JobOK(s, [j EXCEPT !.pc = pc])
  BY <1>4 DEF JobOK, Asking, Jobs, PCs
<1>5. JobOK(s, Described(s))
  <2>1. CASE PayerOf[s] = None
    BY <2>1, <1>1 DEF JobOK, Asking, Jobs, PCs, Described, Idle
  <2>2. CASE PayerOf[s] # None
    <3>1. /\ Described(s) \in Jobs
          /\ Described(s).pc = "lookup" /\ Described(s).stage = "payer"
      BY <2>2, <1>1 DEF JobOK, Jobs, PCs, Stages, Described, Idle
    <3> QED
      BY <2>2, <3>1 DEF JobOK, Asking
  <2> QED
    BY <2>1, <2>2
<1> QED
  BY <1>1, <1>2, <1>3, <1>4, <1>5

\* A worker that waits or asks for a key asks for that of a wallet.
LEMMA WantedType ==
  ASSUME NEW s \in Senders, JobOK(s, job[s])
  PROVE  Wanted(s) \in Wallets
BY PrepareAssumption DEF JobOK, Jobs, Stages, Wanted

LEMMA JobsNext ==
  ASSUME Inv, [Next]_vars
  PROVE  job' \in [Senders -> Jobs] /\ JobsFit'
<1> USE DEF At
<1>1. job \in [Senders -> Jobs] /\ \A s \in Senders : JobOK(s, job[s])
  BY JobsOK DEF Inv, TypeOK
<1>2. SUFFICES job' \in [Senders -> Jobs] /\ \A s \in Senders : JobOK(s, job'[s])
  BY DEF JobsFit, JobOK, Asking
<1>3. ASSUME NEW s \in Senders, NEW j, JobOK(s, j), job' = [job EXCEPT ![s] = j]
      PROVE  job' \in [Senders -> Jobs] /\ \A d \in Senders : JobOK(d, job'[d])
  BY <1>1, <1>3 DEF JobOK
<1>4. ASSUME NEW D \in SUBSET Senders,
             \A d \in D : JobOK(d, job'[d]),
             \A d \in Senders \ D : job'[d] = job[d],
             job' = [d \in Senders |-> job'[d]]
      PROVE  job' \in [Senders -> Jobs] /\ \A d \in Senders : JobOK(d, job'[d])
  BY <1>1, <1>4 DEF JobOK
<1>5. ASSUME NEW s \in Senders, Start(s)
      PROVE  job' \in [Senders -> Jobs] /\ \A d \in Senders : JobOK(d, job'[d])
  <2>1. PICK m \in ModulesOf[s] :
          job' = [job EXCEPT ![s].pc = "lookup", ![s].calls = m]
    BY <1>5 DEF Start
  <2>2. m \in Modules
    BY PrepareAssumption
  <2>3. job' = [job EXCEPT ![s] = [job[s] EXCEPT !.pc = "lookup", !.calls = m]]
    BY <1>1, <2>1
  <2>4. JobOK(s, [job[s] EXCEPT !.pc = "lookup", !.calls = m])
    BY <1>1, <2>2 DEF JobOK, Asking, Jobs, PCs
  <2> QED
    BY <1>3, <2>3, <2>4
<1>6. ASSUME NEW s \in Senders, Lookup(s) \/ Do(s) \/ LockRSA(s) \/ GotRSA(s)
      PROVE  job' \in [Senders -> Jobs] /\ \A d \in Senders : JobOK(d, job'[d])
  <2>1. \/ /\ job[s].pc \in {"lookup", "do"}
           /\ \/ job' = [job EXCEPT ![s] = Keyed(job[s])]
              \/ \E pc \in {"do", "wait", "fetch"} : job' = [job EXCEPT ![s] = [job[s] EXCEPT !.pc = pc]]
        \/ \E pc \in {"rsa", "post"} : job' = [job EXCEPT ![s] = [job[s] EXCEPT !.pc = pc]]
    BY <1>1, <1>6 DEF Lookup, Do, LockRSA, GotRSA
  <2> QED
    BY <1>1, <1>3, <2>1, JobMoves
<1>7. ASSUME NEW s \in Senders, Resolved(s) \/ Unresolved(s)
      PROVE  job' \in [Senders -> Jobs] /\ \A d \in Senders : JobOK(d, job'[d])
  <2>1. \A d \in Aboard(s) : d \in Senders /\ job[d].pc \in {"wait", "fetch"}
    BY <1>7 DEF Resolved, Unresolved, Aboard
  <2>2. \/ job' = [d \in Senders |-> IF d \in Aboard(s) THEN Keyed(job[d]) ELSE job[d]]
        \/ job' = [d \in Senders |-> IF d \in Aboard(s) THEN Idle ELSE job[d]]
    BY <1>7 DEF Resolved, Unresolved
  <2>3. \A d \in Aboard(s) : JobOK(d, Keyed(job[d])) /\ JobOK(d, Idle)
    BY <1>1, <2>1, JobMoves
  <2> QED
    BY <1>1, <2>1, <2>2, <2>3 DEF JobOK
<1>8. ASSUME NEW s \in Senders, GetModule(s) \/ Answer(s) \/ StoreModule(s)
      PROVE  job' \in [Senders -> Jobs] /\ \A d \in Senders : JobOK(d, job'[d])
  <2>1. job[s].pc \in {"abi", "ask", "answer"}
    BY <1>8 DEF GetModule, Answer, StoreModule
  <2>2. job[s].calls \in Modules /\ job[s] \in Jobs
    BY <1>1, <2>1 DEF JobOK, Asking
  <2>3. Current(job[s].calls) \in Versions
    BY <2>2, AbiCacheAssumption DEF Inv, TypeOK, AbiTypeOK, Current, Versions
  <2>4. \/ job' = [job EXCEPT ![s] = Described(s)]
        \/ job' = [job EXCEPT ![s] = [job[s] EXCEPT !.pc = "ask"]]
        \/ job' = [job EXCEPT ![s] = [job[s] EXCEPT !.pc = "answer",
                                                    !.version = Current(job[s].calls)]]
    BY <1>1, <1>8 DEF GetModule, Answer, StoreModule
  <2>5. /\ JobOK(s, [job[s] EXCEPT !.pc = "ask"])
        /\ JobOK(s, [job[s] EXCEPT !.pc = "answer", !.version = Current(job[s].calls)])
    BY <1>1, <2>2, <2>3 DEF JobOK, Asking, Jobs, PCs
  <2> QED
    BY <1>1, <1>3, <2>1, <2>4, <2>5, JobMoves
<1>9. ASSUME NEW s \in Senders, NoModule(s) \/ Unsigned(s) \/ SignLast(s)
      PROVE  job' \in [Senders -> Jobs] /\ \A d \in Senders : JobOK(d, job'[d])
  <2>1. job' = [job EXCEPT ![s] = Idle]
    BY <1>9 DEF NoModule, Unsigned, SignLast, End
  <2> QED
    BY <1>1, <1>3, <2>1, JobMoves
<1>10. ASSUME NEW s \in Senders, SignFirst(s)
       PROVE  job' \in [Senders -> Jobs] /\ \A d \in Senders : JobOK(d, job'[d])
  <2>1. job' = [job EXCEPT ![s] = [job[s] EXCEPT !.pc = "lock", !.stage = "payer"]]
    BY <1>1, <1>10 DEF SignFirst
  <2>2. JobOK(s, [job[s] EXCEPT !.pc = "lock", !.stage = "payer"])
    BY <1>1, <1>10 DEF SignFirst, JobOK, Asking, Jobs, PCs, Stages
  <2> QED
    BY <1>3, <2>1, <2>2
<1>11. ASSUME Tick
       PROVE  job' \in [Senders -> Jobs] /\ \A d \in Senders : JobOK(d, job'[d])
  <2>1. job' = [s \in Senders |-> IF job[s].pc = "answer"
                  THEN [job[s] EXCEPT !.delay = @ + 1] ELSE job[s]]
    BY <1>11 DEF Tick
  <2>2. ASSUME NEW s \in Senders, job[s].pc = "answer"
        PROVE  JobOK(s, [job[s] EXCEPT !.delay = @ + 1])
    <3>1. job[s].delay < MaxDelay
      BY <1>11, <2>2 DEF Tick
    <3> QED
      BY <1>1, <3>1, AbiCacheAssumption DEF JobOK, Asking, Jobs
  <2> QED
    BY <1>1, <2>1, <2>2 DEF JobOK
<1>12. ASSUME UNCHANGED job
       PROVE  job' \in [Senders -> Jobs] /\ \A d \in Senders : JobOK(d, job'[d])
  BY <1>1, <1>12
<1>13. ASSUME NEW s \in Senders, Cancel(s) PROVE UNCHANGED job
  BY <1>13 DEF Cancel
<1>14. ASSUME NEW m \in Modules, Upgrade(m) /\ UNCHANGED <<keyVars, workVars>>
       PROVE  UNCHANGED job
  BY <1>14 DEF workVars
<1>15. ASSUME UNCHANGED vars PROVE UNCHANGED job
  BY <1>15 DEF vars, workVars
<1> QED
  BY <1>5, <1>6, <1>7, <1>8, <1>9, <1>10, <1>11, <1>12, <1>13, <1>14, <1>15 DEF Next, Step

-----------------------------------------------------------------------------
(* Flights.                                                                *)

Calling == {"fetch", "wait"}

\* A flight has one leader, so whoever waits waits for a call under way.
LEMMA LedOnce ==
  ASSUME FlightsLed,
         \A s, d \in Senders :
           At(s, "fetch") /\ At(d, "fetch") /\ Wanted(s) = Wanted(d) => s = d
  PROVE  OneFlight
BY DEF FlightsLed, OneFlight

\* Steps that neither join, nor lead, nor end a flight.
LEMMA CalmNext ==
  ASSUME Inv, flying' = flying,
         \A s \in Senders : job[s].pc \in Calling \/ job'[s].pc \in Calling => job'[s] = job[s]
  PROVE  FlightsLed' /\ OneFlight'
<1>1. \A s \in Senders : At(s, "fetch") \/ At(s, "wait") \/ At(s, "fetch")' \/ At(s, "wait")' =>
        /\ job'[s] = job[s]
        /\ Wanted(s)' = Wanted(s)
  BY DEF At, Wanted, Calling
<1>2. FlightsLed'
  BY <1>1 DEF Inv, FlightsLed, At
<1>3. \A s, d \in Senders :
        At(s, "fetch")' /\ At(d, "fetch")' /\ Wanted(s)' = Wanted(d)' => s = d
  BY <1>1 DEF Inv, OneFlight, At
<1> QED
  BY <1>2, <1>3 DEF FlightsLed, OneFlight

LEMMA FlightsNext ==
  ASSUME Inv, [Next]_vars
  PROVE  flying' \subseteq Wallets /\ FlightsLed' /\ OneFlight'
<1>1. job \in [Senders -> Jobs] /\ \A s \in Senders : JobOK(s, job[s])
  BY JobsOK DEF Inv, TypeOK
<1>2. \A s \in Senders : Wanted(s) \in Wallets
  BY <1>1, WantedType
<1>3. flying \subseteq Wallets
  BY DEF Inv, TypeOK, KeyTypeOK
<1>4. ASSUME NEW s \in Senders, flying' = flying, job[s].pc \notin Calling,
             NEW j, j.pc \notin Calling, job' = [job EXCEPT ![s] = j]
      PROVE  flying' \subseteq Wallets /\ FlightsLed' /\ OneFlight'
  <2>1. \A d \in Senders : job[d].pc \in Calling \/ job'[d].pc \in Calling => job'[d] = job[d]
    BY <1>1, <1>4
  <2> QED
    BY <1>3, <1>4, <2>1, CalmNext
<1>5. ASSUME NEW s \in Senders,
             \/ Start(s) \/ Lookup(s) \/ GetModule(s) \/ Answer(s) \/ StoreModule(s)
             \/ NoModule(s) \/ LockRSA(s) \/ GotRSA(s) \/ Unsigned(s)
             \/ SignFirst(s) \/ SignLast(s)
      PROVE  flying' \subseteq Wallets /\ FlightsLed' /\ OneFlight'
  <2> USE DEF At, Calling
  <2>1. flying' = flying /\ job[s].pc \notin Calling
    BY <1>5 DEF Start, Lookup, GetModule, Answer, StoreModule, NoModule, LockRSA, GotRSA,
                Unsigned, SignFirst, SignLast, KeyHit, keyVars
  <2>2. /\ Idle.pc = "idle"
        /\ Described(s).pc \in {"lock", "lookup"}
    BY DEF Idle, Described
  <2>3. Keyed(job[s]).pc \in {"abi", "lock"}
    BY <1>1 DEF Keyed, Jobs
  <2>4. \/ job' = [job EXCEPT ![s] = Idle]
        \/ job' = [job EXCEPT ![s] = Described(s)]
        \/ job' = [job EXCEPT ![s] = Keyed(job[s])]
        \/ /\ job' = [job EXCEPT ![s] = job'[s]]
           /\ job'[s].pc \notin Calling
    <3>1. CASE NoModule(s) \/ Unsigned(s) \/ SignLast(s)
      BY <3>1 DEF NoModule, Unsigned, SignLast, End
    <3>2. CASE Lookup(s) \/ GetModule(s)
      BY <3>2, <1>1 DEF Lookup, GetModule, Jobs
    <3>3. CASE StoreModule(s)
      BY <3>3 DEF StoreModule
    <3>4. CASE LockRSA(s) \/ GotRSA(s) \/ SignFirst(s) \/ Start(s) \/ Answer(s)
      BY <3>4, <1>1 DEF LockRSA, GotRSA, SignFirst, Start, Answer, Jobs
    <3> QED
      BY <1>5, <3>1, <3>2, <3>3, <3>4
  <2> QED
    BY <1>4, <2>1, <2>2, <2>3, <2>4
<1>6. ASSUME NEW s \in Senders, Do(s)
      PROVE  flying' \subseteq Wallets /\ FlightsLed' /\ OneFlight'
  <2> USE DEF At
  <2>1. \A d \in Senders : d # s => job'[d] = job[d] /\ Wanted(d)' = Wanted(d)
    BY <1>1, <1>6 DEF Do, Wanted
  <2>2. job[s].pc = "do" /\ Wanted(s)' = Wanted(s)
    BY <1>1, <1>6 DEF Do, Wanted, Jobs
  <2>3. CASE /\ Wanted(s) \notin flying /\ flying' = flying \cup {Wanted(s)}
             /\ job'[s].pc = "fetch"
    <3>1. \A d \in Senders : job[d].pc \in Calling => Wanted(d) # Wanted(s)
      BY <2>3 DEF Inv, FlightsLed, Calling
    <3>2. \A w \in flying' : \E d \in Senders : At(d, "fetch")' /\ Wanted(d)' = w
      <4>1. ASSUME NEW w \in flying PROVE \E d \in Senders : At(d, "fetch")' /\ Wanted(d)' = w
        <5>1. PICK d \in Senders : At(d, "fetch") /\ Wanted(d) = w
          BY DEF Inv, FlightsLed
        <5>2. d # s
          BY <2>2, <5>1
        <5> QED
          BY <2>1, <5>1, <5>2
      <4> QED
        BY <2>2, <2>3, <4>1
    <3>3. FlightsLed'
      BY <2>1, <2>2, <2>3, <3>2 DEF Inv, FlightsLed
    <3>4. \A c, d \in Senders :
            At(c, "fetch")' /\ At(d, "fetch")' /\ Wanted(c)' = Wanted(d)' => c = d
      BY <2>1, <2>2, <2>3, <3>1 DEF Inv, OneFlight, Calling
    <3> QED
      BY <1>2, <1>3, <2>3, <3>3, <3>4 DEF FlightsLed, OneFlight
  <2>4. CASE Wanted(s) \in flying /\ flying' = flying /\ job'[s].pc = "wait"
    <3>1. \A w \in flying' : \E d \in Senders : At(d, "fetch")' /\ Wanted(d)' = w
      <4> SUFFICES ASSUME NEW w \in flying
                   PROVE  \E d \in Senders : At(d, "fetch")' /\ Wanted(d)' = w
        BY <2>4
      <4>1. PICK d \in Senders : At(d, "fetch") /\ Wanted(d) = w
        BY DEF Inv, FlightsLed
      <4>2. d # s
        BY <2>2, <4>1
      <4> QED
        BY <2>1, <4>1, <4>2
    <3>2. FlightsLed'
      BY <2>1, <2>2, <2>4, <3>1 DEF Inv, FlightsLed
    <3>3. \A c, d \in Senders :
            At(c, "fetch")' /\ At(d, "fetch")' /\ Wanted(c)' = Wanted(d)' => c = d
      BY <2>1, <2>2, <2>4 DEF Inv, OneFlight
    <3> QED
      BY <1>3, <2>4, <3>2, <3>3 DEF FlightsLed, OneFlight
  <2> QED
    BY <1>1, <1>6, <2>3, <2>4 DEF Do, Lead, Jobs
<1>7. ASSUME NEW s \in Senders, Resolved(s) \/ Unresolved(s)
      PROVE  flying' \subseteq Wallets /\ FlightsLed' /\ OneFlight'
  <2> USE DEF At
  <2>1. flying' = flying \ {Wanted(s)} /\ job[s].pc = "fetch"
    BY <1>7 DEF Resolved, Unresolved, Land
  <2>2. \A d \in Senders : d \in Aboard(s) => job'[d].pc \notin Calling
    <3>1. ASSUME NEW j \in Jobs PROVE Keyed(j).pc \in {"abi", "lock"}
      BY DEF Keyed, Jobs
    <3>2. Idle.pc = "idle"
      BY DEF Idle
    <3>3. \A d \in Senders : d \in Aboard(s) => job'[d] = Keyed(job[d]) \/ job'[d] = Idle
      BY <1>7 DEF Resolved, Unresolved
    <3> QED
      BY <1>1, <3>1, <3>2, <3>3 DEF Calling
  <2>3. \A d \in Senders : d \notin Aboard(s) => job'[d] = job[d] /\ Wanted(d)' = Wanted(d)
    BY <1>7 DEF Resolved, Unresolved, Wanted
  <2>4. \A d \in Senders : d \notin Aboard(s) /\ job[d].pc \in Calling => Wanted(d) # Wanted(s)
    BY <2>1 DEF Inv, OneFlight, Aboard, Calling
  <2>5. \A w \in flying' : \E d \in Senders : At(d, "fetch")' /\ Wanted(d)' = w
    <3> SUFFICES ASSUME NEW w \in flying, w # Wanted(s)
                 PROVE  \E d \in Senders : At(d, "fetch")' /\ Wanted(d)' = w
      BY <2>1
    <3>1. PICK d \in Senders : At(d, "fetch") /\ Wanted(d) = w
      BY DEF Inv, FlightsLed
    <3>2. d \notin Aboard(s)
      BY <3>1 DEF Aboard
    <3> QED
      BY <2>3, <3>1, <3>2
  <2>6. FlightsLed'
    BY <2>1, <2>2, <2>3, <2>4, <2>5 DEF Inv, FlightsLed, Calling
  <2>7. \A c, d \in Senders :
          At(c, "fetch")' /\ At(d, "fetch")' /\ Wanted(c)' = Wanted(d)' => c = d
    BY <2>2, <2>3 DEF Inv, OneFlight, Calling
  <2> QED
    BY <1>3, <2>1, <2>6, <2>7 DEF FlightsLed, OneFlight
<1>8. CASE Tick
  <2>1. flying' = flying
    BY <1>8 DEF Tick, keyVars
  <2>2. \A d \in Senders : job[d].pc \in Calling \/ job'[d].pc \in Calling => job'[d] = job[d]
    BY <1>1, <1>8 DEF Tick, At, Calling, Jobs
  <2> QED
    BY <1>3, <2>1, <2>2, CalmNext
<1>9. ASSUME UNCHANGED <<flying, job>>
      PROVE  flying' \subseteq Wallets /\ FlightsLed' /\ OneFlight'
  BY <1>3, <1>9, CalmNext
<1>10. ASSUME NEW s \in Senders, Cancel(s) PROVE UNCHANGED <<flying, job>>
  BY <1>10 DEF Cancel, keyVars
<1>11. ASSUME NEW m \in Modules, Upgrade(m) /\ UNCHANGED <<keyVars, workVars>>
       PROVE  UNCHANGED <<flying, job>>
  BY <1>11 DEF workVars, keyVars
<1>12. ASSUME UNCHANGED vars PROVE UNCHANGED <<flying, job>>
  BY <1>12 DEF vars, workVars, keyVars
<1> QED
  BY <1>5, <1>6, <1>7, <1>8, <1>9, <1>10, <1>11, <1>12 DEF Next, Step

-----------------------------------------------------------------------------
(* How old an answer and an entry may be.                                  *)

\* An upgrade replaces the current version now, and leaves the others as old
\* as they are; a tick makes each of them one tick older at most.
LEMMA ReplacedKept ==
  ASSUME AbiTypeOK, NEW m \in Modules, NEW v, NEW ticks \in Nat, ReplacedWithin(m, v, ticks)
  PROVE  /\ since' = since => ReplacedWithin(m, v, ticks)'
         /\ \A n \in Modules : Upgrade(n) => ReplacedWithin(m, v, ticks)'
         /\ AbiTick => ReplacedWithin(m, v, ticks + 1)'
<1> USE AbiCacheAssumption
<1>1. since[m] \in Seq(0 .. Horizon)
  BY DEF AbiTypeOK
<1>2. since' = since => ReplacedWithin(m, v, ticks)'
  BY DEF ReplacedWithin, Current
<1>3. ASSUME NEW n \in Modules, Upgrade(n) PROVE ReplacedWithin(m, v, ticks)'
  <2>1. since' = [since EXCEPT ![n] = Append(since[n], 0)]
    BY <1>3 DEF Upgrade
  <2>2. CASE n = m
    <3>1. since'[m] = Append(since[m], 0)
      BY <2>1, <2>2 DEF AbiTypeOK
    <3>2. /\ Len(since'[m]) = Len(since[m]) + 1
          /\ \A i \in 1 .. Len(since[m]) : since'[m][i] = since[m][i]
          /\ since'[m][Len(since[m]) + 1] = 0
      BY <1>1, <3>1
    <3> QED
      BY <1>1, <3>2 DEF ReplacedWithin, Current
  <2>3. CASE n # m
    BY <2>1, <2>3 DEF ReplacedWithin, Current, AbiTypeOK
  <2> QED
    BY <2>2, <2>3
<1>4. ASSUME AbiTick PROVE ReplacedWithin(m, v, ticks + 1)'
  <2>1. since'[m] = [i \in 1 .. Len(since[m]) |-> Older(since[m][i], Horizon)]
    BY <1>4 DEF AbiTick
  <2>2. Len(since[m]) \in Nat /\ \A i \in 1 .. Len(since[m]) : since[m][i] \in 0 .. Horizon
    BY <1>1, LenProperties, ElementOfSeq
  <2>3. Len(since'[m]) = Len(since[m])
    BY <2>1, <2>2
  <2>4. Horizon \in Nat
    BY DEF Horizon
  <2>5. \A i \in 1 .. Len(since[m]) : since'[m][i] <= since[m][i] + 1
    BY <2>1, <2>2, <2>4 DEF Older
  <2>6. Current(m)' = Current(m) /\ (v # Current(m) => v \in 1 .. Len(since[m]))
    BY <2>2, <2>3 DEF ReplacedWithin, Current
  <2>7. ASSUME v \in 1 .. Len(since[m]), v # Current(m) PROVE since'[m][v] <= ticks + 1
    <3>1. since[m][v] <= ticks /\ since[m][v] \in Nat /\ since'[m][v] \in Int
      BY <2>1, <2>2, <2>4, <2>7 DEF ReplacedWithin, Older
    <3> QED
      BY <2>5, <2>7, <3>1
  <2> QED
    BY <2>6, <2>7 DEF ReplacedWithin
<1> QED
  BY <1>2, <1>3, <1>4

LEMMA SinceNext ==
  ASSUME AbiTypeOK, AbiTick \/ since' = since \/ \E m \in Modules : Upgrade(m)
  PROVE  /\ since' \in [Modules -> Seq(0 .. Horizon)]
         /\ \A m \in Modules : Len(since'[m]) <= MaxUpgrades
<1> USE AbiCacheAssumption
<1>1. Horizon \in Nat
  BY DEF Horizon
<1>2. CASE since' = since
  BY <1>2 DEF AbiTypeOK
<1>3. ASSUME NEW n \in Modules, Upgrade(n)
      PROVE  /\ since' \in [Modules -> Seq(0 .. Horizon)]
             /\ \A m \in Modules : Len(since'[m]) <= MaxUpgrades
  <2>1. since' = [since EXCEPT ![n] = Append(since[n], 0)] /\ Len(since[n]) < MaxUpgrades
    BY <1>3 DEF Upgrade
  <2>2. /\ since[n] \in Seq(0 .. Horizon) /\ 0 \in 0 .. Horizon
    BY <1>1 DEF AbiTypeOK
  <2>3. /\ Append(since[n], 0) \in Seq(0 .. Horizon)
        /\ Len(Append(since[n], 0)) <= MaxUpgrades
    BY <2>1, <2>2
  <2> QED
    BY <2>1, <2>3 DEF AbiTypeOK
<1>4. CASE AbiTick
  <2>1. ASSUME NEW m \in Modules
        PROVE  /\ since'[m] \in Seq(0 .. Horizon)
               /\ Len(since'[m]) = Len(since[m])
    <3>1. since'[m] = [i \in 1 .. Len(since[m]) |-> Older(since[m][i], Horizon)]
      BY <1>4 DEF AbiTick
    <3>2. Len(since[m]) \in Nat /\ \A i \in 1 .. Len(since[m]) : since[m][i] \in 0 .. Horizon
      <4>1. since[m] \in Seq(0 .. Horizon)
        BY DEF AbiTypeOK
      <4> QED
        BY <4>1, LenProperties, ElementOfSeq
    <3>3. \A i \in 1 .. Len(since[m]) : Older(since[m][i], Horizon) \in 0 .. Horizon
      BY <1>1, <3>2 DEF Older
    <3>4. since'[m] \in [1 .. Len(since[m]) -> 0 .. Horizon]
      BY <3>1, <3>3
    <3>5. since'[m] \in Seq(0 .. Horizon)
      BY <3>2, <3>4, SeqDef
    <3>6. DOMAIN since'[m] = 1 .. Len(since'[m]) /\ DOMAIN since'[m] = 1 .. Len(since[m])
      BY <3>4, <3>5, LenProperties
    <3> QED
      BY <3>2, <3>5, <3>6, LenProperties
  <2>2. since' = [m \in Modules |-> since'[m]]
    BY <1>4 DEF AbiTick
  <2> QED
    BY <2>1, <2>2 DEF AbiTypeOK
<1> QED
  BY <1>2, <1>3, <1>4

LEMMA AnswersNext ==
  ASSUME Inv, [Next]_vars
  PROVE  AnswersRecent'
<1> USE DEF At
<1>1. job \in [Senders -> Jobs] /\ \A s \in Senders : JobOK(s, job[s])
  BY JobsOK DEF Inv, TypeOK
<1>2. AbiTypeOK
  BY DEF Inv, TypeOK
<1>3. \A s \in Senders : job[s].delay \in Nat
  BY <1>1, AbiCacheAssumption DEF Jobs
<1>4. ASSUME NEW s \in Senders, job[s].pc = "answer"
      PROVE  /\ job[s].calls \in Modules
             /\ ReplacedWithin(job[s].calls, job[s].version, job[s].delay)
  BY <1>1, <1>4 DEF Inv, AnswersRecent, JobOK, Asking
<1>5. ASSUME since' = since \/ \E m \in Modules : Upgrade(m),
             \A s \in Senders : job'[s].pc = "answer" => job'[s] = job[s]
      PROVE  AnswersRecent'
  BY <1>2, <1>3, <1>4, <1>5, ReplacedKept DEF AnswersRecent
<1>6. ASSUME NEW s \in Senders, since' = since,
             NEW j, j.pc # "answer", job' = [job EXCEPT ![s] = j]
      PROVE  AnswersRecent'
  BY <1>1, <1>5, <1>6
<1>7. ASSUME NEW s \in Senders,
             \/ Start(s) \/ Lookup(s) \/ Do(s) \/ GetModule(s) \/ StoreModule(s)
             \/ NoModule(s) \/ LockRSA(s) \/ GotRSA(s) \/ Unsigned(s)
             \/ SignFirst(s) \/ SignLast(s)
      PROVE  AnswersRecent'
  <2>1. since' = since
    BY <1>7 DEF Start, Lookup, Do, GetModule, StoreModule, NoModule, LockRSA, GotRSA,
                Unsigned, SignFirst, SignLast, AbiHit, abiVars
  <2>2. Idle.pc # "answer" /\ Described(s).pc # "answer"
    BY DEF Idle, Described
  <2>3. Keyed(job[s]).pc # "answer"
    BY <1>1 DEF Keyed, Jobs
  <2>4. \/ job' = [job EXCEPT ![s] = Idle]
        \/ job' = [job EXCEPT ![s] = Described(s)]
        \/ job' = [job EXCEPT ![s] = Keyed(job[s])]
        \/ job' = [job EXCEPT ![s] = job'[s]] /\ job'[s].pc # "answer"
    <3>1. CASE NoModule(s) \/ Unsigned(s) \/ SignLast(s)
      BY <3>1 DEF NoModule, Unsigned, SignLast, End
    <3>2. CASE Lookup(s) \/ GetModule(s)
      BY <3>2, <1>1 DEF Lookup, GetModule, Jobs
    <3>3. CASE StoreModule(s)
      BY <3>3 DEF StoreModule
    <3>4. CASE LockRSA(s) \/ GotRSA(s) \/ SignFirst(s) \/ Start(s) \/ Do(s)
      BY <3>4, <1>1 DEF LockRSA, GotRSA, SignFirst, Start, Do, Jobs
    <3> QED
      BY <1>7, <3>1, <3>2, <3>3, <3>4
  <2> QED
    BY <1>6, <2>1, <2>2, <2>3, <2>4
<1>8. ASSUME NEW s \in Senders, Resolved(s) \/ Unresolved(s) PROVE AnswersRecent'
  <2>1. ASSUME NEW j \in Jobs PROVE Keyed(j).pc \in {"abi", "lock"}
    BY DEF Keyed, Jobs
  <2>2. Idle.pc = "idle"
    BY DEF Idle
  <2>3. \A d \in Senders : job'[d] = Keyed(job[d]) \/ job'[d] = Idle \/ job'[d] = job[d]
    BY <1>8 DEF Resolved, Unresolved
  <2>4. since' = since
    BY <1>8 DEF Resolved, Unresolved, abiVars
  <2> QED
    BY <1>1, <1>5, <2>1, <2>2, <2>3, <2>4
<1>9. ASSUME NEW s \in Senders, Answer(s) PROVE AnswersRecent'
  <2> DEFINE m == job[s].calls
  <2>1. /\ job'[s].calls = m /\ job'[s].version = Current(m)
        /\ job'[s].delay = job[s].delay
    BY <1>1, <1>9 DEF Answer, Jobs
  <2>2. \A d \in Senders : d # s => job'[d] = job[d]
    BY <1>1, <1>9 DEF Answer
  <2>3. since' = since
    BY <1>9 DEF Answer, abiVars
  <2>4. m \in Modules
    BY <1>1, <1>9 DEF Answer, JobOK, Asking
  <2>5. Current(m) \in 1 .. Current(m)
    <3>1. Len(since[m]) \in Nat
      BY <1>2, <2>4, LenProperties DEF AbiTypeOK
    <3> QED
      BY <3>1 DEF Current
  <2>6. ReplacedWithin(job[s].calls, job[s].version, job[s].delay)'
    BY <2>1, <2>3, <2>5 DEF ReplacedWithin, Current
  <2>7. ASSUME NEW d \in Senders, d # s, job'[d].pc = "answer"
        PROVE  ReplacedWithin(job[d].calls, job[d].version, job[d].delay)'
    BY <1>2, <1>3, <1>4, <2>2, <2>3, <2>7, ReplacedKept
  <2> QED
    BY <2>6, <2>7 DEF AnswersRecent
<1>10. ASSUME Tick PROVE AnswersRecent'
  <2> SUFFICES ASSUME NEW s \in Senders, job'[s].pc = "answer"
               PROVE  ReplacedWithin(job[s].calls, job[s].version, job[s].delay)'
    BY DEF AnswersRecent
  <2>1. job[s].pc = "answer"
    BY <1>1, <1>10 DEF Tick, Jobs
  <2>2. /\ job'[s].calls = job[s].calls /\ job'[s].version = job[s].version
        /\ job'[s].delay = job[s].delay + 1
    BY <1>1, <1>10, <2>1 DEF Tick, Jobs
  <2> QED
    BY <1>2, <1>3, <1>4, <1>10, <2>1, <2>2, ReplacedKept DEF Tick
<1>11. ASSUME NEW s \in Senders, Cancel(s) PROVE AnswersRecent'
  BY <1>5, <1>11 DEF Cancel, abiVars
<1>12. ASSUME NEW m \in Modules, Upgrade(m) /\ UNCHANGED <<keyVars, workVars>>
       PROVE  AnswersRecent'
  BY <1>5, <1>12 DEF workVars
<1>13. CASE UNCHANGED vars
  BY <1>5, <1>13 DEF vars, abiVars, workVars
<1> QED
  BY <1>7, <1>8, <1>9, <1>10, <1>11, <1>12, <1>13 DEF Next, Step

LEMMA EntriesNext ==
  ASSUME Inv, [Next]_vars
  PROVE  EntriesRecent'
<1> USE AbiCacheAssumption, NoEntryAssumption
<1>1. AbiTypeOK
  BY DEF Inv, TypeOK
<1>2. ASSUME NEW m \in Modules, Fresh(m)
      PROVE  /\ abis[m].age \in Nat
             /\ ReplacedWithin(m, abis[m].version, abis[m].age + MaxDelay)
  BY <1>1, <1>2 DEF Inv, EntriesRecent, AbiTypeOK, Entries, Fresh
<1>3. ASSUME since' = since \/ \E m \in Modules : Upgrade(m), abis' = abis
      PROVE  EntriesRecent'
  <2> SUFFICES ASSUME NEW m \in Modules, Fresh(m)'
               PROVE  ReplacedWithin(m, abis[m].version, abis[m].age + MaxDelay)'
    BY DEF EntriesRecent
  <2>1. Fresh(m)
    BY <1>3 DEF Fresh
  <2>2. abis[m].age + MaxDelay \in Nat
    BY <1>2, <2>1
  <2> QED
    BY <1>1, <1>2, <1>3, <2>1, <2>2, ReplacedKept
<1>4. ASSUME AbiTick PROVE EntriesRecent'
  <2> SUFFICES ASSUME NEW m \in Modules, Fresh(m)'
               PROVE  ReplacedWithin(m, abis[m].version, abis[m].age + MaxDelay)'
    BY DEF EntriesRecent
  <2>1. abis[m] # NoEntry /\ abis'[m] = [abis[m] EXCEPT !.age = Older(@, Ttl)]
    BY <1>4 DEF AbiTick, Fresh
  <2>2. abis[m] \in Entries
    BY <1>1, <2>1 DEF AbiTypeOK
  <2>3. /\ abis'[m].version = abis[m].version
        /\ abis'[m].age = Older(abis[m].age, Ttl)
    BY <2>1, <2>2 DEF Entries
  <2>4. Fresh(m) /\ abis'[m].age = abis[m].age + 1
    BY <2>1, <2>2, <2>3 DEF Fresh, Older, Entries
  <2>5. abis[m].age + MaxDelay \in Nat /\ (abis[m].age + MaxDelay) + 1 = abis'[m].age + MaxDelay
    BY <1>2, <2>4
  <2> QED
    BY <1>1, <1>2, <1>4, <2>3, <2>4, <2>5, ReplacedKept
<1>5. ASSUME NEW s \in Senders, StoreModule(s) PROVE EntriesRecent'
  <2> DEFINE m == job[s].calls
             v == job[s].version
  <2>1. AbiStore(m, v) /\ since' = since
    BY <1>5 DEF StoreModule
  <2>2. m \in Modules /\ job[s].delay \in 0 .. MaxDelay
    BY <1>5, JobsOK DEF Inv, TypeOK, StoreModule, At, JobOK, Asking, Jobs
  <2>3. ReplacedWithin(m, v, job[s].delay)
    BY <1>5 DEF Inv, AnswersRecent, StoreModule
  <2>4. v \in Versions
    <3>1. Len(since[m]) \in Nat /\ Len(since[m]) <= MaxUpgrades
      BY <1>1, <2>2, LenProperties DEF AbiTypeOK
    <3> QED
      BY <2>3, <3>1 DEF ReplacedWithin, Current, Versions
  <2> HIDE DEF m, v
  <2> DEFINE entry == [version |-> v, age |-> 0]
  <2>5. \A n \in Modules :
          abis'[n] = NoEntry \/ abis'[n] = IF n = m THEN entry ELSE abis[n]
    BY <1>1, <2>1, <2>2 DEF AbiStore, AbiTypeOK
  <2> SUFFICES ASSUME NEW n \in Modules, Fresh(n)'
               PROVE  ReplacedWithin(n, abis[n].version, abis[n].age + MaxDelay)'
    BY DEF EntriesRecent
  <2>6. CASE n = m
    <3>1. abis'[n].version = v /\ abis'[n].age = 0
      BY <2>5, <2>6 DEF Fresh
    <3>2. since[m] \in Seq(0 .. Horizon)
      BY <1>1, <2>2 DEF AbiTypeOK
    <3>3. ReplacedWithin(m, v, 0 + MaxDelay)
      <4>1. ASSUME v # Current(m) PROVE since[m][v] <= 0 + MaxDelay
        <5>1. v \in 1 .. Len(since[m])
          BY <2>3, <3>2, <4>1, LenProperties DEF ReplacedWithin, Current
        <5>2. since[m][v] \in 0 .. Horizon
          BY <3>2, <5>1, ElementOfSeq
        <5> QED
          BY <2>2, <2>3, <4>1, <5>2 DEF ReplacedWithin, Horizon
      <4> QED
        BY <2>3, <4>1 DEF ReplacedWithin
    <3> QED
      BY <2>1, <2>6, <3>1, <3>3 DEF ReplacedWithin, Current
  <2>7. CASE n # m
    <3>1. abis'[n] = abis[n] /\ Fresh(n)
      BY <2>5, <2>7 DEF Fresh
    <3>2. abis[n].age + MaxDelay \in Nat
      BY <1>2, <3>1
    <3> QED
      BY <1>1, <1>2, <2>1, <3>1, <3>2, ReplacedKept
  <2> QED
    BY <2>6, <2>7
<1>6. ASSUME NEW s \in Senders,
             \/ Start(s) \/ Cancel(s) \/ Lookup(s) \/ Do(s) \/ Resolved(s) \/ Unresolved(s)
             \/ GetModule(s) \/ Answer(s) \/ NoModule(s) \/ LockRSA(s) \/ GotRSA(s)
             \/ Unsigned(s) \/ SignFirst(s) \/ SignLast(s)
      PROVE  EntriesRecent'
  <2>1. since' = since /\ abis' = abis
    BY <1>6 DEF Start, Cancel, Lookup, Do, Resolved, Unresolved, GetModule, Answer, NoModule,
                LockRSA, GotRSA, Unsigned, SignFirst, SignLast, AbiHit, abiVars
  <2> QED
    BY <1>3, <2>1
<1>7. ASSUME NEW m \in Modules, Upgrade(m) PROVE EntriesRecent'
  BY <1>3, <1>7 DEF Upgrade
<1>8. CASE UNCHANGED vars
  BY <1>3, <1>8 DEF vars, abiVars
<1> QED
  BY <1>4, <1>5, <1>6, <1>7, <1>8 DEF Next, Step, Tick

-----------------------------------------------------------------------------
(* The invariant.                                                          *)

\* Both caches are empty and every worker is idle.
LEMMA InvInit == Init => Inv
<1> SUFFICES ASSUME Init PROVE Inv
  OBVIOUS
<1> USE PrepareAssumption, KeyCacheAssumption, AbiCacheAssumption DEF Init, KeyInit, AbiInit
<1>1. Idle \in Jobs /\ Idle.pc = "idle" /\ Idle.stage = "sender"
  BY DEF Idle, Jobs, PCs, Stages
<1>2. <<>> \in Seq(Wallets) /\ <<>> \in Seq(Modules) /\ <<>> \in Seq(0 .. Horizon)
  OBVIOUS
<1>3. TypeOK
  <2>1. KeyTypeOK
    BY <1>2 DEF KeyTypeOK
  <2>2. AbiTypeOK
    <3>1. Len(<<>>) = 0 /\ 0 <= MaxUpgrades
      OBVIOUS
    <3>2. \A m \in Modules : since[m] = <<>> /\ abis[m] = NoEntry
      OBVIOUS
    <3> QED
      BY <1>2, <3>1, <3>2 DEF AbiTypeOK
  <2> QED
    BY <1>1, <2>1, <2>2 DEF TypeOK
<1>4. Cached = {}
  BY DEF Cached
<1>5. Listed(<<>>) = {} /\ Len(<<>>) = 0 /\ Cardinality({}) = 0
  BY FS_EmptySet DEF Listed
<1>6. CachesConsistent
  BY <1>4, <1>5 DEF CachesConsistent, Consistent
<1>7. JobsFit /\ FlightsLed /\ OneFlight /\ AnswersRecent
  BY <1>1 DEF JobsFit, FlightsLed, OneFlight, AnswersRecent, At
<1>8. EntriesRecent
  BY DEF EntriesRecent, Fresh
<1> QED
  BY <1>3, <1>6, <1>7, <1>8 DEF Inv

\* No step separates the map of a cache from its list.
LEMMA CachesNext ==
  ASSUME Inv, [Next]_vars
  PROVE  /\ known' \subseteq Wallets /\ keyLru' \in Seq(Wallets)
         /\ AbiTypeOK' /\ CachesConsistent'
<1>1. job \in [Senders -> Jobs] /\ \A s \in Senders : JobOK(s, job[s])
  BY JobsOK DEF Inv, TypeOK
<1>2. \/ UNCHANGED <<known, keyLru>>
      \/ \E w \in Wallets : KeyHit(w) \/ KeyStore(w)
  <2>1. ASSUME NEW s \in Senders, Lookup(s) \/ Resolved(s)
        PROVE  \/ UNCHANGED <<known, keyLru>>
               \/ \E w \in Wallets : KeyHit(w) \/ KeyStore(w)
    BY <1>1, <2>1, WantedType DEF Lookup, Resolved, keyVars
  <2>2. ASSUME NEW s \in Senders,
               \/ Start(s) \/ Cancel(s) \/ Do(s) \/ Unresolved(s)
               \/ GetModule(s) \/ Answer(s) \/ StoreModule(s) \/ NoModule(s)
               \/ LockRSA(s) \/ GotRSA(s) \/ Unsigned(s) \/ SignFirst(s) \/ SignLast(s)
        PROVE  UNCHANGED <<known, keyLru>>
    BY <2>2 DEF Start, Cancel, Do, Unresolved, GetModule, Answer, StoreModule, NoModule,
                LockRSA, GotRSA, Unsigned, SignFirst, SignLast, keyVars
  <2> QED
    BY <2>1, <2>2 DEF Next, Step, Tick, keyVars, vars
<1>3. /\ \/ UNCHANGED <<abis, abiLru>>
         \/ AbiTick
         \/ \E m \in Modules : AbiHit(m) \/ \E v \in Versions : AbiStore(m, v)
      /\ AbiTick \/ since' = since \/ \E m \in Modules : Upgrade(m)
  <2>1. ASSUME NEW s \in Senders, GetModule(s) \/ StoreModule(s)
        PROVE  /\ since' = since
               /\ \/ UNCHANGED <<abis, abiLru>>
                  \/ \E m \in Modules : AbiHit(m) \/ \E v \in Versions : AbiStore(m, v)
    <3>1. job[s].calls \in Modules
      BY <1>1, <2>1 DEF GetModule, StoreModule, At, JobOK, Asking
    <3>2. ASSUME StoreModule(s) PROVE job[s].version \in Versions
      <4> DEFINE m == job[s].calls
      <4>1. Len(since[m]) \in Nat /\ Len(since[m]) <= MaxUpgrades
        BY <3>1, LenProperties DEF Inv, TypeOK, AbiTypeOK
      <4>2. job[s].version \in 1 .. Current(m)
        BY <3>2 DEF StoreModule, Inv, AnswersRecent, ReplacedWithin
      <4> QED
        BY <4>1, <4>2, AbiCacheAssumption DEF Current, Versions
    <3> QED
      BY <2>1, <3>1, <3>2 DEF GetModule, StoreModule, AbiHit, abiVars
  <2>2. ASSUME NEW s \in Senders,
               \/ Start(s) \/ Cancel(s) \/ Lookup(s) \/ Do(s) \/ Resolved(s) \/ Unresolved(s)
               \/ Answer(s) \/ NoModule(s) \/ LockRSA(s) \/ GotRSA(s)
               \/ Unsigned(s) \/ SignFirst(s) \/ SignLast(s)
        PROVE  UNCHANGED abiVars
    BY <2>2 DEF Start, Cancel, Lookup, Do, Resolved, Unresolved, Answer, NoModule,
                LockRSA, GotRSA, Unsigned, SignFirst, SignLast
  <2>3. ASSUME NEW m \in Modules, Upgrade(m) PROVE UNCHANGED <<abis, abiLru>>
    BY <2>3 DEF Upgrade
  <2> QED
    BY <2>1, <2>2, <2>3 DEF Next, Step, Tick, abiVars, vars
<1>4. /\ known' \subseteq Wallets /\ keyLru' \in Seq(Wallets)
      /\ Consistent(keyLru, known, MaxKeys)'
  BY <1>2, KeysKept DEF Inv, TypeOK, KeyTypeOK, CachesConsistent
<1>5. /\ abis' \in [Modules -> Entries \cup {NoEntry}] /\ abiLru' \in Seq(Modules)
      /\ Consistent(abiLru, Cached, MaxAbis)'
  BY <1>3, AbisKept DEF Inv, TypeOK, CachesConsistent
<1>6. /\ since' \in [Modules -> Seq(0 .. Horizon)]
      /\ \A m \in Modules : Len(since'[m]) <= MaxUpgrades
  BY <1>3, SinceNext DEF Inv, TypeOK
<1> QED
  BY <1>4, <1>5, <1>6 DEF AbiTypeOK, CachesConsistent

\* What a step makes of the contexts, the outcomes and the mutex.
LEMMA WorkTypeNext ==
  ASSUME Inv, [Next]_vars
  PROVE  /\ cancelled' \in [Senders -> BOOLEAN] /\ failed' \in [Senders -> BOOLEAN]
         /\ rsaKnown' \in BOOLEAN /\ rsaHolder' \in Senders \cup {None}
         /\ faults' \in Nat
<1>1. /\ cancelled \in [Senders -> BOOLEAN] /\ failed \in [Senders -> BOOLEAN]
      /\ rsaKnown \in BOOLEAN /\ rsaHolder \in Senders \cup {None} /\ faults \in Nat
  BY DEF Inv, TypeOK
<1>2. ASSUME NEW s \in Senders, End(s, TRUE) \/ End(s, FALSE)
      PROVE  cancelled' \in [Senders -> BOOLEAN] /\ failed' \in [Senders -> BOOLEAN]
  BY <1>1, <1>2 DEF End
<1>3. ASSUME NEW s \in Senders, Unresolved(s)
      PROVE  /\ cancelled' \in [Senders -> BOOLEAN] /\ failed' \in [Senders -> BOOLEAN]
             /\ rsaKnown' \in BOOLEAN /\ rsaHolder' \in Senders \cup {None}
             /\ faults' \in Nat
  <2>1. cancelled' = [d \in Senders |-> d \notin Aboard(s) /\ cancelled[d]]
    BY <1>3 DEF Unresolved
  <2>2. failed' = [d \in Senders |-> failed[d] \/ (d \in Aboard(s) /\ Fatal(d))]
    BY <1>3 DEF Unresolved
  <2>3. cancelled' \in [Senders -> BOOLEAN] /\ failed' \in [Senders -> BOOLEAN]
    BY <2>1, <2>2, ZenonT(20)
  <2>4. rsaKnown' = rsaKnown /\ rsaHolder' = rsaHolder /\ (faults' = faults \/ faults' = faults + 1)
    BY <1>3 DEF Unresolved, Breaks
  <2> QED
    BY <1>1, <2>3, <2>4
<1>4. ASSUME NEW s \in Senders, NoModule(s) \/ Unsigned(s) \/ SignLast(s)
      PROVE  /\ cancelled' \in [Senders -> BOOLEAN] /\ failed' \in [Senders -> BOOLEAN]
             /\ rsaKnown' \in BOOLEAN /\ rsaHolder' \in Senders \cup {None}
             /\ faults' \in Nat
  <2>1. End(s, TRUE) \/ End(s, FALSE)
    BY <1>4 DEF NoModule, Unsigned, SignLast
  <2>2. /\ rsaKnown' = rsaKnown /\ rsaHolder' \in {rsaHolder, None}
        /\ faults' = faults \/ faults' = faults + 1
    BY <1>4 DEF NoModule, Unsigned, SignLast, Breaks, Unlock
  <2>3. cancelled' \in [Senders -> BOOLEAN] /\ failed' \in [Senders -> BOOLEAN]
    BY <1>2, <2>1
  <2>4. rsaKnown' \in BOOLEAN /\ rsaHolder' \in Senders \cup {None} /\ faults' \in Nat
    BY <1>1, <2>2
  <2> QED
    BY <2>3, <2>4
<1>5. ASSUME NEW s \in Senders, Start(s) \/ Cancel(s)
      PROVE  /\ cancelled' \in [Senders -> BOOLEAN] /\ failed' \in [Senders -> BOOLEAN]
             /\ UNCHANGED <<rsaKnown, rsaHolder, faults>>
  BY <1>1, <1>5 DEF Start, Cancel
<1>6. ASSUME NEW s \in Senders, LockRSA(s) \/ GotRSA(s)
      PROVE  /\ UNCHANGED <<cancelled, failed, faults>>
             /\ rsaKnown' \in BOOLEAN /\ rsaHolder' \in Senders \cup {None}
  BY <1>1, <1>6 DEF LockRSA, GotRSA
<1>7. ASSUME NEW s \in Senders,
             \/ Lookup(s) \/ Do(s) \/ Resolved(s)
             \/ GetModule(s) \/ Answer(s) \/ StoreModule(s) \/ SignFirst(s)
      PROVE  UNCHANGED <<cancelled, failed, rsaKnown, rsaHolder, faults>>
  BY <1>7 DEF Lookup, Do, Resolved, GetModule, Answer, StoreModule, SignFirst
<1>8. ASSUME Tick \/ UNCHANGED workVars
      PROVE  UNCHANGED <<cancelled, failed, rsaKnown, rsaHolder, faults>>
  BY <1>8 DEF Tick, workVars
<1> QED
  BY <1>1, <1>3, <1>4, <1>5, <1>6, <1>7, <1>8 DEF Next, Step, vars

LEMMA InvNext == Inv /\ [Next]_vars => Inv'
<1> SUFFICES ASSUME Inv, [Next]_vars PROVE Inv'
  OBVIOUS
<1>1. job' \in [Senders -> Jobs] /\ JobsFit'
  BY JobsNext
<1>2. flying' \subseteq Wallets /\ FlightsLed' /\ OneFlight'
  BY FlightsNext
<1>3. AnswersRecent' /\ EntriesRecent'
  BY AnswersNext, EntriesNext
<1>4. known' \subseteq Wallets /\ keyLru' \in Seq(Wallets) /\ AbiTypeOK' /\ CachesConsistent'
  BY CachesNext
<1>5. TypeOK'
  BY <1>1, <1>2, <1>4, WorkTypeNext DEF TypeOK, KeyTypeOK
<1> QED
  BY <1>1, <1>2, <1>3, <1>4, <1>5 DEF Inv

\* What the workers, the caches and the group of singleflight say of each
\* other, in every reachable state.
THEOREM PrepareInv == Spec => []Inv
<1>1. Inv /\ [Next]_vars => Inv'
  BY InvNext
<1> QED
  BY <1>1, InvInit, PTL DEF Spec

\* Every variable keeps its type.
THEOREM TypeCorrect == Spec => []TypeOK
<1>1. Inv => TypeOK
  BY DEF Inv
<1> QED
  BY <1>1, PrepareInv, PTL

\* store, storeLocked and the eviction loops: map and list of a cache name the
\* same keys, within the cap.
THEOREM CachesConsistentHolds == Spec => []CachesConsistent
<1>1. Inv => CachesConsistent
  BY DEF Inv
<1> QED
  BY <1>1, PrepareInv, PTL

\* Resolve: one call per wallet, and nobody waits for a call that is over.
THEOREM OneFlightHolds == Spec => []OneFlight
<1>1. Inv => OneFlight
  BY DEF Inv
<1> QED
  BY <1>1, PrepareInv, PTL

\* getModule: what is served was replaced less than a time to live and the
\* delay of an answer ago, whichever answer was stored last.
THEOREM AbiRecentHolds == Spec => []AbiRecent
<1>1. Inv => AbiRecent
  <2> SUFFICES ASSUME Inv, NEW s \in Senders
               PROVE  LET m == job[s].calls IN
                      /\ At(s, "abi") /\ Fresh(m) => Recent(m, abis[m].version, Ttl + MaxDelay)
                      /\ At(s, "answer") => Recent(m, job[s].version, Ttl + MaxDelay)
    BY DEF AbiRecent
  <2> DEFINE m == job[s].calls
  <2> USE AbiCacheAssumption
  <2>1. JobOK(s, job[s])
    BY JobsOK DEF Inv, TypeOK
  <2>2. ASSUME m \in Modules, NEW v, NEW ticks \in Nat, ticks < Ttl + MaxDelay,
               ReplacedWithin(m, v, ticks)
        PROVE  Recent(m, v, Ttl + MaxDelay)
    <3>1. since[m] \in Seq(0 .. Horizon)
      BY <2>2 DEF Inv, TypeOK, AbiTypeOK
    <3>2. ASSUME v # Current(m) PROVE since[m][v] < Ttl + MaxDelay
      <4>1. v \in 1 .. Len(since[m])
        BY <2>2, <3>1, <3>2, LenProperties DEF ReplacedWithin, Current
      <4>2. since[m][v] \in 0 .. Horizon
        BY <3>1, <4>1, ElementOfSeq
      <4>3. since[m][v] <= ticks
        BY <2>2, <3>2 DEF ReplacedWithin
      <4> QED
        BY <2>2, <4>2, <4>3 DEF Horizon
    <3> QED
      BY <3>2 DEF Recent
  <2>3. ASSUME At(s, "abi"), Fresh(m) PROVE Recent(m, abis[m].version, Ttl + MaxDelay)
    <3>1. m \in Modules
      BY <2>1, <2>3 DEF JobOK, Asking, At
    <3>2. abis[m].age \in 0 .. Ttl /\ abis[m].age < Ttl
      BY <2>3, <3>1 DEF Inv, TypeOK, AbiTypeOK, Fresh, Entries
    <3>3. /\ abis[m].age + MaxDelay \in Nat
          /\ abis[m].age + MaxDelay < Ttl + MaxDelay
      BY <3>2
    <3>4. ReplacedWithin(m, abis[m].version, abis[m].age + MaxDelay)
      BY <2>3, <3>1 DEF Inv, EntriesRecent
    <3> QED
      BY <2>2, <3>1, <3>3, <3>4
  <2>4. ASSUME At(s, "answer") PROVE Recent(m, job[s].version, Ttl + MaxDelay)
    <3>1. m \in Modules
      BY <2>1, <2>4 DEF JobOK, Asking, At
    <3>2. job[s].delay \in Nat /\ job[s].delay < Ttl + MaxDelay
      BY <2>1 DEF JobOK, Jobs
    <3> QED
      BY <2>2, <2>4, <3>1, <3>2 DEF Inv, AnswersRecent
  <2> QED
    BY <2>3, <2>4
<1> QED
  BY <1>1, PrepareInv, PTL

\* prepareRecord: only the failure of its own module's call, or of a call for
\* its own wallet, fails a record for good.
THEOREM FailsForCauseHolds == Spec => FailsForCause
<1>1. Inv /\ [Next]_vars =>
        [\A s \in Senders : failed'[s] /\ ~failed[s] =>
           \/ At(s, "ask") /\ faults' # faults
           \/ CutShort(s)]_vars
  <2> SUFFICES ASSUME Inv, Next, NEW s \in Senders, failed'[s], ~failed[s]
               PROVE  (At(s, "ask") /\ faults' # faults) \/ CutShort(s)
    OBVIOUS
  <2>1. /\ failed \in [Senders -> BOOLEAN] /\ faults \in Nat
        /\ \A d \in Senders : job[d] \in Jobs
    BY DEF Inv, TypeOK
  <2>2. ASSUME NEW d \in Senders, Unresolved(d) PROVE CutShort(s)
    <3>1. s \in Aboard(d) /\ Fatal(s) /\ At(d, "fetch")
      BY <2>2 DEF Unresolved
    <3>2. Wanted(d) = WalletOf[s]
      BY <3>1 DEF Aboard, Fatal, Wanted
    <3>3. faults' # faults \/ (d # s /\ cancelled[d])
      BY <2>1, <2>2, <3>1 DEF Unresolved, Breaks, Fatal
    <3> QED
      BY <3>1, <3>2, <3>3 DEF CutShort
  <2>3. ASSUME NEW d \in Senders, NoModule(d) PROVE At(s, "ask") /\ faults' # faults
    <3>1. d = s
      BY <2>1, <2>3 DEF NoModule, End
    <3> QED
      BY <2>1, <2>3, <3>1 DEF NoModule
  <2>4. ASSUME NEW d \in Senders, Start(d) \/ Unsigned(d) \/ SignLast(d) PROVE ~failed'[s]
    BY <2>1, <2>4 DEF Start, Unsigned, SignLast, End
  <2>5. ASSUME NEW d \in Senders,
               \/ Cancel(d) \/ Lookup(d) \/ Do(d) \/ Resolved(d)
               \/ GetModule(d) \/ Answer(d) \/ StoreModule(d)
               \/ LockRSA(d) \/ GotRSA(d) \/ SignFirst(d)
        PROVE  failed' = failed
    BY <2>5 DEF Cancel, Lookup, Do, Resolved, GetModule, Answer, StoreModule,
                LockRSA, GotRSA, SignFirst
  <2>6. ASSUME Tick \/ UNCHANGED workVars PROVE failed' = failed
    BY <2>6 DEF Tick, workVars
  <2> QED
    BY <2>2, <2>3, <2>4, <2>5, <2>6 DEF Next, Step
<1> QED
  BY <1>1, PrepareInv, PTL DEF Spec, FailsForCause

=============================================================================
