-------------------------------- MODULE Lru --------------------------------
(* The list both caches keep of their keys, most recently used first. *)
EXTENDS Integers, Sequences, FiniteSets

\* list.MoveToFront, of the element of key k.
Touched(lru, k) ==
  LET i == CHOOSE j \in 1 .. Len(lru) : lru[j] = k
  IN  <<k>> \o SubSeq(lru, 1, i - 1) \o SubSeq(lru, i + 1, Len(lru))

\* list.PushFront.
Pushed(lru, k) == <<k>> \o lru

\* The eviction loop: entries leave from the back down to the cap.
Capped(lru, max) == IF Len(lru) <= max THEN lru ELSE SubSeq(lru, 1, max)
Victims(lru, max) == {lru[i] : i \in max + 1 .. Len(lru)}

Listed(lru) == {lru[i] : i \in 1 .. Len(lru)}

\* The list names every key of the map once, and there are max at most.
Consistent(lru, keys, max) ==
  /\ Listed(lru) = keys
  /\ Len(lru) = Cardinality(keys)
  /\ Len(lru) <= max
=============================================================================
