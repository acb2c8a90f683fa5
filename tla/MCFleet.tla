------------------------------ MODULE MCFleet ------------------------------
(* Fleet with two senders, the first of which makes all requests but the last. *)
EXTENDS Fleet

CONSTANTS s1, s2

TwoSenders == {s1, s2}
LastForAnother == [t \in Txns |-> IF t = N THEN s2 ELSE s1]
=============================================================================
