------------------------------ MODULE MCIntake ------------------------------
(* Intake with the values the configuration gives its constants. *)
EXTENDS Intake

CONSTANTS c1, c2, c3, h1, k1

\* Two callers that share a key and one that sends none.
ThreeClients == {c1, c2, c3}
SharedKey == [c \in ThreeClients |-> IF c = c3 THEN None ELSE k1]
OneHost == {h1}
=============================================================================
