------------------------------ MODULE MCOutbox ------------------------------
(* Outbox with the values the configurations give its constants. *)
EXTENDS Outbox

CONSTANTS h1, h2, d1, d2

OneHost == {h1}
TwoHosts == {h1, h2}
OneDelivery == {d1}
TwoDeliveries == {d1, d2}
=============================================================================
