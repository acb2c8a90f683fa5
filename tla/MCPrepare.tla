----------------------------- MODULE MCPrepare -----------------------------
(* Prepare with two senders that share a module, the wallet of one paying for
   the other. *)
EXTENDS Prepare, TLC

CONSTANTS s1, s2, w1, w2, m1, m2

TwoSenders == {s1, s2}
TwoWallets == {w1, w2}
SharedModule == {m1}
TwoModules == {m1, m2}
OwnWallets == s1 :> w1 @@ s2 :> w2
OnePayer == s1 :> w2 @@ s2 :> None
Calls == s1 :> {m1} @@ s2 :> {m1, m2}
=============================================================================
