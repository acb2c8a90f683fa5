----------------------------- MODULE MCPipeline -----------------------------
(* SingleHost with the values the configurations give its constants. *)
EXTENDS SingleHost

CONSTANTS h1, h2

OneHost == {h1}
TwoHosts == {h1, h2}
NoRequest == {}
LastRequest == {N}
=============================================================================
