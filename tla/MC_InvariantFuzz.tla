--------------------------- MODULE MC_InvariantFuzz ---------------------------
(* Instantiates InvariantFuzz: a handler with a call that moves the state, *)
(* one that reverts and one that deploys a contract, and an invariant that *)
(* the first successful increment breaks.                                  *)
EXTENDS InvariantFuzz

CONSTANTS inc, rev, new, inv, none

MCCalls == {inc, rev, new}
MCBump == (inc :> 1) @@ (rev :> 0) @@ (new :> 0)
MCLimit == (inv :> 1)
=============================================================================
