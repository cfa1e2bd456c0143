---------------------------- MODULE MCIndexSync ----------------------------
(* A chain g - a1 - a2 and a longer branch b2 - b3 from a1. *)
EXTENDS IndexSync, TLC
CONSTANTS g, a1, a2, b2, b3
MCParent == (g :> NoBlock) @@ (a1 :> g) @@ (a2 :> a1) @@ (b2 :> a1) @@ (b3 :> b2)
=============================================================================
