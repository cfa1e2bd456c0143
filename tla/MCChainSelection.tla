-------------------------- MODULE MCChainSelection --------------------------
(***************************************************************************)
(* Small block trees for ChainSelection.                                   *)
(*                                                                         *)
(*   g - a1                 g - a1 - a2                                    *)
(*    \                      \    \                                        *)
(*     b1 - b2 - b3 - b4      b1   c2 - c3                                 *)
(***************************************************************************)
EXTENDS ChainSelection, TLC

CONSTANTS g, a1, a2, b1, b2, b3, b4, c2, c3

ForkBlocks == {g, a1, b1, b2, b3, b4}
ForkParent == (a1 :> g) @@ (b1 :> g) @@ (b2 :> b1) @@ (b3 :> b2) @@ (b4 :> b3)
ForkAddr == (g :> 0) @@ (a1 :> 3) @@ (b1 :> 5) @@ (b2 :> 2) @@ (b3 :> 4) @@ (b4 :> 6)
ForkProof == [b \in ForkBlocks |-> 1]

BranchBlocks == {g, a1, a2, b1, c2, c3}
BranchParent == (a1 :> g) @@ (a2 :> a1) @@ (b1 :> g) @@ (c2 :> a1) @@ (c3 :> c2)
BranchAddr == (g :> 0) @@ (a1 :> 1) @@ (a2 :> 3) @@ (b1 :> 5) @@ (c2 :> 2) @@ (c3 :> 4)
BranchProof == [b \in BranchBlocks |-> IF b = b1 THEN 3 ELSE 1]
=============================================================================
