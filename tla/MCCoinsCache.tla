---------------------------- MODULE MCCoinsCache ----------------------------
(***************************************************************************)
(* CoinsCache on two outpoints and two coins of different sizes.           *)
(***************************************************************************)
EXTENDS CoinsCache, TLC

CONSTANTS o1, o2, c1, c2

MCMem == (c1 :> 1) @@ (c2 :> 3)
Symmetry == Permutations({o1, o2})
=============================================================================
