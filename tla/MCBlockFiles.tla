---------------------------- MODULE MCBlockFiles ----------------------------
(***************************************************************************)
(* Two blocks to a file; a fork of two blocks, or a chain of three.        *)
(***************************************************************************)
EXTENDS BlockFiles, TLC

CONSTANTS g, a1, a2, a3, b2

MCParentFork == a1 :> g @@ a2 :> a1 @@ b2 :> a1
MCParentStraight == a1 :> g @@ a2 :> a1 @@ a3 :> a2
=============================================================================
