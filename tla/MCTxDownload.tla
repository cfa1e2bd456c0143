---------------------------- MODULE MCTxDownload ----------------------------
(***************************************************************************)
(* A parent with two children that conflict, one of them with a witness;   *)
(* the parent and the child with a witness are confirmed in one block.     *)
(***************************************************************************)
EXTENDS TxDownload, TLC

CONSTANTS p1, p2, base, parent, child, other

MCInputs == [x \in Tx |-> IF x = parent THEN {base} ELSE {parent}]
MCPolicy == [x \in Tx |-> IF x = parent THEN {"VALID", "REJECTED"}
                          ELSE IF x = child THEN {"VALID", "NONSTANDARD"}
                          ELSE {"VALID", "STRIPPED"}]
MCBlocks == <<{parent, child}>>
MCTxids == <<child, base, other, parent>>
PeerSymmetry == Permutations(Peer)
=============================================================================
