---------------------------- MODULE MCTxRequest ----------------------------
(***************************************************************************)
(* Three peers and one or two transactions.                                *)
(***************************************************************************)
EXTENDS TxRequest

CONSTANTS p1, p2, p3, t1, t2

MCRank ==
  [t \in Tx |-> [p \in Peer |->
     IF t = t1 THEN (IF p = p1 THEN 0 ELSE IF p = p2 THEN 1 ELSE 2)
     ELSE (IF p = p1 THEN 2 ELSE IF p = p2 THEN 0 ELSE 1)]]
=============================================================================
