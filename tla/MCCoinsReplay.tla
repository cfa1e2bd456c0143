--------------------------- MODULE MCCoinsReplay ---------------------------
(***************************************************************************)
(* A fork in which the same two transactions are mined at different        *)
(* heights, on one side in two blocks and on the other in one, where the   *)
(* second spends an output of the first.                                   *)
(***************************************************************************)
EXTENDS CoinsReplay, TLC

CONSTANTS o0, o1, o2, x1, x2, g, s, a1, a2, b1, b2

MCParent == s :> g @@ a1 :> s @@ a2 :> a1 @@ b1 :> s @@ b2 :> b1

Pay(ins, outs) == [ins |-> ins, outs |-> outs]
MCTxs ==
  g  :> << Pay({}, {o0}) >> @@
  s  :> << Pay({}, {o1}) >> @@
  a1 :> << Pay({}, {}), Pay({o1}, {x1}) >> @@
  a2 :> << Pay({}, {}), Pay({x1}, {x2}) >> @@
  b1 :> << Pay({}, {o2}) >> @@
  b2 :> << Pay({}, {}), Pay({o1}, {x1}), Pay({x1, o2}, {x2}) >>
=============================================================================
