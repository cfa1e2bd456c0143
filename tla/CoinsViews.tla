----------------------------- MODULE CoinsViews -----------------------------
(***************************************************************************)
(* What a stack of coins views promises (coins.h, CCoinsView): three maps  *)
(* from outpoints to coins, one per level, each with the block it          *)
(* describes.  Nothing is cached here.  Only the topmost view is written;  *)
(* writing a view to its base copies it whole; every read, cache eviction  *)
(* and cache write-through that keeps the entries is invisible.            *)
(***************************************************************************)
CONSTANTS Outpoint, Coin, Spent, Block, NoBlock

VARIABLES dbCoins,    \* the chainstate database's coins
          tipCoins,   \* the coins Chainstate::CoinsTip() shows
          viewCoins,  \* the coins the temporary view on top of it shows
          best        \* level -> the block its coins are the state after

vars == <<dbCoins, tipCoins, viewCoins, best>>

CoinMap == [Outpoint -> Coin \cup {Spent}]
BestMap == [{"db", "tip", "view"} -> Block \cup {NoBlock}]

Init ==
  /\ dbCoins \in CoinMap
  /\ tipCoins = dbCoins
  /\ viewCoins = dbCoins
  /\ best \in BestMap
  /\ best["tip"] = best["db"] /\ best["view"] = best["db"]

\* A write to the temporary view, or to the tip's cache while there is none.
WriteView(o, c) ==
  /\ viewCoins' = [viewCoins EXCEPT ![o] = c]
  /\ UNCHANGED <<dbCoins, tipCoins, best>>

WriteTip(o, c) ==
  /\ viewCoins = tipCoins /\ best["view"] = best["tip"]
  /\ tipCoins' = [tipCoins EXCEPT ![o] = c]
  /\ viewCoins' = tipCoins'
  /\ UNCHANGED <<dbCoins, best>>

SetViewBest(b) ==
  /\ best' = [best EXCEPT !["view"] = b]
  /\ UNCHANGED <<dbCoins, tipCoins, viewCoins>>

SetTipBest(b) ==
  /\ viewCoins = tipCoins /\ best["view"] = best["tip"]
  /\ best' = [best EXCEPT !["view"] = b, !["tip"] = b]
  /\ UNCHANGED <<dbCoins, tipCoins, viewCoins>>

\* The temporary view is destroyed without being written back.
Discard ==
  /\ viewCoins' = tipCoins
  /\ best' = [best EXCEPT !["view"] = best["tip"]]
  /\ UNCHANGED <<dbCoins, tipCoins>>

\* The temporary view is written to the tip's cache.
CommitView ==
  /\ tipCoins' = viewCoins
  /\ best' = [best EXCEPT !["tip"] = best["view"]]
  /\ UNCHANGED <<dbCoins, viewCoins>>

\* The tip's cache is written to the database.
CommitTip ==
  /\ dbCoins' = tipCoins
  /\ best' = [best EXCEPT !["db"] = best["tip"]]
  /\ UNCHANGED <<tipCoins, viewCoins>>

Next ==
  \/ \E o \in Outpoint, c \in Coin \cup {Spent} : WriteView(o, c) \/ WriteTip(o, c)
  \/ \E b \in Block : SetViewBest(b) \/ SetTipBest(b)
  \/ Discard \/ CommitView \/ CommitTip

Spec == Init /\ [][Next]_vars
=============================================================================
