---------------------------- MODULE TxOrphanage ----------------------------
(***************************************************************************)
(* TxOrphanage (txorphanage.cpp): transactions whose inputs are not known  *)
(* yet, kept under a number of indexes.  An orphanage is a record and each *)
(* method an operator from orphanages to orphanages.                       *)
(*                                                                         *)
(* A transaction has one output, which stands for its outpoints, and one   *)
(* witness, so that its txid and its wtxid both identify it.               *)
(***************************************************************************)
EXTENDS Integers, Sequences, FiniteSets

CONSTANTS
  Peer, Tx,
  Base,         \* a transaction that was confirmed long ago
  Txids,        \* all transactions in the order of their txids
  Inputs,       \* the transactions whose outputs a transaction spends
  TooBig,       \* the transactions over the standard weight
  MaxOrphans    \* -maxorphantx

Outpoint == Tx \cup {Base}

ASSUME OrphanageAssumption ==
  /\ Base \notin Tx /\ 0 \notin Peer
  /\ Txids \in Seq(Tx \cup {Base})
  /\ \A x \in Tx \cup {Base} : \E i \in DOMAIN Txids : Txids[i] = x
  /\ Inputs \in [Tx -> SUBSET (Tx \cup {Base})]
  /\ TooBig \subseteq Tx
  /\ MaxOrphans \in Nat

\* m_orphans, m_orphan_list, m_wtxid_to_orphan_it, m_outpoint_to_orphan_it
\* and m_peer_work_set.  pos is zero for a transaction that is no orphan.
Orphanages ==
  [peer : [Tx -> Peer \cup {0}], pos : [Tx -> Nat], list : Seq(Tx),
   wtxids : SUBSET Tx, spenders : [Outpoint -> SUBSET Tx], work : [Peer -> SUBSET Tx]]

EmptyOrphanage ==
  [peer |-> [x \in Tx |-> 0], pos |-> [x \in Tx |-> 0], list |-> <<>>,
   wtxids |-> {}, spenders |-> [i \in Outpoint |-> {}], work |-> [p \in Peer |-> {}]]

IsOrphan(o, x) == o.pos[x] # 0
Orphans(o) == {x \in Tx : IsOrphan(o, x)}
HaveTx(o, x, wtxid) == IF wtxid THEN x \in o.wtxids ELSE IsOrphan(o, x)

AddTx(o, x, p) ==
  IF IsOrphan(o, x) \/ x \in TooBig THEN o
  ELSE [o EXCEPT !.peer[x] = p,
                 !.pos[x] = Len(o.list) + 1,
                 !.list = Append(@, x),
                 !.wtxids = @ \cup {x},
                 !.spenders = [i \in Outpoint |-> IF i \in Inputs[x] THEN @[i] \cup {x}
                                            ELSE @[i]]]

\* Mutant: the moved entry keeps its old position.
EraseTxStalePos(o, x) ==
  IF ~IsOrphan(o, x) THEN o
  ELSE LET old == o.pos[x]
           n == Len(o.list)
       IN  [o EXCEPT !.peer[x] = 0,
                     !.pos[x] = 0,
                     !.list = SubSeq([@ EXCEPT ![old] = o.list[n]], 1, n - 1),
                     !.wtxids = @ \ {x},
                     !.spenders = [i \in Outpoint |-> IF i \in Inputs[x] THEN @[i] \ {x}
                                                ELSE @[i]]]

\* _EraseTx: the last entry of the list moves to the position that is freed.
\* The work sets are left alone.
EraseTx(o, x) ==
  IF ~IsOrphan(o, x) THEN o
  ELSE LET old == o.pos[x]
           n == Len(o.list)
           last == o.list[n]
       IN  [o EXCEPT !.peer[x] = 0,
                     !.pos = [@ EXCEPT ![last] = old, ![x] = 0],
                     !.list = SubSeq([@ EXCEPT ![old] = last], 1, n - 1),
                     !.wtxids = @ \ {x},
                     !.spenders = [i \in Outpoint |-> IF i \in Inputs[x] THEN @[i] \ {x}
                                                ELSE @[i]]]

\* The entries of s that are in xs are erased, one after the other.
EraseEach(o, s, xs) ==
  LET erased[i \in 0 .. Len(s)] ==
        IF i = 0 THEN o
        ELSE IF s[i] \in xs THEN EraseTx(erased[i - 1], s[i]) ELSE erased[i - 1]
  IN  erased[Len(s)]

EraseAll(o, xs) == EraseEach(o, Txids, xs)

EraseForPeer(o, p) ==
  EraseAll([o EXCEPT !.work[p] = {}], {x \in Orphans(o) : o.peer[x] = p})

\* Mutant: nothing is evicted.
LimitOrphansNever(o, expired) == {EraseAll(o, expired)}

\* The orphans that may be evicted, in that order: as many as are over the limit.
Victims(o) ==
  LET n == IF Len(o.list) > MaxOrphans THEN Len(o.list) - MaxOrphans ELSE 0
  IN  {v \in [1 .. n -> Orphans(o)] : \A i, j \in 1 .. n : v[i] = v[j] => i = j}

\* The orphanages that LimitOrphans may leave: the sweep, when it is due,
\* erases the expired orphans, and random ones are evicted down to the limit.
LimitOrphans(o, expired) ==
  LET swept == EraseAll(o, expired)
  IN  {EraseEach(swept, v, Tx) : v \in Victims(swept)}

AddChildrenToWorkSet(o, x) ==
  [o EXCEPT !.work = [p \in Peer |->
     @[p] \cup {c \in o.spenders[x] : o.peer[c] = p}]]

\* GetTxToReconsider takes entries from the front of a work set.
Taken(o, p, xs) == [o EXCEPT !.work[p] = @ \ xs]

EraseForBlock(o, txs) ==
  EraseAll(o, UNION {o.spenders[i] : i \in UNION {Inputs[x] : x \in txs}})
-----------------------------------------------------------------------------
\* The indexes describe the same orphans: positions and list are inverse to
\* each other (what the assertion in _EraseTx needs), and the lookups by wtxid,
\* by outpoint and by peer find exactly the orphans.
IndexesAgree(o) ==
  /\ \A x \in Orphans(o) : o.pos[x] \in DOMAIN o.list /\ o.list[o.pos[x]] = x
  /\ \A i \in DOMAIN o.list : o.pos[o.list[i]] = i
  /\ o.wtxids = Orphans(o)
  /\ \A i \in Outpoint : o.spenders[i] = {x \in Orphans(o) : i \in Inputs[x]}
  /\ \A x \in Tx : o.peer[x] # 0 <=> IsOrphan(o, x)
=============================================================================
