---------------------------- MODULE CoinsReplay ----------------------------
(***************************************************************************)
(* How the UTXO set on disk survives a crash: CCoinsViewDB::BatchWrite,    *)
(* which writes the dirty coins in several batches, and                    *)
(* Chainstate::ReplayBlocks, which finishes an interrupted write at the    *)
(* next start by rolling the old branch back and the new one forward.      *)
(*                                                                         *)
(* The cache over the database is transparent (CoinsCacheProofs!Refinement)*)
(* so CoinsTip() is the map it shows.  Its dirty entries are the ones that *)
(* differ from the database: writing an equal coin changes nothing.        *)
(* Blocks and undo data are readable here; BlockFiles is about that.       *)
(***************************************************************************)
EXTENDS Integers, Sequences

CONSTANTS
  Outpoint,        \* COutPoint
  Block, NoBlock,  \* block hashes; the null uint256
  Genesis,
  Parent,          \* pprev, for every block but Genesis
  Txs,             \* block -> vtx, as [ins, outs : SUBSET Outpoint]
  MaxCrashes       \* bound on the crashes and power losses of a behaviour

VARIABLES
  db,        \* chainstate/: the coins, DB_BEST_BLOCK and DB_HEAD_BLOCKS
  durable,   \* what a power loss leaves of db
  coins,     \* what CoinsTip() (or ReplayBlocks' cache) shows
  tip,       \* its hashBlock
  pc,        \* "down", "run", or "flush": inside BatchWrite
  crashes

vars == <<db, durable, coins, tip, pc, crashes>>

Height[b \in Block] == IF b = Genesis THEN 0 ELSE Height[Parent[b]] + 1
Ancestors[b \in Block] ==
  IF b = Genesis THEN {b} ELSE {b} \cup Ancestors[Parent[b]]

\* Blocks form a tree under their parents: what holds of the genesis block and
\* passes from a block to its children holds of every block.
ASSUME TreeAssumption ==
  /\ Genesis \in Block /\ NoBlock \notin Block
  /\ Parent \in [Block \ {Genesis} -> Block]
  /\ \A S \in SUBSET Block :
       Genesis \in S /\ (\A b \in Block \ {Genesis} : Parent[b] \in S => b \in S) => S = Block
  /\ MaxCrashes \in Nat

ASSUME TxsAssumption == Txs \in [Block -> Seq([ins : SUBSET Outpoint, outs : SUBSET Outpoint])]

\* The ancestor of a block at a height, and the last block of two branches.
GetAncestor(b, h) == CHOOSE a \in Ancestors[b] : Height[a] = h

LastCommonAncestor(a, b) ==
  CHOOSE c \in Ancestors[a] \cap Ancestors[b] :
    \A d \in Ancestors[a] \cap Ancestors[b] : Height[d] <= Height[c]

\* A Coin is the height of the block that created it; Spent stands for none.
\* Value, script and coinbase flag are functions of the outpoint.
Spent == 0
CoinMap == [Outpoint -> {Height[b] : b \in Block}]
NoCoins == [o \in Outpoint |-> Spent]
DB == [coins : CoinMap, best : Block \cup {NoBlock},
       heads : {<<>>} \cup (Block \X (Block \cup {NoBlock}))]

TypeOK ==
  /\ db \in DB /\ durable \in DB
  /\ coins \in CoinMap
  /\ tip \in Block \cup {NoBlock}
  /\ pc \in {"down", "run", "flush"}
  /\ crashes \in 0..MaxCrashes
-----------------------------------------------------------------------------
\* UpdateCoins, the coins: spend the inputs, then add the outputs.
UpdateCoins(c, tx, height) ==
  [o \in Outpoint |-> IF o \in tx.outs THEN height
                      ELSE IF o \in tx.ins THEN Spent ELSE c[o]]

\* The coins after the first i transactions of a block, for every i.
AfterTxs(c, b) ==
  LET After[i \in 0..Len(Txs[b])] ==
        IF i = 0 THEN c ELSE UpdateCoins(After[i - 1], Txs[b][i], Height[b])
  IN  After

\* RollforwardBlock; every addition may overwrite.
RollforwardBlock(c, b) == AfterTxs(c, b)[Len(Txs[b])]

\* ConnectBlock, which skips the transactions of the genesis block.
ConnectBlock(c, b) == IF b = Genesis THEN c ELSE RollforwardBlock(c, b)

\* The UTXO set after a block, by definition.
UtxoAt[b \in Block] ==
  IF b = Genesis THEN NoCoins ELSE RollforwardBlock(UtxoAt[Parent[b]], b)
Utxo(b) == IF b = NoBlock THEN NoCoins ELSE UtxoAt[b]

\* The coins before transaction i of a block in the chain that ends with it.
Before(b, i) == AfterTxs(UtxoAt[Parent[b]], b)[i - 1]

\* The undo data of a transaction: the coins it spent.  It was written when the
\* block was first connected, to the UTXO set of its parent (CoinsTipExact).
UndoOf(b, i) == [o \in Txs[b][i].ins |-> Before(b, i)[o]]

\* Every block is valid: its inputs are there when it is connected, it spends
\* none twice and overwrites no unspent coin (BIP30).
Valid(b) ==
  \A i \in 1..Len(Txs[b]) :
    /\ \A o \in Txs[b][i].ins : Before(b, i)[o] # Spent
    /\ \A o \in Txs[b][i].outs : Before(b, i)[o] = Spent

ASSUME ValidAssumption == \A b \in Block \ {Genesis} : Valid(b)

\* DisconnectBlock, for one transaction: remove the outputs, then restore the
\* inputs (ApplyTxInUndo).  It is clean when every output was the coin that
\* this block created and no restored input was unspent already.
DisconnectTx(s, b, i) ==
  LET tx == Txs[b][i]
      removed == [o \in Outpoint |-> IF o \in tx.outs THEN Spent ELSE s.coins[o]]
  IN  [coins |-> [o \in Outpoint |-> IF o \in tx.ins THEN UndoOf(b, i)[o] ELSE removed[o]],
       clean |-> /\ s.clean
                 /\ \A o \in tx.outs : s.coins[o] = Height[b]
                 /\ \A o \in tx.ins : removed[o] = Spent]

\* Mutant: undoes the transactions in the order of the block.
DisconnectBlockForward(c, b) ==
  LET Undone[n \in 0..Len(Txs[b])] ==
        IF n = 0 THEN [coins |-> c, clean |-> TRUE] ELSE DisconnectTx(Undone[n - 1], b, n)
  IN  Undone[Len(Txs[b])]

\* DisconnectBlock undoes the transactions in reverse order; Undone[n] is what
\* it has after the last n of them.
DisconnectBlock(c, b) ==
  LET Undone[n \in 0..Len(Txs[b])] ==
        IF n = 0 THEN [coins |-> c, clean |-> TRUE]
        ELSE DisconnectTx(Undone[n - 1], b, Len(Txs[b]) + 1 - n)
  IN  Undone[Len(Txs[b])]
-----------------------------------------------------------------------------
Init ==
  /\ db = [coins |-> NoCoins, best |-> NoBlock, heads |-> <<>>]
  /\ durable = db
  /\ coins = NoCoins
  /\ tip = NoBlock
  /\ pc = "down"
  /\ crashes = 0

\* ConnectTip: the block on top of the tip, or the genesis block on a new node.
ConnectTip(b) ==
  /\ pc = "run"
  /\ IF b = Genesis THEN tip = NoBlock ELSE tip = Parent[b]
  /\ coins' = ConnectBlock(coins, b)
  /\ tip' = b
  /\ UNCHANGED <<db, durable, pc, crashes>>

\* DisconnectTip; it fails when DisconnectBlock is not clean.
DisconnectTip ==
  /\ pc = "run"
  /\ tip \notin {NoBlock, Genesis}
  /\ DisconnectBlock(coins, tip).clean
  /\ coins' = DisconnectBlock(coins, tip).coins
  /\ tip' = Parent[tip]
  /\ UNCHANGED <<db, durable, pc, crashes>>

\* FlushStateToDisk reaches CoinsTip().Flush(), which enters BatchWrite.
Flush ==
  /\ pc = "run"
  /\ tip # NoBlock
  /\ pc' = "flush"
  /\ UNCHANGED <<db, durable, coins, tip, crashes>>

\* Mutant: a restarted transition forgets the tip it came from.
OldTipUnlessReplaying == db.best

\* The old_tip of BatchWrite.
OldTip == IF db.best = NoBlock /\ Len(db.heads) = 2 THEN db.heads[2] ELSE db.best

Dirtied == {o \in Outpoint : coins[o] # db.coins[o]}
Written(S) == [o \in Outpoint |-> IF o \in S THEN coins[o] ELSE db.coins[o]]

\* Mutant: leaves DB_BEST_BLOCK where it was until the last batch.
PartialBatchUnmarked(S) == [coins |-> Written(S), best |-> db.best, heads |-> <<>>]

\* What the database holds after a partial batch: the first one marks the
\* transition, the later ones leave the mark alone.
PartialBatch(S) ==
  [coins |-> Written(S), best |-> NoBlock, heads |-> <<tip, OldTip>>]

\* A partial batch, of the entries the unordered map happened to yield.
WritePartialBatch(S) ==
  /\ pc = "flush"
  /\ S \subseteq Dirtied
  /\ db' = PartialBatch(S)
  /\ UNCHANGED <<durable, coins, tip, pc, crashes>>

\* The last batch writes the rest and takes the mark away.
WriteFinalBatch ==
  /\ pc = "flush"
  /\ db' = [coins |-> Written(Dirtied), best |-> tip, heads |-> <<>>]
  /\ pc' = "run"
  /\ UNCHANGED <<durable, coins, tip, crashes>>

\* LevelDB and the operating system write the log behind in their own time: a
\* power loss keeps a prefix of the batches.  External to this repository.
WriteBehind ==
  /\ durable # db
  /\ durable' = db
  /\ UNCHANGED <<db, coins, tip, pc, crashes>>

\* The process dies: AbortNode, an assertion, a signal.
Crash ==
  /\ pc # "down"
  /\ crashes < MaxCrashes
  /\ crashes' = crashes + 1
  /\ pc' = "down"
  /\ coins' = NoCoins /\ tip' = NoBlock
  /\ UNCHANGED <<db, durable>>

PowerLoss ==
  /\ crashes < MaxCrashes
  /\ crashes' = crashes + 1
  /\ pc' = "down"
  /\ coins' = NoCoins /\ tip' = NoBlock
  /\ db' = durable
  /\ UNCHANGED durable

\* Back from old to fork: every block there is disconnected, and an unclean
\* disconnect is accepted.
RolledBack(c, old, fork) ==
  LET Rolled[n \in 0..(Height[old] - Height[fork])] ==
        IF n = 0 THEN c
        ELSE DisconnectBlock(Rolled[n - 1], GetAncestor(old, Height[old] + 1 - n)).coins
  IN  Rolled[Height[old] - Height[fork]]

\* Forward to new from its ancestor at height h.
RolledForward(c, h, new) ==
  LET Rolled[n \in 0..(Height[new] - h)] ==
        IF n = 0 THEN c
        ELSE RollforwardBlock(Rolled[n - 1], GetAncestor(new, h + n))
  IN  Rolled[Height[new] - h]

\* Mutant: only rolls forward.
ReplayedForwardOnly(c, new, old) ==
  IF old = NoBlock THEN RolledForward(c, 0, new)
  ELSE RolledForward(c, Height[LastCommonAncestor(old, new)], new)

\* ReplayBlocks, the coins: back from old to the last common ancestor, forward
\* from there to new.  The first write of a new node has no old tip, and then
\* the genesis block is not rolled forward.
Replayed(c, new, old) ==
  LET fork == LastCommonAncestor(old, new)
  IN  IF old = NoBlock THEN RolledForward(c, 0, new)
      ELSE RolledForward(RolledBack(c, old, fork), Height[fork], new)

\* ReplayBlocks up to its cache.Flush(); LoadChainTip follows the flush.
ReplayBlocks ==
  /\ pc = "down"
  /\ Len(db.heads) = 2
  /\ coins' = Replayed(db.coins, db.heads[1], db.heads[2])
  /\ tip' = db.heads[1]
  /\ pc' = "flush"
  /\ UNCHANGED <<db, durable, crashes>>

\* Start when there is nothing to replay: LoadChainTip takes the best block of
\* the database; a new node has none.
LoadChainTip ==
  /\ pc = "down"
  /\ db.heads = <<>>
  /\ coins' = db.coins
  /\ tip' = db.best
  /\ pc' = "run"
  /\ UNCHANGED <<db, durable, crashes>>

Next ==
  \/ \E b \in Block : ConnectTip(b)
  \/ DisconnectTip
  \/ Flush
  \/ \E S \in SUBSET Outpoint : WritePartialBatch(S)
  \/ WriteFinalBatch
  \/ WriteBehind
  \/ Crash
  \/ PowerLoss
  \/ ReplayBlocks
  \/ LoadChainTip

Spec == Init /\ [][Next]_vars
-----------------------------------------------------------------------------
\* While the node runs, and while it writes, CoinsTip() is exactly the UTXO set
\* of its best block, also when it was recovered by ReplayBlocks after any
\* number of crashes in earlier replays.
CoinsTipExact == pc # "down" => coins = Utxo(tip)

\* A database without the transition mark of BatchWrite is exactly the UTXO set
\* of its DB_BEST_BLOCK, in the file system's view and after a power loss.
UnmarkedIsConsistent ==
  \A d \in {db, durable} : d.heads = <<>> => d.coins = Utxo(d.best)

\* A marked database is between its two heads coin by coin: every coin is the
\* one before or the one after.  That is what makes the replay idempotent.
MarkedIsBetweenHeads ==
  \A d \in {db, durable} :
    Len(d.heads) = 2 =>
      /\ d.best = NoBlock
      /\ \A o \in Outpoint :
           d.coins[o] \in {Utxo(d.heads[1])[o], Utxo(d.heads[2])[o]}

\* The assertion of BatchWrite, old_heads[0] == hashBlock: a write that finds
\* the database in transition is going to the same block.
SameTransition == pc = "flush" /\ Len(db.heads) = 2 => db.heads[1] = tip

\* The database is what its best block or its heads say it is, at every moment
\* the process may die or the power may fail, and a write that meets a
\* transition is finishing that one.
DatabaseExact == UnmarkedIsConsistent /\ MarkedIsBetweenHeads /\ SameTransition

\* DisconnectTip never meets DISCONNECT_UNCLEAN, which it could not survive,
\* although ReplayBlocks may.
CleanDisconnect ==
  pc = "run" /\ tip \notin {NoBlock, Genesis} => DisconnectBlock(coins, tip).clean
=============================================================================
