------------------------------ MODULE IndexSync ------------------------------
(***************************************************************************)
(* An index kept beside the chain (index/base.cpp) with the data of the    *)
(* coin statistics index (index/coinstatsindex.cpp): ThreadSync catches up *)
(* with the active chain on a thread of its own, then the validation       *)
(* callbacks keep the index current, across reorganizations, clean         *)
(* shutdowns and crashes.                                                  *)
(*                                                                         *)
(* The callbacks are taken from a queue in order and one at a time, as     *)
(* module CallbackQueue promises.  A callback is one step: past its test   *)
(* of m_synced nothing else changes the index, and before it changes       *)
(* anything it takes cs_main, which ThreadSync holds while it sets         *)
(* m_synced and commits.  The statistics of a block are named by the       *)
(* block: m_muhash and the totals are the block whose coins they describe, *)
(* or Bad once blocks were applied out of order.  Disk errors and pruning  *)
(* are left out.                                                           *)
(***************************************************************************)
EXTENDS Integers, Sequences, FiniteSets

CONSTANTS
  Block, Genesis, NoBlock,
  Parent,       \* [Block -> Block \cup {NoBlock}], the tree of blocks
  StartTip,     \* the tips of the chain when the index is first enabled
  Bad,          \* statistics of no block
  MaxMoves,     \* bound: changes of the chain and flushes
  MaxStops      \* bound: crashes and shutdowns

\* The tree: the ancestors of a block, itself included, and nHeight, -1 for none.
Anc[b \in Block] == IF b = Genesis THEN {b} ELSE {b} \cup Anc[Parent[b]]
nHeight[b \in Block] == IF b = Genesis THEN 0 ELSE nHeight[Parent[b]] + 1
Chain == [b \in Block \cup {NoBlock} |-> IF b = NoBlock THEN {} ELSE Anc[b]]
HeightOf == [b \in Block \cup {NoBlock} |-> IF b = NoBlock THEN -1 ELSE nHeight[b]]
Ancestors(b) == Chain[b]
Height(b) == HeightOf[b]
Heights == {Height(b) : b \in Block}

GetAncestor(b, h) ==
  LET found == {a \in Ancestors(b) : Height(a) = h}
  IN  IF found = {} THEN NoBlock ELSE CHOOSE a \in found : TRUE

Highest(S) == CHOOSE a \in S : \A x \in S : Height(x) <= Height(a)

\* Blocks form a tree under their parents: what holds of the genesis block and
\* passes from a block to its children holds of every block.
ASSUME TreeAssumption ==
  /\ Genesis \in Block /\ NoBlock \notin Block
  /\ Parent \in [Block -> Block \cup {NoBlock}] /\ Parent[Genesis] = NoBlock
  /\ \A b \in Block \ {Genesis} : Parent[b] \in Block
  /\ \A S \in SUBSET Block :
       Genesis \in S /\ (\A b \in Block \ {Genesis} : Parent[b] \in S => b \in S) => S = Block

ASSUME IndexAssumption ==
  /\ StartTip \subseteq Block
  /\ Bad \notin Block \cup {NoBlock}
  /\ MaxMoves \in Nat /\ MaxStops \in Nat

VARIABLES
  tip,          \* the tip of the active chain
  flushed,      \* the tip the chainstate database would start from
  known,        \* the blocks of the block index, in memory and on disk
  queue,        \* the validation callbacks, oldest first
  index,        \* the index in memory and its database
  synced,       \* m_synced
  pc,           \* where ThreadSync is
  pindex,       \* its local variable
  wrote,        \* it has written its locator once
  node,         \* "down", "up", "interrupted", "stopping", or "failed" to start
  wait,         \* a caller of BlockUntilSyncedToCurrentChain
  moves, stops  \* how often the chain changed, and the node stopped

vars == <<tip, flushed, known, queue, index, synced, pc, pindex, wrote, node, wait, moves, stops>>

Stats == Block \cup {Bad, NoBlock}
NoEntry == [block |-> NoBlock, stats |-> NoBlock]
NoWait == [at |-> "no", block |-> NoBlock]

Event == [kind : {"connected", "flushed", "sync"}, block : Block]
Index ==
  [best     : Block \cup {NoBlock},                           \* m_best_block_index
   muhash   : Stats,                                          \* m_muhash, the totals
   byHeight : [Heights -> [block : Block \cup {NoBlock}, stats : Stats]],
   byHash   : [Block -> Stats],
   db       : [best : Block \cup {NoBlock}, muhash : Stats],  \* DB_BEST_BLOCK, DB_MUHASH
   error    : {"none", "fatal", "abort"}]                     \* FatalError; an assertion

TypeOK ==
  /\ tip \in Block /\ flushed \in Block
  /\ known \in [memory : SUBSET Block, disk : SUBSET Block]
  /\ queue \in Seq(Event)
  /\ index \in Index
  /\ synced \in BOOLEAN /\ wrote \in BOOLEAN
  /\ pc \in {"off", "loop", "write", "append"}
  /\ pindex \in Block \cup {NoBlock}
  /\ node \in {"down", "up", "interrupted", "stopping", "failed"}
  /\ wait \in [at : {"no", "queued", "done"}, block : Block \cup {NoBlock}]
  /\ moves \in 0..MaxMoves /\ stops \in 0..MaxStops

Init ==
  /\ tip \in StartTip /\ flushed = tip
  /\ known = [memory |-> Ancestors(tip), disk |-> Ancestors(tip)]
  /\ queue = <<>>
  /\ index = [best |-> NoBlock, muhash |-> NoBlock,
              byHeight |-> [h \in Heights |-> NoEntry], byHash |-> [b \in Block |-> NoBlock],
              db |-> [best |-> NoBlock, muhash |-> NoBlock], error |-> "none"]
  /\ synced = FALSE
  /\ pc = "off" /\ pindex = NoBlock /\ wrote = FALSE
  /\ node = "down" /\ wait = NoWait
  /\ moves = 0 /\ stops = 0
-----------------------------------------------------------------------------
\* LookUpOne: the statistics of a block, NoBlock if they are not found.
LookUpOne(x, b) ==
  LET e == x.byHeight[Height(b)]
  IN  IF e.block = NoBlock THEN NoBlock ELSE IF e.block = b THEN e.stats ELSE x.byHash[b]

\* Mutant: the statistics are not in the batch.
CommitBestOnly(x) == IF x.best = NoBlock THEN x ELSE [x EXCEPT !.db.best = x.best]

\* Commit: DB_BEST_BLOCK and DB_MUHASH in one batch; nothing is written before
\* the first block is indexed.
Commit(x) ==
  IF x.best = NoBlock THEN x ELSE [x EXCEPT !.db = [best |-> x.best, muhash |-> x.muhash]]

SetBestBlockIndex(x, b) == [x EXCEPT !.best = b]

\* The statistics once a block is applied.
Applied(m, b) == IF m = Parent[b] THEN b ELSE Bad

\* Mutant: DB_MUHASH is written with every block.
CustomAppendMuhash(x, b) ==
  [x EXCEPT !.byHeight[Height(b)] = [block |-> b, stats |-> Applied(x.muhash, b)],
            !.muhash = Applied(@, b), !.db.muhash = Applied(x.muhash, b)]

\* CustomAppend: the entry of the block before must be found.
CustomAppend(x, b) ==
  IF b # Genesis /\ (\/ x.byHeight[Height(b) - 1].block = NoBlock
                     \/ LookUpOne(x, Parent[b]) = NoBlock)
    THEN [x EXCEPT !.error = "fatal"]
    ELSE [x EXCEPT !.byHeight[Height(b)] = [block |-> b, stats |-> Applied(x.muhash, b)],
                   !.muhash = Applied(@, b)]

\* Mutant: the entries of the blocks that are disconnected are not kept.
CopyHeightIndexToHashIndexNot(x, low, high) == x

CopyHeightIndexToHashIndex(x, low, high) ==
  [x EXCEPT !.byHash = [b \in Block |-> IF \E h \in low..high : x.byHeight[h].block = b
                                          THEN x.byHeight[Height(b)].stats ELSE @[b]]]

\* CustomRewind: the entries from the new tip up are copied, then the blocks are
\* taken back one by one; ReverseBlock asserts that the statistics it arrives at
\* are those of the block before.
CustomRewind(x, from, to) ==
  LET c == CopyHeightIndexToHashIndex(x, Height(to), Height(from))
  IN  IF \E h \in Height(to)..Height(from) : x.byHeight[h].block = NoBlock
        THEN [x EXCEPT !.error = "fatal"]
      ELSE IF \/ x.muhash # from
              \/ \E b \in Ancestors(from) \ Ancestors(to) : LookUpOne(c, Parent[b]) # Parent[b]
        THEN [c EXCEPT !.error = "abort"]
      ELSE [c EXCEPT !.muhash = to]

\* Rewind, its assertions included.
Rewind(x, from, to) ==
  IF from # x.best \/ GetAncestor(from, Height(to)) # to
    THEN [x EXCEPT !.error = "abort"]
    ELSE LET r == CustomRewind(x, from, to)
         IN  IF r.error # "none" THEN r ELSE Commit(SetBestBlockIndex(r, to))
-----------------------------------------------------------------------------
\* CChain::FindFork.
FindFork(b, t) == Highest(Ancestors(b) \cap Ancestors(t))

\* NextSyncBlock: the block after b, or after the fork if b is not on the chain.
NextSyncBlock(b) ==
  GetAncestor(tip, IF b = NoBlock THEN 0 ELSE Height(FindFork(b, tip)) + 1)

\* A process that hit an assertion or shut down after FatalError does nothing more.
Runs == node \in {"up", "interrupted", "stopping"} /\ index.error = "none"

\* ThreadSync is interrupted.
SyncInterrupted ==
  /\ pc = "loop" /\ node # "up"
  /\ index' = Commit(SetBestBlockIndex(index, pindex))
  /\ pc' = "off"
  /\ UNCHANGED <<tip, flushed, known, queue, synced, pindex, wrote, node, wait, moves, stops>>

\* Mutant: the thread takes the block it stopped at for the best one only later.
SyncedIndexStale == Commit(index)

\* The index when ThreadSync is level with the chain.
SyncedIndex == Commit(SetBestBlockIndex(index, pindex))

SyncDone ==
  /\ pc = "loop" /\ node = "up"
  /\ NextSyncBlock(pindex) = NoBlock
  /\ index' = SyncedIndex
  /\ synced' = TRUE
  /\ pc' = "off"
  /\ UNCHANGED <<tip, flushed, known, queue, pindex, wrote, node, wait, moves, stops>>

\* ThreadSync goes on to the next block, rewinding the index to its parent if the
\* chain was reorganized.
SyncNext ==
  /\ pc = "loop" /\ node = "up"
  /\ NextSyncBlock(pindex) # NoBlock
  /\ LET prev == Parent[NextSyncBlock(pindex)]
     IN  index' = IF prev = pindex THEN index ELSE Rewind(index, pindex, prev)
  /\ pindex' = NextSyncBlock(pindex)
  /\ pc' = "write"
  /\ UNCHANGED <<tip, flushed, known, queue, synced, wrote, node, wait, moves, stops>>

\* The first time, and every SYNC_LOCATOR_WRITE_INTERVAL, the locator is written.
SyncWrite ==
  /\ pc = "write"
  /\ \/ /\ index' = Commit(SetBestBlockIndex(index, Parent[pindex]))
        /\ wrote' = TRUE
     \/ wrote /\ UNCHANGED <<index, wrote>>
  /\ pc' = "append"
  /\ UNCHANGED <<tip, flushed, known, queue, synced, pindex, node, wait, moves, stops>>

SyncAppend ==
  /\ pc = "append"
  /\ index' = CustomAppend(index, pindex)
  /\ pc' = "loop"
  /\ UNCHANGED <<tip, flushed, known, queue, synced, pindex, wrote, node, wait, moves, stops>>

ThreadSync ==
  Runs /\ (SyncInterrupted \/ SyncDone \/ SyncNext \/ SyncWrite \/ SyncAppend)
-----------------------------------------------------------------------------
\* The oldest callback of the queue is run.
Handle(kind) ==
  /\ Runs /\ queue # <<>> /\ Head(queue).kind = kind
  /\ queue' = Tail(queue)
  /\ UNCHANGED <<tip, flushed, known, synced, pc, pindex, wrote, node, moves, stops>>

\* The index with b on top of b's parent, its best block.
Connected(x, b) ==
  LET a == CustomAppend(x, b) IN IF a.error # "none" THEN a ELSE SetBestBlockIndex(a, b)

\* Mutant: a block of the backlog that does not follow the best block is left out.
OnBlockConnectedOnTop(x, b) ==
  IF x.best # NoBlock /\ x.best # Parent[b] THEN x ELSE Connected(x, b)

\* What BlockConnected makes of the index.
OnBlockConnected(x, b) ==
  IF x.best = NoBlock
    THEN IF b # Genesis THEN [x EXCEPT !.error = "fatal"] ELSE Connected(x, b)
  ELSE IF GetAncestor(x.best, Height(b) - 1) # Parent[b] THEN x
  ELSE IF x.best = Parent[b] THEN Connected(x, b)
  ELSE LET r == Rewind(x, x.best, Parent[b])
       IN  IF r.error # "none" THEN r ELSE Connected(r, b)

BlockConnected ==
  /\ Handle("connected")
  /\ index' = IF synced THEN OnBlockConnected(index, Head(queue).block) ELSE index
  /\ UNCHANGED wait

\* ChainStateFlushed: nothing is written if the best block is not at or past the
\* block that was flushed.
ChainStateFlushed ==
  /\ Handle("flushed")
  /\ LET b == Head(queue).block
     IN  index' = IF synced /\ GetAncestor(index.best, Height(b)) = b THEN Commit(index) ELSE index
  /\ UNCHANGED wait

\* The promise of SyncWithValidationInterfaceQueue is kept.
SyncPromise ==
  /\ Handle("sync")
  /\ wait' = [wait EXCEPT !.at = "done"]
  /\ UNCHANGED index

Callback == BlockConnected \/ ChainStateFlushed \/ SyncPromise

\* The best block is at or past the tip.
IsCaughtUp == GetAncestor(index.best, Height(tip)) = tip

\* BlockUntilSyncedToCurrentChain, called once the index is synced; the caller is
\* then sure of the block that was the tip.
BlockUntilSyncedToCurrentChain ==
  /\ Runs /\ node # "stopping" /\ synced /\ wait.at = "no"
  /\ wait' = [at |-> IF IsCaughtUp THEN "done" ELSE "queued", block |-> tip]
  /\ queue' = IF IsCaughtUp THEN queue ELSE Append(queue, [kind |-> "sync", block |-> tip])
  /\ UNCHANGED <<tip, flushed, known, index, synced, pc, pindex, wrote, node, moves, stops>>
-----------------------------------------------------------------------------
\* The chain changes under cs_main and queues its notifications there.
ChainChanges ==
  /\ Runs /\ node # "stopping" /\ moves < MaxMoves
  /\ moves' = moves + 1
  /\ UNCHANGED <<index, synced, pc, pindex, wrote, node, wait, stops>>

\* ActivateBestChain: a tip with more work, and a notification for each block
\* connected.
ActivateBestChain(b) ==
  /\ ChainChanges
  /\ Height(b) > Height(tip)
  /\ LET fork == Height(FindFork(b, tip))
     IN  queue' = queue \o [i \in 1..(Height(b) - fork) |->
                              [kind |-> "connected", block |-> GetAncestor(b, fork + i)]]
  /\ tip' = b
  /\ known' = [known EXCEPT !.memory = @ \cup Ancestors(b)]
  /\ UNCHANGED flushed

\* InvalidateBlock disconnects the tip; the index is not told.
InvalidateBlock ==
  /\ ChainChanges
  /\ tip # Genesis
  /\ tip' = Parent[tip]
  /\ UNCHANGED <<queue, flushed, known>>

\* FlushStateToDisk writes the block index and the coins.
FlushStateToDisk ==
  /\ ChainChanges
  /\ flushed' = tip
  /\ known' = [known EXCEPT !.disk = known.memory]
  /\ queue' = Append(queue, [kind |-> "flushed", block |-> tip])
  /\ UNCHANGED tip
-----------------------------------------------------------------------------
\* FindForkInGlobalIndex for the locator of b, when the block index holds the
\* blocks stored.  A locator lists every block of so short a chain.
FindForkInGlobalIndex(b, stored) ==
  LET found == {a \in Ancestors(b) \cap stored :
                  a \in Ancestors(tip) \/ GetAncestor(a, Height(tip)) = tip}
  IN  IF found = {} THEN Genesis
      ELSE IF Highest(found) \in Ancestors(tip) THEN Highest(found) ELSE tip

\* Start: Init finds the best block, CustomInit the statistics that belong to it;
\* if they do not match the node does not start.  After a crash the block index
\* misses blocks that it got after its last write, which may have been later than
\* that of the coins: it holds those up to some block.
Start(last) ==
  /\ node = "down" /\ last \in known.memory
  /\ LET stored == known.disk \cup Ancestors(last)
         b == IF index.db.best = NoBlock THEN NoBlock
              ELSE FindForkInGlobalIndex(index.db.best, stored)
         x == [index EXCEPT !.best = b, !.muhash = index.db.muhash, !.error = "none"]
         ok == b = NoBlock \/ (LookUpOne(x, b) # NoBlock /\ LookUpOne(x, b) = x.muhash)
     IN  /\ known' = [memory |-> stored, disk |-> stored]
         /\ index' = x
         /\ synced' = (b = tip)
         /\ pindex' = b
         /\ pc' = IF ok /\ b # tip THEN "loop" ELSE "off"
         /\ node' = IF ok THEN "up" ELSE "failed"
  /\ wrote' = FALSE
  /\ UNCHANGED <<tip, flushed, queue, wait, moves, stops>>

\* The process is gone; what was flushed is left.
Ends ==
  /\ node' = "down"
  /\ tip' = flushed
  /\ queue' = <<>> /\ pc' = "off" /\ wait' = NoWait
  /\ UNCHANGED <<flushed, known, index, synced, pindex, wrote, moves>>

Crash ==
  /\ Runs /\ stops < MaxStops
  /\ stops' = stops + 1
  /\ Ends

\* An assertion has failed.
Abort ==
  /\ node # "down" /\ index.error = "abort"
  /\ Ends
  /\ UNCHANGED stops

\* A shutdown is requested: the thread is interrupted ...
Interrupt ==
  /\ Runs /\ node = "up" /\ stops < MaxStops
  /\ stops' = stops + 1
  /\ node' = "interrupted"
  /\ UNCHANGED <<tip, flushed, known, queue, index, synced, pc, pindex, wrote, wait, moves>>

\* ... the state is flushed once the chain no longer changes ...
FlushAtShutdown ==
  /\ Runs /\ node = "interrupted"
  /\ flushed' = tip
  /\ known' = [known EXCEPT !.disk = known.memory]
  /\ queue' = Append(queue, [kind |-> "flushed", block |-> tip])
  /\ node' = "stopping"
  /\ UNCHANGED <<tip, index, synced, pc, pindex, wrote, wait, moves, stops>>

\* ... and the index stops once the queue is empty and its thread has ended.
Stop ==
  /\ Runs /\ node = "stopping" /\ queue = <<>> /\ pc = "off"
  /\ Ends
  /\ UNCHANGED stops

Shutdown == FlushAtShutdown \/ Stop \/ Abort

Next ==
  \/ ThreadSync \/ Callback \/ BlockUntilSyncedToCurrentChain
  \/ (\E b \in Block : ActivateBestChain(b)) \/ InvalidateBlock \/ FlushStateToDisk
  \/ \E last \in Block : Start(last)
  \/ Crash \/ Interrupt \/ Shutdown

Spec == Init /\ [][Next]_vars

\* The thread and the queue make progress; a node that stopped starts again and
\* a shutdown goes on.
FairSpec ==
  /\ Spec
  /\ WF_vars(ThreadSync) /\ WF_vars(Callback)
  /\ WF_vars(Shutdown) /\ WF_vars(\E last \in Block : Start(last))
-----------------------------------------------------------------------------
Started == node \in {"up", "interrupted", "stopping"}

\* The statistics found for a block are its own, and those of every block up to
\* the best one are found, however blocks were connected, rewound, overwritten,
\* and forgotten by a crash.  "DB_MUHASH should always be committed in a batch
\* together with DB_BEST_BLOCK to prevent an inconsistent state of the DB."
StatsExact ==
  /\ \A b \in Block : LookUpOne(index, b) \in {NoBlock, b}
  /\ Started => \A b \in Ancestors(index.best) : LookUpOne(index, b) = b
  /\ index.db.muhash = index.db.best

\* Callbacks of a stale branch that are still queued when ThreadSync has caught
\* up neither make the index stop the node nor keep it from following the chain:
\* once the queue is empty the index is level with the chain, or ahead of a chain
\* that was cut back.
SyncedWhenDrained ==
  /\ index.error # "fatal"
  /\ Started /\ synced /\ queue = <<>> => IsCaughtUp

\* When BlockUntilSyncedToCurrentChain returns true, the block that was the tip
\* is found from then on, even if it is no longer on the chain.
WaitKeepsPromise == wait.at = "done" => LookUpOne(index, wait.block) = wait.block

\* Once the chain is quiet the index catches up with it, if it starts at all.
CatchesUp == <>[](node = "failed" \/ (node = "up" /\ synced /\ IsCaughtUp /\ queue = <<>>))

\* "Intentionally do not update DB_MUHASH here so it stays in sync with
\* DB_BEST_BLOCK, and the index is not corrupted if there is an unclean shutdown."
StartsAgain == node # "failed"

\* assert(current_tip == m_best_block_index), in Rewind.
RewindAsserts == index.error # "abort"
=============================================================================
