----------------------------- MODULE BlockFiles -----------------------------
(***************************************************************************)
(* BlockManager (node/blockstorage.cpp): blocks go to blk files as they    *)
(* arrive, undo data goes to the rev file of the same number when a block  *)
(* is connected, the block index says where they are, and pruning takes    *)
(* whole file pairs away.  FlushStateToDisk writes the three stores in an  *)
(* order that a crash must be able to cut anywhere: files, index, coins.   *)
(*                                                                         *)
(* A file's size is its number of blocks, a position is <<block, file>>.   *)
(* Headers are known from the start.  The coins database is its markers;   *)
(* CoinsReplay has its content.  Everything runs under cs_main.            *)
(***************************************************************************)
EXTENDS Integers, FiniteSets, FiniteSetsExt

CONSTANTS
  Block, Genesis, Parent, NoBlock,
  MaxBlockfileSize,    \* blocks that fit a file
  MaxFile,             \* bound: the highest file number
  PruneMode,
  PruneAfterHeight,    \* CChainParams::nPruneAfterHeight
  MinBlocksToKeep,     \* MIN_BLOCKS_TO_KEEP, an unsigned int
  UIntRange,           \* 2^32, or any range that no height reaches
  MaxCrashes,          \* bounds on what a behaviour may meet
  MaxPowerLosses

VARIABLES
  index,       \* m_block_index: nStatus and nFile of each block
  info,        \* m_blockfile_info
  last,        \* m_last_blockfile
  dirtyBlocks, \* m_dirty_blockindex
  dirtyFiles,  \* m_dirty_fileinfo
  tip,         \* m_chain.Tip()
  disk,        \* blocks/index: what was written of index, info and last
  blk, rev,    \* <<block, file>> pairs in the blk and rev files
  blkSynced,   \* the ones that a power loss leaves
  revSynced,
  coinsDB,     \* chainstate/: DB_BEST_BLOCK and DB_HEAD_BLOCKS
  coinsKept,   \* what a power loss leaves of them
  pc,          \* where FlushStateToDisk is; "run" outside, "down" when crashed
  toUnlink,    \* setFilesToPrune
  fullFlush,   \* fDoFullFlush
  crashes, powerLosses

memory == <<index, info, last, dirtyBlocks, dirtyFiles, tip>>
files == <<blk, rev, blkSynced, revSynced>>
coinsVars == <<coinsDB, coinsKept>>
flushVars == <<pc, toUnlink, fullFlush>>
counters == <<crashes, powerLosses>>
vars == <<memory, disk, files, coinsVars, flushVars, counters>>

File == 0..MaxFile
Height[b \in Block] == IF b = Genesis THEN 0 ELSE Height[Parent[b]] + 1
Ancestors[b \in Block] == IF b = Genesis THEN {b} ELSE {b} \cup Ancestors[Parent[b]]
Branch(b) == IF b = NoBlock THEN {} ELSE Ancestors[b]

\* nStatus & (BLOCK_HAVE_DATA | BLOCK_HAVE_UNDO), nFile; CBlockFileInfo.
IndexEntry == [have : SUBSET {"DATA", "UNDO"}, file : File]
NoData == [have |-> {}, file |-> 0]
FileInfo == [size : 0..MaxBlockfileSize, heightLast : {Height[b] : b \in Block}]
NullInfo == [size |-> 0, heightLast |-> 0]
IndexDB == [index : [Block -> IndexEntry], info : [File -> FileInfo], last : File]
CoinsDB == [best : Block \cup {NoBlock}, heads : {<<>>} \cup (Block \X Block)]

ASSUME BlockFilesAssumption ==
  /\ Genesis \in Block /\ NoBlock \notin Block
  /\ Parent \in [Block \ {Genesis} -> Block]
  /\ MaxBlockfileSize \in Nat \ {0}
  /\ {MaxFile, PruneAfterHeight, MinBlocksToKeep, UIntRange, MaxCrashes,
      MaxPowerLosses} \subseteq Nat
  /\ PruneMode \in BOOLEAN
  /\ \A b \in Block : Height[b] + MinBlocksToKeep < UIntRange

\* pprev leads to the genesis block from everywhere, so that the two recursive
\* functions are defined by their equations.
ASSUME TreeAssumption ==
  /\ Height \in [Block -> Nat] /\ Ancestors \in [Block -> SUBSET Block]
  /\ Height[Genesis] = 0 /\ Ancestors[Genesis] = {Genesis}
  /\ \A b \in Block : Genesis \in Ancestors[b]
  /\ \A b \in Block \ {Genesis} :
       /\ Height[b] = Height[Parent[b]] + 1
       /\ Ancestors[b] = {b} \cup Ancestors[Parent[b]]

TypeOK ==
  /\ index \in [Block -> IndexEntry]
  /\ info \in [File -> FileInfo]
  /\ last \in File
  /\ dirtyBlocks \subseteq Block /\ dirtyFiles \subseteq File
  /\ tip \in Block
  /\ disk \in IndexDB
  /\ blk \subseteq Block \X File /\ blkSynced \subseteq blk
  /\ rev \subseteq Block \X File /\ revSynced \subseteq rev
  /\ coinsDB \in CoinsDB /\ coinsKept \in CoinsDB
  /\ pc \in {"run", "index", "unlink", "coins", "down"}
  /\ toUnlink \subseteq File
  /\ fullFlush \in BOOLEAN
  /\ crashes \in 0..MaxCrashes /\ powerLosses \in 0..MaxPowerLosses

HaveData(i, b) == "DATA" \in i[b].have
HaveUndo(i, b) == "UNDO" \in i[b].have
InFile(S, f) == {p \in S : p[2] = f}
ToUInt(n) == n % UIntRange
-----------------------------------------------------------------------------
\* A node that has stored, connected and flushed the genesis block.
Init ==
  /\ index = [b \in Block |-> IF b = Genesis THEN [have |-> {"DATA"}, file |-> 0] ELSE NoData]
  /\ info = [f \in File |-> IF f = 0 THEN [size |-> 1, heightLast |-> 0] ELSE NullInfo]
  /\ last = 0
  /\ dirtyBlocks = {} /\ dirtyFiles = {}
  /\ tip = Genesis
  /\ disk = [index |-> index, info |-> info, last |-> last]
  /\ blk = {<<Genesis, 0>>} /\ blkSynced = blk
  /\ rev = {} /\ revSynced = {}
  /\ coinsDB = [best |-> Genesis, heads |-> <<>>] /\ coinsKept = coinsDB
  /\ pc = "run" /\ toUnlink = {} /\ fullFlush = FALSE
  /\ crashes = 0 /\ powerLosses = 0

\* FindBlockPos, position not known: the file for the next block.
FindBlockFile == IF info[last].size >= MaxBlockfileSize THEN last + 1 ELSE last

\* finalize_undo: the undo file kept up with the block file.
FinalizeUndo == info[last].heightLast = Height[tip]

\* Mutant: does not flush the file it leaves.
LeaveBlockFileUnflushed(f) == UNCHANGED <<blkSynced, revSynced>>

\* FlushBlockFile(true, finalize_undo) when the block goes to another file.
LeaveBlockFile(f) ==
  /\ blkSynced' = IF f # last THEN blkSynced \cup InFile(blk, last) ELSE blkSynced
  /\ revSynced' = IF f # last /\ FinalizeUndo THEN revSynced \cup InFile(rev, last)
                                              ELSE revSynced

\* CBlockFileInfo::AddBlock and the nSize update of FindBlockPos.
WithBlock(i, b) ==
  [size |-> i.size + 1,
   heightLast |-> IF Height[b] > i.heightLast THEN Height[b] ELSE i.heightLast]

\* AcceptBlock: SaveBlockToDisk, then ReceivedBlockTransactions.
AcceptBlock(b) ==
  LET f == FindBlockFile IN
  /\ pc = "run"
  /\ ~HaveData(index, b)
  /\ f <= MaxFile
  /\ LeaveBlockFile(f)
  /\ last' = f
  /\ info' = [info EXCEPT ![f] = WithBlock(@, b)]
  /\ dirtyFiles' = dirtyFiles \cup {f}
  /\ blk' = blk \cup {<<b, f>>}
  /\ index' = [index EXCEPT ![b] = [have |-> {"DATA"}, file |-> f]]
  /\ dirtyBlocks' = dirtyBlocks \cup {b}
  /\ UNCHANGED <<tip, disk, rev, coinsVars, flushVars, counters>>

\* Mutant: records the undo position in memory only.
WriteUndoDataForBlockNotDirty(b) ==
  LET f == index[b].file IN
  /\ rev' = rev \cup {<<b, f>>}
  /\ index' = [index EXCEPT ![b].have = @ \cup {"UNDO"}]
  /\ UNCHANGED <<dirtyBlocks, dirtyFiles, revSynced>>

\* WriteUndoDataForBlock; the rev file of an earlier number is flushed only
\* with the undo data of the highest block of its blk file.
WriteUndoDataForBlock(b) ==
  LET f == index[b].file IN
  IF HaveUndo(index, b) THEN UNCHANGED <<rev, revSynced, index, dirtyBlocks, dirtyFiles>>
  ELSE /\ rev' = rev \cup {<<b, f>>}
       /\ revSynced' = IF f < last /\ Height[b] = info[f].heightLast
                         THEN revSynced \cup InFile(rev', f) ELSE revSynced
       /\ index' = [index EXCEPT ![b].have = @ \cup {"UNDO"}]
       /\ dirtyBlocks' = dirtyBlocks \cup {b}
       /\ dirtyFiles' = dirtyFiles \cup {f}

ConnectTip(b) ==
  /\ pc = "run"
  /\ b # Genesis /\ tip = Parent[b]
  /\ HaveData(index, b)
  /\ WriteUndoDataForBlock(b)
  /\ tip' = b
  /\ UNCHANGED <<info, last, disk, blk, blkSynced, coinsVars, flushVars, counters>>

\* DisconnectTip reads the block and its undo data, and fails without them.
DisconnectTip ==
  /\ pc = "run"
  /\ tip # Genesis
  /\ HaveData(index, tip) /\ <<tip, index[tip].file>> \in blk
  /\ HaveUndo(index, tip) /\ <<tip, index[tip].file>> \in rev
  /\ tip' = Parent[tip]
  /\ UNCHANGED <<index, info, last, dirtyBlocks, dirtyFiles, disk, files,
                 coinsVars, flushVars, counters>>
-----------------------------------------------------------------------------
\* nLastBlockWeCanPrune, an unsigned int: the difference wraps around when the
\* chain is shorter than MIN_BLOCKS_TO_KEEP.
LastBlockWeCanPrune(pruneHeight) ==
  ToUInt(Min({pruneHeight, Height[tip] - MinBlocksToKeep}))
LastBlockWeCanPruneManual(pruneHeight) ==
  Min({pruneHeight, ToUInt(Height[tip] - MinBlocksToKeep)})

\* Mutant: also the files that hold the limit's successor.
PrunableOffByOne(limit) ==
  {f \in 0..(last - 1) : info[f].size # 0 /\ info[f].heightLast <= limit + 1}

Prunable(limit) == {f \in 0..(last - 1) : info[f].size # 0 /\ info[f].heightLast <= limit}

\* FindFilesToPrune takes files from the lowest number on until usage is under
\* the target, which may be after any of them.
FindFilesToPrune ==
  IF Height[tip] <= PruneAfterHeight THEN {{}}
  ELSE {{f \in Prunable(LastBlockWeCanPrune(Height[tip])) : f < k} : k \in File}

\* pruneblockchain, then FindFilesToPruneManual.
FindFilesToPruneManual ==
  IF Height[tip] < PruneAfterHeight THEN {{}}
  ELSE {Prunable(LastBlockWeCanPruneManual(h)) : h \in 1..Height[tip]}

FilesToPrune == IF PruneMode THEN FindFilesToPrune \cup FindFilesToPruneManual ELSE {{}}

\* PruneOneBlockFile for each file of S.
PruneBlockFiles(S) ==
  LET hit == {b \in Block : index[b].file \in S} IN
  /\ index' = [b \in Block |-> IF b \in hit THEN NoData ELSE index[b]]
  /\ dirtyBlocks' = dirtyBlocks \cup hit
  /\ info' = [f \in File |-> IF f \in S THEN NullInfo ELSE info[f]]
  /\ dirtyFiles' = dirtyFiles \cup S

\* Mutant: a full flush writes the coins first.
AfterFilesCoins(full) == IF full THEN "coins" ELSE "index"

\* What FlushStateToDisk writes once the files are flushed.
AfterFiles(full) == "index"

\* FlushStateToDisk up to and with FlushBlockFile(), for a periodic write or a
\* full flush.  Pruning forces a full flush.
FlushStateToDisk(S, full) ==
  /\ pc = "run"
  /\ S \in FilesToPrune
  /\ S # {} => full
  /\ PruneBlockFiles(S)
  /\ toUnlink' = S
  /\ fullFlush' = full
  /\ blkSynced' = blkSynced \cup InFile(blk, last)
  /\ revSynced' = revSynced \cup InFile(rev, last)
  /\ pc' = AfterFiles(full)
  /\ UNCHANGED <<last, tip, disk, blk, rev, coinsVars, counters>>

\* What WriteBatchSync makes of the index database.
WithDirty ==
  [index |-> [b \in Block |-> IF b \in dirtyBlocks THEN index[b] ELSE disk.index[b]],
   info |-> [f \in File |-> IF f \in dirtyFiles THEN info[f] ELSE disk.info[f]],
   last |-> last]

\* Mutant: unlinks before the index is written.
WriteBlockIndexDBLate ==
  /\ pc = "index"
  /\ blk' = {p \in blk : p[2] \notin toUnlink}
  /\ rev' = {p \in rev : p[2] \notin toUnlink}
  /\ blkSynced' = blkSynced \cap blk' /\ revSynced' = revSynced \cap rev'
  /\ pc' = "unlink"
  /\ UNCHANGED <<index, info, last, tip, dirtyBlocks, dirtyFiles, disk, coinsVars,
                 toUnlink, fullFlush, counters>>

WriteBlockIndexDB ==
  /\ pc = "index"
  /\ disk' = WithDirty
  /\ dirtyBlocks' = {} /\ dirtyFiles' = {}
  /\ pc' = "unlink"
  /\ UNCHANGED <<index, info, last, tip, files, coinsVars, toUnlink, fullFlush, counters>>

Unlinked(S) ==
  /\ blk' = {p \in blk : p[2] \notin S}
  /\ rev' = {p \in rev : p[2] \notin S}
  /\ blkSynced' = blkSynced \cap blk'
  /\ revSynced' = revSynced \cap rev'

UnlinkPrunedFiles ==
  /\ pc = "unlink"
  /\ Unlinked(toUnlink)
  /\ toUnlink' = {}
  /\ pc' = IF fullFlush THEN "coins" ELSE "run"
  /\ UNCHANGED <<memory, disk, coinsVars, fullFlush, counters>>

\* CoinsTip().Flush(): partial batches with the mark of the transition, then
\* the final one.
WriteCoinsPartly ==
  /\ pc = "coins"
  /\ coinsDB.heads = <<>>
  /\ coinsDB' = [best |-> NoBlock, heads |-> <<tip, coinsDB.best>>]
  /\ UNCHANGED <<memory, disk, files, coinsKept, flushVars, counters>>

WriteCoins ==
  /\ pc = "coins"
  /\ coinsDB' = [best |-> tip, heads |-> <<>>]
  /\ pc' = "run" /\ fullFlush' = FALSE
  /\ UNCHANGED <<memory, disk, files, coinsKept, toUnlink, counters>>

\* The coins batches are not synced; they reach the disk in order, some time.
WriteBehind ==
  /\ MaxPowerLosses > 0
  /\ coinsKept # coinsDB
  /\ coinsKept' = coinsDB
  /\ UNCHANGED <<memory, disk, files, coinsDB, flushVars, counters>>
-----------------------------------------------------------------------------
Stopped ==
  /\ pc' = "down" /\ toUnlink' = {} /\ fullFlush' = FALSE
  /\ UNCHANGED <<memory, disk>>

Crash ==
  /\ pc # "down"
  /\ crashes < MaxCrashes /\ crashes' = crashes + 1
  /\ Stopped
  /\ UNCHANGED <<files, coinsVars, powerLosses>>

PowerLoss ==
  /\ powerLosses < MaxPowerLosses /\ powerLosses' = powerLosses + 1
  /\ Stopped
  /\ blk' = blkSynced /\ rev' = revSynced
  /\ coinsDB' = coinsKept
  /\ UNCHANGED <<blkSynced, revSynced, coinsKept, crashes>>

\* Blocks that ReplayBlocks reads, and the ones whose undo data it reads.
ReplayReads(d) == IF d.heads = <<>> THEN {}
                  ELSE SymDiff(Branch(d.heads[1]), Branch(d.heads[2]))
ReplayUndoes(d) == IF d.heads = <<>> THEN {}
                   ELSE Branch(d.heads[2]) \ Branch(d.heads[1])
OnDisk(S, flag, b) == flag \in disk.index[b].have /\ <<b, disk.index[b].file>> \in S
Replayable(d) ==
  /\ \A b \in ReplayReads(d) : OnDisk(blk, "DATA", b)
  /\ \A b \in ReplayUndoes(d) : OnDisk(rev, "UNDO", b)

\* LoadBlockIndexDB, ScanAndUnlinkAlreadyPrunedFiles, ReplayBlocks,
\* LoadChainTip.  Bytes that no index entry refers to will be overwritten: they
\* are gone.
Start ==
  LET new == IF coinsDB.heads = <<>> THEN coinsDB.best ELSE coinsDB.heads[1]
      referred == {<<b, disk.index[b].file>> : b \in {x \in Block : HaveData(disk.index, x)}}
      undone == {<<b, disk.index[b].file>> : b \in {x \in Block : HaveUndo(disk.index, x)}}
  IN
  /\ pc = "down"
  /\ Replayable(coinsDB)
  /\ index' = disk.index /\ info' = disk.info /\ last' = disk.last
  /\ dirtyBlocks' = {} /\ dirtyFiles' = {}
  /\ tip' = new
  /\ coinsDB' = [best |-> new, heads |-> <<>>]
  /\ blk' = blk \cap referred /\ blkSynced' = blkSynced \cap referred
  /\ rev' = rev \cap undone /\ revSynced' = revSynced \cap undone
  /\ pc' = "run"
  /\ UNCHANGED <<disk, coinsKept, toUnlink, fullFlush, counters>>

Next ==
  \/ \E b \in Block : AcceptBlock(b)
  \/ \E b \in Block : ConnectTip(b)
  \/ DisconnectTip
  \/ \E S \in SUBSET File, full \in BOOLEAN : FlushStateToDisk(S, full)
  \/ WriteBlockIndexDB
  \/ UnlinkPrunedFiles
  \/ WriteCoinsPartly
  \/ WriteCoins
  \/ WriteBehind
  \/ Crash
  \/ PowerLoss
  \/ Start

Spec == Init /\ [][Next]_vars
-----------------------------------------------------------------------------
\* Whatever the index says is stored can be read: the index in memory while the
\* node runs, the index on disk at any moment the process may die or the power
\* may fail, in the middle of a prune too.  Undo files are not flushed before
\* the index: their data may be lost with the power.
IndexReadable ==
  \A i \in {disk.index} \cup (IF pc = "down" THEN {} ELSE {index}) :
    \A b \in Block :
      /\ HaveData(i, b) => <<b, i[b].file>> \in blk
      /\ HaveUndo(i, b) /\ powerLosses = 0 => <<b, i[b].file>> \in rev

\* The index that reached the disk refers only to block data that did: every
\* blk file is flushed when it is left, and the last one before the index.
IndexedDataSurvives ==
  \A b \in Block : HaveData(disk.index, b) => <<b, disk.index[b].file>> \in blkSynced

\* Every change to an index entry or a file's record is in a dirty set until it
\* is written: what is not dirty is on disk as it is in memory.
CleanIsOnDisk ==
  pc # "down" =>
    /\ \A b \in Block \ dirtyBlocks : index[b] = disk.index[b]
    /\ \A f \in File \ dirtyFiles : info[f] = disk.info[f]

\* A file below the last is full until it is pruned.
NothingPruned == \A f \in 0..(disk.last - 1) : disk.info[f].size # 0

\* As long as nothing was pruned, the coins database never names a block whose
\* branch is not all in the index on disk and in the files, whatever is cut off
\* when: the coins are written after the index, the index after the files.
CoinsAreBehindIndex ==
  NothingPruned =>
    \A d \in {coinsDB, coinsKept} :
      \A h \in {d.best} \cup {d.heads[i] : i \in DOMAIN d.heads} :
        \A b \in Branch(h) : OnDisk(blk, "DATA", b)

\* As long as nothing was pruned, a process that died at any moment can be
\* started: ReplayBlocks finds all the blocks and the undo data it reads.
RestartPossible == NothingPruned /\ powerLosses = 0 => Replayable(coinsDB)

\* blockstorage.h: "Pruning will never delete a block within a defined distance
\* (currently 288) from the active chain's tip."
PruneSparesRecent ==
  [][\A b \in Block :
       pc = "run" /\ HaveData(index, b) /\ ~HaveData(index', b)
         => Height[b] + MinBlocksToKeep <= Height[tip]]_vars
=============================================================================
