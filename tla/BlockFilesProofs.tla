-------------------------- MODULE BlockFilesProofs --------------------------
(***************************************************************************)
(* Proofs about BlockFiles, for every tree of blocks, file size, number of *)
(* files, prune setting and number of crashes and power losses.            *)
(*                                                                         *)
(* The inductive invariant says of both copies of the index, the one in    *)
(* memory and the one on disk, that what they refer to is in the files and *)
(* that the file records cover it (Sound); that the disk's copy needs only *)
(* data that is synced; and which of the two copies FlushStateToDisk has   *)
(* already cut loose from the files it is about to unlink (FlushOK).       *)
(***************************************************************************)
EXTENDS BlockFiles, TLAPS

\* An index with its file records and its last file fits the files.
Sound(i, n, l) ==
  /\ \A b \in Block : HaveData(i, b) =>
       /\ i[b].file <= l
       /\ Height[b] <= n[i[b].file].heightLast
       /\ <<b, i[b].file>> \in blk
  /\ \A b \in Block : HaveUndo(i, b) /\ powerLosses = 0 => <<b, i[b].file>> \in rev
  /\ \A f \in File : f > l => n[f] = NullInfo

DiskOK == Sound(disk.index, disk.info, disk.last) /\ IndexedDataSurvives

\* In memory only the last file may hold blocks that are not synced, and that
\* only until FlushStateToDisk begins.
MemoryOK ==
  pc # "down" =>
    /\ Sound(index, info, last)
    /\ \A b \in Block :
         HaveData(index, b) /\ (index[b].file # last \/ pc # "run")
           => <<b, index[b].file>> \in blkSynced

FlushOK ==
  /\ pc \in {"index", "unlink"} =>
       \A b \in Block : index[b].have # {} => index[b].file \notin toUnlink
  /\ pc \in {"unlink", "coins"} => dirtyBlocks = {} /\ dirtyFiles = {}

\* The blocks that a state of the coins database names.
Named(d) == {d.best} \cup {d.heads[i] : i \in DOMAIN d.heads}

CoinsOK ==
  /\ coinsDB.heads = <<>> => coinsDB.best \in Block
  /\ coinsKept.heads = <<>> => coinsKept.best \in Block

\* The data of a block and of its undoing is in an index.
Stored(i, b) == HaveData(i, b) /\ (b # Genesis => HaveUndo(i, b))

\* Without pruning the index on disk has all of every branch that the coins
\* name, and the index in memory has this and the active chain.
BranchOK ==
  ~PruneMode =>
    /\ \A d \in {coinsDB, coinsKept} : \A h \in Named(d) : \A b \in Branch(h) :
         Stored(disk.index, b)
    /\ pc # "down" =>
         /\ \A b \in Branch(tip) : Stored(index, b)
         /\ \A b \in Block : Stored(disk.index, b) => Stored(index, b)

IInv == TypeOK /\ DiskOK /\ MemoryOK /\ CleanIsOnDisk /\ FlushOK /\ CoinsOK /\ BranchOK
-----------------------------------------------------------------------------
\* The smaller of two numbers.
LEMMA MinLemma ==
  ASSUME NEW m \in Int, NEW n \in Int
  PROVE  Min({m, n}) \in {m, n} /\ Min({m, n}) <= m /\ Min({m, n}) <= n
<1>1. \E x \in {m, n} : \A y \in {m, n} : x <= y
  <2>1. CASE m <= n  BY <2>1
  <2>2. CASE n <= m  BY <2>2
  <2> QED  BY <2>1, <2>2
<1> QED  BY <1>1 DEF Min

\* A number below the range of an unsigned int is converted to itself.
LEMMA ModLemma ==
  ASSUME NEW n \in Nat, NEW r \in Nat, n < r
  PROVE  n % r = n
BY Z3

\* The order of the integers, for heights and limits.
LEMMA TransitivityLemma ==
  ASSUME NEW x \in Int, NEW y \in Int, NEW z \in Int, x <= y, y <= z
  PROVE  x <= z
OBVIOUS

\* The numbers among the constants.
LEMMA NumberLemma ==
  /\ MaxFile \in Nat /\ PruneAfterHeight \in Nat /\ MinBlocksToKeep \in Nat
  /\ UIntRange \in Nat /\ MaxCrashes \in Nat /\ MaxPowerLosses \in Nat
BY BlockFilesAssumption

\* The heights that the file records hold.
LEMMA HeightLastLemma ==
  ASSUME NEW i \in FileInfo
  PROVE  i.heightLast \in Nat
BY TreeAssumption DEF FileInfo

\* The blocks of a branch.
LEMMA BranchLemma ==
  /\ \A b \in Block \ {Genesis} : Branch(b) = {b} \cup Branch(Parent[b])
  /\ Branch(Genesis) = {Genesis} /\ Branch(NoBlock) = {}
  /\ \A b \in Block : Branch(b) \subseteq Block
<1>1. ASSUME NEW b \in Block \ {Genesis}
      PROVE  Branch(b) = {b} \cup Branch(Parent[b])
  <2>1. Parent[b] \in Block /\ Parent[b] # NoBlock /\ b # NoBlock
    BY BlockFilesAssumption
  <2>2. Ancestors[b] = {b} \cup Ancestors[Parent[b]]
    BY TreeAssumption
  <2> QED BY <2>1, <2>2 DEF Branch
<1>2. Branch(Genesis) = {Genesis} /\ Branch(NoBlock) = {}
  BY BlockFilesAssumption, TreeAssumption DEF Branch
<1>3. \A b \in Block : Branch(b) \subseteq Block
  BY TreeAssumption DEF Branch
<1> QED BY <1>1, <1>2, <1>3

\* What the two markers of the coins database can name.
LEMMA NamedLemma ==
  ASSUME NEW d \in CoinsDB
  PROVE  /\ d.heads = <<>> => Named(d) = {d.best}
         /\ d.heads # <<>> => /\ d.heads[1] \in Block /\ d.heads[2] \in Block
                              /\ Named(d) = {d.best, d.heads[1], d.heads[2]}
         /\ Named(d) \subseteq Block \cup {NoBlock}
BY DEF Named, CoinsDB

\* The node that has stored and flushed the genesis block.
LEMMA InitLemma ==
  Init => IInv
<1> SUFFICES ASSUME Init PROVE IInv
  OBVIOUS
<1> USE BlockFilesAssumption, TreeAssumption
<1>1. 0 \in File /\ 0 \in {Height[b] : b \in Block} /\ 1 \in 0..MaxBlockfileSize
  BY DEF File
<1>2. TypeOK
  <2>1. index \in [Block -> IndexEntry] /\ info \in [File -> FileInfo] /\ last \in File
    BY <1>1 DEF Init, IndexEntry, NoData, FileInfo, NullInfo
  <2>2. disk \in IndexDB
    BY <2>1 DEF Init, IndexDB
  <2>3. coinsDB \in CoinsDB /\ coinsKept = coinsDB
    BY DEF Init, CoinsDB
  <2>4. blk \subseteq Block \X File /\ rev = {} /\ tip \in Block
    BY <1>1 DEF Init
  <2>5. crashes \in 0..MaxCrashes /\ powerLosses \in 0..MaxPowerLosses
    BY DEF Init
  <2> HIDE BlockFilesAssumption, TreeAssumption
  <2> QED BY <2>1, <2>2, <2>3, <2>4, <2>5 DEF Init, TypeOK
<1>3. Sound(index, info, last)
  BY <1>1 DEF Init, Sound, HaveData, HaveUndo, NoData, NullInfo
<1>4. IndexedDataSurvives
  BY DEF Init, IndexedDataSurvives, HaveData, NoData
<1>5. DiskOK /\ MemoryOK
  BY <1>3, <1>4 DEF DiskOK, MemoryOK, Init, IndexedDataSurvives
<1>6. CleanIsOnDisk /\ FlushOK /\ CoinsOK
  BY DEF Init, CleanIsOnDisk, FlushOK, CoinsOK
<1>7. BranchOK
  <2>1. coinsDB \in CoinsDB /\ coinsDB.heads = <<>> /\ coinsDB.best = Genesis /\ coinsKept = coinsDB
    BY DEF Init, CoinsDB
  <2>2. HaveData(index, Genesis) /\ disk.index = index /\ tip = Genesis
    BY DEF Init, HaveData
  <2>3. Named(coinsDB) = {Genesis}
    BY <2>1, NamedLemma
  <2> QED BY <2>1, <2>2, <2>3, BranchLemma DEF BranchOK, Stored, HaveData
<1> QED BY <1>2, <1>5, <1>6, <1>7 DEF IInv
-----------------------------------------------------------------------------
\* Steps that leave the disk's index, the files and the coins alone.
LEMMA DiskKeptLemma ==
  ASSUME IInv, UNCHANGED <<disk, powerLosses>>,
         blk \subseteq blk', rev \subseteq rev', blkSynced \subseteq blkSynced'
  PROVE  DiskOK'
BY DEF IInv, DiskOK, Sound, IndexedDataSurvives

\* AcceptBlock: the new entry refers to the bytes just written, the file it
\* leaves is synced, and entry and record are dirty.
LEMMA AcceptBlockLemma ==
  ASSUME IInv, NEW b \in Block, AcceptBlock(b)
  PROVE  IInv'
<1> DEFINE f == FindBlockFile
<1>1. /\ f \in File /\ f \in {last, last + 1} /\ info[f].size < MaxBlockfileSize
      /\ last \in Nat /\ last \in File
  <2>1. last \in File /\ info[last] \in FileInfo
    BY DEF IInv, TypeOK
  <2>2. f \in {last, last + 1} /\ f <= MaxFile
    BY DEF FindBlockFile, AcceptBlock
  <2>3. f \in File
    BY <2>1, <2>2, BlockFilesAssumption DEF File
  <2>4. CASE info[last].size >= MaxBlockfileSize
    <3>1. f = last + 1
      BY <2>4 DEF FindBlockFile
    <3>2. info[f] = NullInfo
      BY <2>1, <2>3, <3>1 DEF IInv, MemoryOK, Sound, AcceptBlock, File
    <3> QED BY <2>1, <2>2, <2>3, <3>2, BlockFilesAssumption DEF NullInfo, File
  <2>5. CASE ~(info[last].size >= MaxBlockfileSize)
    BY <2>1, <2>3, <2>5, BlockFilesAssumption DEF FindBlockFile, FileInfo, File
  <2> QED BY <2>4, <2>5
<1> HIDE DEF f
<1>2. /\ pc = "run" /\ ~HaveData(index, b) /\ LeaveBlockFile(f)
      /\ last' = f
      /\ info' = [info EXCEPT ![f] = WithBlock(@, b)]
      /\ dirtyFiles' = dirtyFiles \cup {f}
      /\ blk' = blk \cup {<<b, f>>}
      /\ index' = [index EXCEPT ![b] = [have |-> {"DATA"}, file |-> f]]
      /\ dirtyBlocks' = dirtyBlocks \cup {b}
      /\ UNCHANGED <<tip, disk, rev, coinsDB, coinsKept, pc, toUnlink, fullFlush,
                     crashes, powerLosses>>
  BY DEF f, AcceptBlock, coinsVars, flushVars, counters
<1>3. /\ blkSynced \subseteq blkSynced' /\ blkSynced' \subseteq blk'
      /\ revSynced \subseteq revSynced' /\ revSynced' \subseteq rev'
      /\ f # last => InFile(blk, last) \subseteq blkSynced'
  BY <1>2 DEF LeaveBlockFile, InFile, IInv, TypeOK
<1>4. /\ info[f] \in FileInfo /\ info'[f] = WithBlock(info[f], b)
      /\ \A g \in File : g # f => info'[g] = info[g]
      /\ index'[b] = [have |-> {"DATA"}, file |-> f]
      /\ \A c \in Block : c # b => index'[c] = index[c]
  BY <1>1, <1>2 DEF IInv, TypeOK
<1>5. /\ WithBlock(info[f], b) \in FileInfo
      /\ Height[b] <= WithBlock(info[f], b).heightLast
      /\ info[f].heightLast <= WithBlock(info[f], b).heightLast
  <2>1. /\ info[f].size + 1 \in 0..MaxBlockfileSize
        /\ info[f].heightLast \in {Height[c] : c \in Block}
    BY <1>1, <1>4, BlockFilesAssumption DEF FileInfo
  <2>2. WithBlock(info[f], b) \in FileInfo
    BY <2>1 DEF WithBlock, FileInfo
  <2>3. Height[b] \in Nat /\ info[f].heightLast \in Nat
    BY <1>4, HeightLastLemma, TreeAssumption
  <2> QED BY <2>2, <2>3 DEF WithBlock
<1>6. TypeOK'
  <2>1. index' \in [Block -> IndexEntry] /\ info' \in [File -> FileInfo]
    BY <1>1, <1>2, <1>5 DEF IInv, TypeOK, IndexEntry
  <2> QED BY <1>1, <1>2, <1>3, <2>1 DEF IInv, TypeOK
<1>7. DiskOK'
  BY <1>2, <1>3, DiskKeptLemma
<1>8. Sound(index, info, last)'
  <2>1. Sound(index, info, last)
    BY <1>2 DEF IInv, MemoryOK
  <2>2. ASSUME NEW c \in Block, HaveData(index', c)
        PROVE  /\ index'[c].file <= last'
               /\ Height[c] <= info'[index'[c].file].heightLast
               /\ <<c, index'[c].file>> \in blk'
    <3>1. CASE c = b
      BY <1>1, <1>2, <1>4, <1>5, <3>1 DEF File
    <3>2. CASE c # b
      <4>1. HaveData(index, c) /\ index'[c] = index[c]
        BY <1>4, <2>2, <3>2 DEF HaveData
      <4>2. /\ index[c].file <= last /\ <<c, index[c].file>> \in blk
            /\ Height[c] <= info[index[c].file].heightLast
        BY <2>1, <4>1 DEF Sound
      <4>3. index[c].file \in File /\ Height[c] \in Nat /\ info[index[c].file] \in FileInfo
        BY TreeAssumption DEF IInv, TypeOK, IndexEntry
      <4>4. Height[c] <= info'[index[c].file].heightLast
        <5>1. CASE index[c].file = f
          <6>1. info[f].heightLast \in Nat /\ WithBlock(info[f], b).heightLast \in Nat
            BY <1>4, <1>5, HeightLastLemma
          <6> QED BY <5>1, <6>1, <1>4, <1>5, <4>2, <4>3
        <5>2. CASE index[c].file # f
          BY <5>2, <1>4, <4>2, <4>3
        <5> QED BY <5>1, <5>2
      <4> QED BY <1>1, <1>2, <4>1, <4>2, <4>3, <4>4 DEF File
    <3> QED BY <3>1, <3>2
  <2>3. ASSUME NEW c \in Block, HaveUndo(index', c), powerLosses' = 0
        PROVE  <<c, index'[c].file>> \in rev'
    BY <2>1, <2>3, <1>2, <1>4 DEF Sound, HaveUndo
  <2>4. ASSUME NEW g \in File, g > last' PROVE info'[g] = NullInfo
    BY <2>1, <2>4, <1>1, <1>2, <1>4 DEF Sound, File
  <2> QED BY <2>2, <2>3, <2>4 DEF Sound
<1>9. MemoryOK'
  <2>1. ASSUME NEW c \in Block, HaveData(index', c), index'[c].file # last'
        PROVE  <<c, index'[c].file>> \in blkSynced'
    <3>1. c # b /\ index'[c] = index[c] /\ HaveData(index, c)
      BY <2>1, <1>2, <1>4 DEF HaveData
    <3>2. CASE index[c].file = last
      <4>1. <<c, index[c].file>> \in InFile(blk, last)
        BY <3>1, <3>2, <1>2 DEF IInv, MemoryOK, Sound, InFile
      <4> QED BY <4>1, <3>1, <3>2, <2>1, <1>2, <1>3
    <3>3. CASE index[c].file # last
      BY <3>1, <3>3, <1>2, <1>3 DEF IInv, MemoryOK
    <3> QED BY <3>2, <3>3
  <2> QED BY <2>1, <1>2, <1>8 DEF MemoryOK
<1>10. CleanIsOnDisk' /\ FlushOK' /\ CoinsOK'
  BY <1>2, <1>4 DEF IInv, CleanIsOnDisk, FlushOK, CoinsOK
<1>11. BranchOK'
  <2>1. \A c \in Block : Stored(index, c) => Stored(index', c)
    BY <1>2, <1>4 DEF Stored, HaveData, HaveUndo
  <2>2. Branch(tip) \subseteq Block
    BY BranchLemma DEF IInv, TypeOK
  <2> QED BY <1>2, <2>1, <2>2 DEF IInv, BranchOK, Named
<1> QED BY <1>6, <1>7, <1>9, <1>10, <1>11 DEF IInv

\* ConnectTip writes the undo data next to the block and marks the entry dirty.
LEMMA ConnectTipLemma ==
  ASSUME IInv, NEW b \in Block, ConnectTip(b)
  PROVE  IInv'
<1> DEFINE f == index[b].file
<1>1. /\ pc = "run" /\ HaveData(index, b) /\ WriteUndoDataForBlock(b)
      /\ b \in Block \ {Genesis} /\ tip = Parent[b] /\ tip' = b
      /\ UNCHANGED <<info, last, disk, blk, blkSynced, coinsDB, coinsKept, pc, toUnlink,
                     fullFlush, crashes, powerLosses>>
  BY DEF ConnectTip, coinsVars, flushVars, counters
<1>2. f \in File /\ index[b] \in IndexEntry
  BY DEF IInv, TypeOK, IndexEntry
<1> HIDE DEF f
<1>3. /\ rev \subseteq rev' /\ rev' \subseteq Block \X File /\ revSynced' \subseteq rev'
      /\ dirtyBlocks \subseteq dirtyBlocks' /\ dirtyBlocks' \subseteq Block
      /\ dirtyFiles \subseteq dirtyFiles' /\ dirtyFiles' \subseteq File
      /\ index' \in [Block -> IndexEntry]
      /\ \A c \in Block : c # b => index'[c] = index[c]
      /\ index'[b].file = index[b].file /\ HaveData(index', b) /\ HaveUndo(index', b)
      /\ HaveUndo(index, b) \/ <<b, index[b].file>> \in rev'
      /\ index'[b] = index[b] \/ b \in dirtyBlocks'
  <2>1. CASE HaveUndo(index, b)
    BY <2>1, <1>1 DEF WriteUndoDataForBlock, IInv, TypeOK
  <2>2. CASE ~HaveUndo(index, b)
    <3>1. /\ rev' = rev \cup {<<b, f>>}
          /\ revSynced' = IF f < last /\ Height[b] = info[f].heightLast
                            THEN revSynced \cup InFile(rev', f) ELSE revSynced
          /\ index' = [index EXCEPT ![b].have = @ \cup {"UNDO"}]
          /\ dirtyBlocks' = dirtyBlocks \cup {b}
          /\ dirtyFiles' = dirtyFiles \cup {f}
      BY <2>2, <1>1 DEF WriteUndoDataForBlock, f
    <3>2. index' \in [Block -> IndexEntry] /\ index'[b].file = index[b].file
      BY <3>1, <1>2 DEF IInv, TypeOK, IndexEntry
    <3>3. /\ HaveData(index', b) /\ HaveUndo(index', b)
          /\ \A c \in Block : c # b => index'[c] = index[c]
      BY <3>1, <1>1, <1>2 DEF IInv, TypeOK, IndexEntry, HaveData, HaveUndo
    <3>4. revSynced' \subseteq rev' /\ rev' \subseteq Block \X File
      BY <3>1, <1>2 DEF IInv, TypeOK, InFile
    <3> QED BY <3>1, <3>2, <3>3, <3>4, <1>2 DEF IInv, TypeOK, f
  <2> QED BY <2>1, <2>2
<1>4. TypeOK'
  BY <1>1, <1>3 DEF IInv, TypeOK
<1>5. DiskOK'
  BY <1>1, <1>3, DiskKeptLemma
<1>6. /\ \A c \in Block : index'[c].file = index[c].file
      /\ \A c \in Block : HaveData(index', c) <=> HaveData(index, c)
      /\ \A c \in Block : HaveUndo(index', c) =>
           HaveUndo(index, c) \/ <<c, index[c].file>> \in rev'
  BY <1>1, <1>3 DEF HaveData, HaveUndo
<1>7. MemoryOK'
  BY <1>1, <1>3, <1>6 DEF IInv, MemoryOK, Sound
<1>8. CleanIsOnDisk'
  BY <1>1, <1>3 DEF IInv, CleanIsOnDisk
<1>9. FlushOK' /\ CoinsOK'
  BY <1>1 DEF IInv, FlushOK, CoinsOK
<1>10. BranchOK'
  <2>1. Branch(tip') = {b} \cup Branch(tip) /\ Branch(tip) \subseteq Block
    BY <1>1, BranchLemma DEF IInv, TypeOK
  <2>2. Stored(index', b) /\ \A c \in Block : Stored(index, c) => Stored(index', c)
    BY <1>3 DEF Stored, HaveData, HaveUndo
  <2> QED BY <2>1, <2>2, <1>1 DEF IInv, BranchOK, Named
<1> QED BY <1>4, <1>5, <1>7, <1>8, <1>9, <1>10 DEF IInv

\* DisconnectTip moves the tip down its branch.
LEMMA DisconnectTipLemma ==
  ASSUME IInv, DisconnectTip
  PROVE  IInv'
<1>1. /\ pc = "run" /\ tip \in Block \ {Genesis} /\ tip' = Parent[tip] /\ tip' \in Block
      /\ UNCHANGED <<index, info, last, dirtyBlocks, dirtyFiles, disk, blk, rev, blkSynced,
                     revSynced, coinsDB, coinsKept, pc, toUnlink, fullFlush, crashes,
                     powerLosses>>
  BY BlockFilesAssumption DEF DisconnectTip, files, coinsVars, flushVars, counters, IInv, TypeOK
<1>2. TypeOK' /\ CleanIsOnDisk' /\ FlushOK' /\ CoinsOK'
  BY <1>1 DEF IInv, TypeOK, CleanIsOnDisk, FlushOK, CoinsOK
<1>3. DiskOK'
  BY <1>1, DiskKeptLemma
<1>4. MemoryOK'
  BY <1>1 DEF IInv, MemoryOK, Sound
<1>5. BranchOK'
  <2>1. Branch(tip') \subseteq Branch(tip)
    BY <1>1, BranchLemma
  <2> QED BY <2>1, <1>1 DEF IInv, BranchOK, Named
<1> QED BY <1>2, <1>3, <1>4, <1>5 DEF IInv

\* Without pruning there is nothing to prune.
LEMMA NoPruneLemma ==
  ASSUME NEW S \in FilesToPrune, ~PruneMode
  PROVE  S = {}
BY DEF FilesToPrune

\* FlushStateToDisk takes the entries of the pruned files out of the index in
\* memory and syncs the last file.
LEMMA FlushStateToDiskLemma ==
  ASSUME IInv, NEW S \in SUBSET File, NEW full \in BOOLEAN, FlushStateToDisk(S, full)
  PROVE  IInv'
<1>1. /\ pc = "run" /\ S \in FilesToPrune /\ PruneBlockFiles(S)
      /\ toUnlink' = S /\ fullFlush' = full /\ pc' = "index"
      /\ blkSynced' = blkSynced \cup InFile(blk, last)
      /\ revSynced' = revSynced \cup InFile(rev, last)
      /\ UNCHANGED <<last, tip, disk, blk, rev, coinsDB, coinsKept, crashes, powerLosses>>
  BY DEF FlushStateToDisk, AfterFiles, coinsVars, counters
<1>2. /\ \A b \in Block : index[b].file \in S => index'[b] = NoData
      /\ \A b \in Block : index[b].file \notin S => index'[b] = index[b]
      /\ \A f \in S : info'[f] = NullInfo
      /\ \A f \in File \ S : info'[f] = info[f]
      /\ dirtyBlocks' = dirtyBlocks \cup {b \in Block : index[b].file \in S}
      /\ dirtyFiles' = dirtyFiles \cup S
  BY <1>1 DEF PruneBlockFiles
<1>3. index' \in [Block -> IndexEntry] /\ info' \in [File -> FileInfo]
  <2>1. NoData \in IndexEntry /\ NullInfo \in FileInfo
    <3>1. 0 \in File /\ 0 \in 0..MaxBlockfileSize /\ 0 \in {Height[b] : b \in Block}
      BY BlockFilesAssumption, TreeAssumption, NumberLemma DEF File
    <3> QED BY <3>1 DEF NoData, IndexEntry, NullInfo, FileInfo
  <2> QED BY <1>1, <2>1 DEF PruneBlockFiles, IInv, TypeOK
<1>4. TypeOK'
  BY <1>1, <1>2, <1>3 DEF IInv, TypeOK, InFile
<1>5. DiskOK'
  BY <1>1, DiskKeptLemma
<1>6. \A b \in Block : index'[b].have # {} => index[b].file \notin S /\ index'[b] = index[b]
  <2>1. NoData.have = {}
    BY DEF NoData
  <2> QED BY <1>2, <2>1
<1>7. MemoryOK'
  <2>1. Sound(index, info, last) /\ \A b \in Block : index[b].file \in File
    BY <1>1 DEF IInv, MemoryOK, TypeOK, IndexEntry
  <2>2. \A b \in Block : HaveData(index', b) \/ HaveUndo(index', b) =>
          /\ index[b].file \notin S /\ index'[b] = index[b]
          /\ info'[index[b].file] = info[index[b].file]
    BY <2>1, <1>2, <1>6 DEF HaveData, HaveUndo
  <2>3. \A f \in File : f > last => info'[f] = NullInfo
    BY <2>1, <1>2 DEF Sound
  <2>4. Sound(index, info, last)'
    BY <2>1, <2>2, <2>3, <1>1 DEF Sound, HaveData, HaveUndo
  <2>5. ASSUME NEW b \in Block, HaveData(index', b)
        PROVE  <<b, index'[b].file>> \in blkSynced'
    <3>1. HaveData(index, b) /\ index'[b] = index[b] /\ <<b, index[b].file>> \in blk
      BY <2>1, <2>2, <2>5 DEF Sound, HaveData
    <3> QED BY <3>1, <1>1 DEF IInv, MemoryOK, InFile
  <2> QED BY <2>4, <2>5 DEF MemoryOK
<1>8. CleanIsOnDisk'
  BY <1>1, <1>2 DEF IInv, CleanIsOnDisk
<1>9. FlushOK' /\ CoinsOK'
  BY <1>1, <1>6 DEF IInv, FlushOK, CoinsOK
<1>10. BranchOK'
  <2>1. ~PruneMode => \A b \in Block : index'[b] = index[b]
    BY <1>1, <1>2, NoPruneLemma
  <2>2. Branch(tip) \subseteq Block
    BY BranchLemma DEF IInv, TypeOK
  <2> QED BY <2>1, <2>2, <1>1 DEF IInv, BranchOK, Named, Stored, HaveData, HaveUndo
<1> QED BY <1>4, <1>5, <1>7, <1>8, <1>9, <1>10 DEF IInv

\* WriteBlockIndexDB makes the index on disk the one in memory.
LEMMA WriteBlockIndexDBLemma ==
  ASSUME IInv, WriteBlockIndexDB
  PROVE  IInv'
<1>1. /\ pc = "index" /\ pc' = "unlink" /\ disk' = WithDirty
      /\ dirtyBlocks' = {} /\ dirtyFiles' = {}
      /\ UNCHANGED <<index, info, last, tip, blk, rev, blkSynced, revSynced, coinsDB,
                     coinsKept, toUnlink, fullFlush, crashes, powerLosses>>
  BY DEF WriteBlockIndexDB, files, coinsVars, counters
<1>2. disk'.index = index /\ disk'.info = info /\ disk'.last = last
  <2>1. \A b \in Block : disk'.index[b] = index[b]
    BY <1>1 DEF WithDirty, IInv, CleanIsOnDisk
  <2>2. \A f \in File : disk'.info[f] = info[f]
    BY <1>1 DEF WithDirty, IInv, CleanIsOnDisk
  <2>3. /\ disk'.index = [b \in Block |-> disk'.index[b]]
        /\ disk'.info = [f \in File |-> disk'.info[f]]
        /\ disk'.last = last
    BY <1>1 DEF WithDirty
  <2> QED BY <2>1, <2>2, <2>3 DEF IInv, TypeOK
<1>3. TypeOK'
  <2>1. disk' \in IndexDB
    BY <1>1, <1>2 DEF WithDirty, IInv, TypeOK, IndexDB
  <2> QED BY <1>1, <2>1 DEF IInv, TypeOK
<1>4. MemoryOK' /\ DiskOK'
  BY <1>1, <1>2 DEF IInv, MemoryOK, DiskOK, Sound, IndexedDataSurvives, HaveData
<1>5. CleanIsOnDisk' /\ FlushOK' /\ CoinsOK'
  BY <1>1, <1>2 DEF IInv, CleanIsOnDisk, FlushOK, CoinsOK
<1>6. BranchOK'
  <2>1. \A d \in {coinsDB, coinsKept} : \A h \in Named(d) : Branch(h) \subseteq Block
    <3>1. \A d \in {coinsDB, coinsKept} : Named(d) \subseteq Block \cup {NoBlock}
      BY NamedLemma DEF IInv, TypeOK
    <3> QED BY <3>1, BranchLemma
  <2> QED BY <2>1, <1>1, <1>2 DEF IInv, BranchOK, Named, Stored, HaveData, HaveUndo
<1> QED BY <1>3, <1>4, <1>5, <1>6 DEF IInv

\* UnlinkPrunedFiles: neither index refers to the files that go.
LEMMA UnlinkPrunedFilesLemma ==
  ASSUME IInv, UnlinkPrunedFiles
  PROVE  IInv'
<1>1. /\ pc = "unlink" /\ pc' \in {"coins", "run"} /\ toUnlink' = {}
      /\ blk' = {p \in blk : p[2] \notin toUnlink}
      /\ rev' = {p \in rev : p[2] \notin toUnlink}
      /\ blkSynced' = blkSynced \cap blk' /\ revSynced' = revSynced \cap rev'
      /\ UNCHANGED <<index, info, last, dirtyBlocks, dirtyFiles, tip, disk, coinsDB, coinsKept,
                     fullFlush, crashes, powerLosses>>
  BY DEF UnlinkPrunedFiles, Unlinked, memory, coinsVars, counters
<1>2. TypeOK'
  BY <1>1 DEF IInv, TypeOK
<1>3. \A b \in Block : disk.index[b] = index[b]
  BY <1>1 DEF IInv, FlushOK, CleanIsOnDisk
<1>4. \A b \in Block : HaveData(index, b) \/ HaveUndo(index, b) => index[b].file \notin toUnlink
  BY <1>1 DEF IInv, FlushOK, HaveData, HaveUndo
<1>5. DiskOK'
  BY <1>1, <1>3, <1>4 DEF IInv, DiskOK, Sound, IndexedDataSurvives, HaveData, HaveUndo
<1>6. MemoryOK'
  BY <1>1, <1>4 DEF IInv, MemoryOK, Sound
<1>7. CleanIsOnDisk' /\ FlushOK' /\ CoinsOK' /\ BranchOK'
  BY <1>1 DEF IInv, CleanIsOnDisk, FlushOK, CoinsOK, BranchOK, Named
<1> QED BY <1>2, <1>5, <1>6, <1>7 DEF IInv

\* The steps of the coins database: it comes to name the tip, or less.
LEMMA CoinsLemma ==
  ASSUME IInv, WriteCoinsPartly \/ WriteCoins \/ WriteBehind
  PROVE  IInv'
<1>1. /\ UNCHANGED <<index, info, last, dirtyBlocks, dirtyFiles, tip, disk, blk, rev, blkSynced,
                     revSynced, toUnlink, crashes, powerLosses>>
      /\ pc' = pc \/ (pc = "coins" /\ pc' = "run")
      /\ fullFlush' \in {fullFlush, FALSE}
  BY DEF WriteCoinsPartly, WriteCoins, WriteBehind, memory, files, flushVars, counters
<1>2. tip \in Block /\ coinsDB \in CoinsDB /\ coinsKept \in CoinsDB
  BY DEF IInv, TypeOK
<1>3. /\ coinsDB' \in CoinsDB /\ coinsKept' \in CoinsDB /\ CoinsOK'
      /\ \A d \in {coinsDB', coinsKept'} : \A h \in Named(d) :
           \/ h = NoBlock
           \/ h \in Named(coinsDB) \cup Named(coinsKept)
           \/ pc = "coins" /\ h = tip
  <2>1. CASE WriteCoinsPartly
    <3>1. /\ pc = "coins" /\ coinsDB.heads = <<>> /\ coinsKept' = coinsKept
          /\ coinsDB' = [best |-> NoBlock, heads |-> <<tip, coinsDB.best>>]
      BY <2>1 DEF WriteCoinsPartly
    <3>2. coinsDB.best \in Block /\ coinsDB.best \in Named(coinsDB)
      BY <3>1 DEF IInv, CoinsOK, Named
    <3>3. coinsDB' \in CoinsDB /\ coinsDB'.heads # <<>>
      BY <3>1, <3>2, <1>2 DEF CoinsDB
    <3>4. Named(coinsDB') = {NoBlock, tip, coinsDB.best}
      BY <3>1, <3>3, NamedLemma
    <3>5. CoinsOK'
      BY <3>1, <3>3 DEF IInv, CoinsOK
    <3> QED BY <3>1, <3>2, <3>3, <3>4, <3>5, <1>2
  <2>2. CASE WriteCoins
    <3>1. /\ pc = "coins" /\ coinsKept' = coinsKept
          /\ coinsDB' = [best |-> tip, heads |-> <<>>]
      BY <2>2 DEF WriteCoins
    <3>2. coinsDB' \in CoinsDB
      BY <3>1, <1>2 DEF CoinsDB
    <3>3. Named(coinsDB') = {tip}
      BY <3>1, <3>2, NamedLemma
    <3>4. CoinsOK'
      BY <3>1, <1>2 DEF IInv, CoinsOK
    <3> QED BY <3>1, <3>2, <3>3, <3>4, <1>2
  <2>3. CASE WriteBehind
    <3>1. coinsKept' = coinsDB /\ coinsDB' = coinsDB
      BY <2>3 DEF WriteBehind
    <3>2. CoinsOK'
      BY <3>1 DEF IInv, CoinsOK
    <3> QED BY <3>1, <3>2, <1>2
  <2> QED BY <2>1, <2>2, <2>3
<1>4. TypeOK'
  BY <1>1, <1>3 DEF IInv, TypeOK
<1>5. DiskOK'
  BY <1>1, DiskKeptLemma
<1>6. MemoryOK' /\ CleanIsOnDisk' /\ FlushOK'
  BY <1>1 DEF IInv, MemoryOK, Sound, CleanIsOnDisk, FlushOK
<1>7. BranchOK'
  <2>1. pc = "coins" => \A b \in Block : disk.index[b] = index[b]
    BY DEF IInv, FlushOK, CleanIsOnDisk
  <2>2. Branch(tip) \subseteq Block /\ Branch(NoBlock) = {}
    BY <1>2, BranchLemma
  <2>3. ASSUME ~PruneMode, NEW d \in {coinsDB', coinsKept'}, NEW h \in Named(d), NEW b \in Branch(h)
        PROVE  Stored(disk.index, b)
    <3>1. CASE h \in Named(coinsDB) \cup Named(coinsKept)
      BY <3>1, <2>3 DEF IInv, BranchOK
    <3>2. CASE pc = "coins" /\ h = tip
      BY <3>2, <2>1, <2>2, <2>3 DEF IInv, BranchOK, Stored, HaveData, HaveUndo
    <3> QED BY <3>1, <3>2, <2>2, <1>3
  <2> QED BY <2>3, <1>1 DEF IInv, BranchOK, Named
<1> QED BY <1>3, <1>4, <1>5, <1>6, <1>7 DEF IInv

\* The process stops.  A power loss leaves what is synced, and that is all that
\* the index on disk refers to.
LEMMA StopLemma ==
  ASSUME IInv, Crash \/ PowerLoss
  PROVE  IInv'
<1>1. /\ pc' = "down" /\ toUnlink' = {} /\ fullFlush' = FALSE
      /\ UNCHANGED <<index, info, last, dirtyBlocks, dirtyFiles, tip, disk, blkSynced, revSynced,
                     coinsKept>>
  BY DEF Crash, PowerLoss, Stopped, memory, files, coinsVars
<1>2. \/ UNCHANGED <<blk, rev, coinsDB, powerLosses>>
      \/ blk' = blkSynced /\ rev' = revSynced /\ coinsDB' = coinsKept /\ powerLosses' # 0
  <2>1. powerLosses \in 0..MaxPowerLosses
    BY DEF IInv, TypeOK
  <2> QED BY <2>1, NumberLemma DEF Crash, PowerLoss, files, coinsVars
<1>3. crashes' \in 0..MaxCrashes /\ powerLosses' \in 0..MaxPowerLosses
  <2>1. crashes \in 0..MaxCrashes /\ powerLosses \in 0..MaxPowerLosses
    BY DEF IInv, TypeOK
  <2> QED BY <2>1, NumberLemma DEF Crash, PowerLoss
<1>4. TypeOK'
  BY <1>1, <1>2, <1>3 DEF IInv, TypeOK
<1>5. DiskOK'
  BY <1>1, <1>2 DEF IInv, DiskOK, Sound, IndexedDataSurvives
<1>6. MemoryOK' /\ CleanIsOnDisk' /\ FlushOK' /\ CoinsOK'
  BY <1>1, <1>2 DEF IInv, MemoryOK, CleanIsOnDisk, FlushOK, CoinsOK
<1>7. BranchOK'
  BY <1>1, <1>2 DEF IInv, BranchOK, Named
<1> QED BY <1>4, <1>5, <1>6, <1>7 DEF IInv

\* The node starts from the index on disk and from the newer of the coins' heads.
LEMMA StartLemma ==
  ASSUME IInv, Start
  PROVE  IInv'
<1> DEFINE referred == {<<b, disk.index[b].file>> : b \in {x \in Block : HaveData(disk.index, x)}}
           undone == {<<b, disk.index[b].file>> : b \in {x \in Block : HaveUndo(disk.index, x)}}
           new == IF coinsDB.heads = <<>> THEN coinsDB.best ELSE coinsDB.heads[1]
<1>1. /\ pc' = "run"
      /\ index' = disk.index /\ info' = disk.info /\ last' = disk.last
      /\ dirtyBlocks' = {} /\ dirtyFiles' = {}
      /\ tip' = new /\ coinsDB' = [best |-> new, heads |-> <<>>]
      /\ blk' = blk \cap referred /\ blkSynced' = blkSynced \cap referred
      /\ rev' = rev \cap undone /\ revSynced' = revSynced \cap undone
      /\ UNCHANGED <<disk, coinsKept, toUnlink, fullFlush, crashes, powerLosses>>
  BY DEF Start, counters
<1>2. new \in Block /\ new \in Named(coinsDB)
  BY NamedLemma DEF IInv, TypeOK, CoinsOK, Named
<1>3. coinsDB' \in CoinsDB /\ Named(coinsDB') = {new}
  <2> HIDE DEF new
  <2>1. coinsDB' \in CoinsDB /\ coinsDB'.heads = <<>> /\ coinsDB'.best = new
    BY <1>1, <1>2 DEF CoinsDB
  <2> QED BY <2>1, NamedLemma
<1>4. /\ \A b \in Block : HaveData(disk.index, b) => <<b, disk.index[b].file>> \in referred
      /\ \A b \in Block : HaveUndo(disk.index, b) => <<b, disk.index[b].file>> \in undone
  OBVIOUS
<1> HIDE DEF referred, undone, new
<1>5. TypeOK'
  <2>1. /\ disk.index \in [Block -> IndexEntry] /\ disk.info \in [File -> FileInfo]
        /\ disk.last \in File
    BY DEF IInv, TypeOK, IndexDB
  <2> QED BY <1>1, <1>2, <1>3, <2>1 DEF IInv, TypeOK
<1>6. DiskOK'
  BY <1>1, <1>4 DEF IInv, DiskOK, Sound, IndexedDataSurvives
<1>7. MemoryOK'
  BY <1>1, <1>6 DEF DiskOK, MemoryOK, Sound, IndexedDataSurvives
<1>8. CleanIsOnDisk' /\ FlushOK' /\ CoinsOK'
  BY <1>1, <1>2 DEF IInv, CleanIsOnDisk, FlushOK, CoinsOK
<1>9. BranchOK'
  <2>1. ASSUME ~PruneMode, NEW b \in Branch(new) PROVE Stored(disk.index, b)
    BY <2>1, <1>2 DEF IInv, BranchOK
  <2>2. ASSUME ~PruneMode, NEW h \in Named(coinsKept), NEW b \in Branch(h)
        PROVE  Stored(disk.index, b)
    BY <2>2 DEF IInv, BranchOK
  <2>3. Named(coinsKept') = Named(coinsKept)
    BY <1>1
  <2> QED BY <2>1, <2>2, <2>3, <1>1, <1>3 DEF BranchOK
<1> QED BY <1>5, <1>6, <1>7, <1>8, <1>9 DEF IInv
-----------------------------------------------------------------------------
\* Every step keeps the invariant.
LEMMA NextLemma ==
  IInv /\ [Next]_vars => IInv'
<1> SUFFICES ASSUME IInv, [Next]_vars PROVE IInv'
  OBVIOUS
<1>1. ASSUME NEW b \in Block, AcceptBlock(b) PROVE IInv'
  BY <1>1, AcceptBlockLemma
<1>2. ASSUME NEW b \in Block, ConnectTip(b) PROVE IInv'
  BY <1>2, ConnectTipLemma
<1>3. CASE DisconnectTip
  BY <1>3, DisconnectTipLemma
<1>4. ASSUME NEW S \in SUBSET File, NEW full \in BOOLEAN, FlushStateToDisk(S, full) PROVE IInv'
  BY <1>4, FlushStateToDiskLemma
<1>5. CASE WriteBlockIndexDB
  BY <1>5, WriteBlockIndexDBLemma
<1>6. CASE UnlinkPrunedFiles
  BY <1>6, UnlinkPrunedFilesLemma
<1>7. CASE WriteCoinsPartly \/ WriteCoins \/ WriteBehind
  BY <1>7, CoinsLemma
<1>8. CASE Crash \/ PowerLoss
  BY <1>8, StopLemma
<1>9. CASE Start
  BY <1>9, StartLemma
<1>10. CASE UNCHANGED vars
  BY <1>10 DEF vars, memory, files, coinsVars, flushVars, counters, IInv, TypeOK, DiskOK,
               MemoryOK, Sound, IndexedDataSurvives, CleanIsOnDisk, FlushOK, CoinsOK, BranchOK,
               Named
<1> QED BY <1>1, <1>2, <1>3, <1>4, <1>5, <1>6, <1>7, <1>8, <1>9, <1>10 DEF Next

\* BlockManager and FlushStateToDisk: the inductive invariant holds of every
\* behaviour, however the process dies.
THEOREM Invariance == Spec => []IInv
BY InitLemma, NextLemma, PTL DEF Spec

\* BlockManager: the file records keep their types; no file takes more than
\* MAX_BLOCKFILE_SIZE.
THEOREM TypeCorrect == Spec => []TypeOK
<1>1. IInv => TypeOK
  BY DEF IInv
<1> QED BY <1>1, Invariance, PTL

\* WriteBatchSync: the dirty sets miss no change, for any tree and any pruning.
THEOREM CleanCorrect == Spec => []CleanIsOnDisk
<1>1. IInv => CleanIsOnDisk
  BY DEF IInv
<1> QED BY <1>1, Invariance, PTL

\* FlushStateToDisk unlinks after the index is written: all the blocks that
\* either index refers to can be read, and until a power loss the undo data too.
THEOREM Readable == Spec => []IndexReadable
<1>1. IInv => IndexReadable
  BY DEF IInv, DiskOK, MemoryOK, Sound, IndexReadable
<1> QED BY <1>1, Invariance, PTL

\* FlushBlockFile before WriteBlockIndexDB: power losses never leave an index
\* entry without its block, with pruning too.
THEOREM DataSurvives == Spec => []IndexedDataSurvives
<1>1. IInv => IndexedDataSurvives
  BY DEF IInv, DiskOK
<1> QED BY <1>1, Invariance, PTL

\* FlushStateToDisk writes the coins last: without pruning the coins never name
\* a block whose branch is not indexed and stored.
THEOREM CoinsBehind == ~PruneMode => (Spec => []CoinsAreBehindIndex)
<1> SUFFICES ASSUME ~PruneMode
             PROVE  Spec => []CoinsAreBehindIndex
  OBVIOUS
<1>1. IInv => CoinsAreBehindIndex
  <2> SUFFICES ASSUME IInv, NEW d \in {coinsDB, coinsKept},
                      NEW h \in Named(d), NEW b \in Branch(h)
               PROVE  OnDisk(blk, "DATA", b)
    BY DEF CoinsAreBehindIndex, Named
  <2>1. HaveData(disk.index, b)
    BY DEF IInv, BranchOK, Stored
  <2>2. b \in Block
    <3>1. h \in Block \cup {NoBlock}
      BY NamedLemma DEF IInv, TypeOK
    <3> QED BY <3>1, BranchLemma
  <2> QED BY <2>1, <2>2 DEF IInv, DiskOK, Sound, OnDisk, HaveData
<1> QED BY <1>1, Invariance, PTL

\* ReplayBlocks: without pruning, a process that dies at any moment finds all the
\* blocks and the undo data that its restart reads.
THEOREM Restartable == ~PruneMode => (Spec => []RestartPossible)
<1> SUFFICES ASSUME ~PruneMode
             PROVE  Spec => []RestartPossible
  OBVIOUS
<1>1. IInv => RestartPossible
  <2> SUFFICES ASSUME IInv, powerLosses = 0, coinsDB.heads # <<>>
               PROVE  Replayable(coinsDB)
    BY DEF RestartPossible, Replayable, ReplayReads, ReplayUndoes
  <2>1. /\ coinsDB.heads[1] \in Block /\ coinsDB.heads[2] \in Block
        /\ coinsDB.heads[1] \in Named(coinsDB) /\ coinsDB.heads[2] \in Named(coinsDB)
    BY NamedLemma DEF IInv, TypeOK
  <2>2. ASSUME NEW b \in Branch(coinsDB.heads[1]) \cup Branch(coinsDB.heads[2])
        PROVE  b \in Block /\ Stored(disk.index, b)
    BY <2>1, <2>2, BranchLemma DEF IInv, BranchOK
  <2>3. ASSUME NEW b \in ReplayReads(coinsDB)
        PROVE  OnDisk(blk, "DATA", b)
    <3>1. b \in Branch(coinsDB.heads[1]) \cup Branch(coinsDB.heads[2])
      BY <2>3 DEF ReplayReads, SymDiff
    <3> QED BY <2>2, <3>1 DEF IInv, DiskOK, Sound, OnDisk, Stored, HaveData
  <2>4. ASSUME NEW b \in ReplayUndoes(coinsDB)
        PROVE  OnDisk(rev, "UNDO", b)
    <3>1. b \in Branch(coinsDB.heads[2]) /\ b # Genesis
      <4>1. Genesis \in Branch(coinsDB.heads[1])
        BY <2>1, BlockFilesAssumption, TreeAssumption DEF Branch
      <4> QED BY <2>4, <4>1 DEF ReplayUndoes
    <3> QED BY <2>2, <3>1 DEF IInv, DiskOK, Sound, OnDisk, Stored, HaveUndo
  <2> QED BY <2>3, <2>4 DEF Replayable
<1> QED BY <1>1, Invariance, PTL

\* The limit of either search, when the chain is long enough for the difference
\* not to wrap around.
LEMMA LimitLemma ==
  ASSUME tip \in Block, NEW h \in Nat, MinBlocksToKeep <= Height[tip], h <= Height[tip]
  PROVE  /\ LastBlockWeCanPrune(h) \in Nat /\ LastBlockWeCanPruneManual(h) \in Nat
         /\ LastBlockWeCanPrune(h) <= Height[tip] - MinBlocksToKeep
         /\ LastBlockWeCanPruneManual(h) <= Height[tip] - MinBlocksToKeep
<1> DEFINE k == Height[tip] - MinBlocksToKeep
<1>1. Height[tip] \in Nat /\ k \in Nat /\ UIntRange \in Nat /\ k < UIntRange /\ h < UIntRange
  BY BlockFilesAssumption, TreeAssumption
<1> HIDE DEF k
<1>2. Min({h, k}) \in {h, k} /\ Min({h, k}) <= k
  <2>1. h \in Int /\ k \in Int
    BY <1>1
  <2> QED BY ONLY <2>1, MinLemma, Zenon
<1>3. ToUInt(k) = k /\ ToUInt(Min({h, k})) = Min({h, k})
  BY <1>1, <1>2, ModLemma DEF ToUInt
<1> QED BY <1>1, <1>2, <1>3 DEF LastBlockWeCanPrune, LastBlockWeCanPruneManual, k

\* What either search yields.
LEMMA FilesToPruneLemma ==
  ASSUME IInv, MinBlocksToKeep <= PruneAfterHeight, NEW S \in FilesToPrune, NEW f \in S
  PROVE  info[f].heightLast <= Height[tip] - MinBlocksToKeep
<1> DEFINE far == Height[tip] - MinBlocksToKeep
<1>1. tip \in Block /\ Height[tip] \in Nat /\ far \in Int /\ last \in File
  <2>1. tip \in Block /\ last \in File
    BY DEF IInv, TypeOK
  <2>2. Height[tip] \in Nat
    BY <2>1, TreeAssumption
  <2> QED BY <2>1, <2>2, NumberLemma
<1>2. ASSUME NEW limit \in Nat, limit <= far, f \in Prunable(limit)
      PROVE  info[f].heightLast <= far
  <2>1. f \in 0..(last - 1) /\ info[f].heightLast <= limit
    BY <1>2 DEF Prunable
  <2>2. f \in File
    BY ONLY <1>1, <2>1, NumberLemma DEF File
  <2>3. info[f].heightLast \in Nat
    BY <2>2, HeightLastLemma DEF IInv, TypeOK
  <2> HIDE DEF far
  <2>4. info[f].heightLast \in Int /\ limit \in Int /\ far \in Int
    <3>1. limit \in Int
      OBVIOUS
    <3>2. far \in Int
      BY ONLY <1>1
    <3>3. info[f].heightLast \in Int
      BY ONLY <2>3
    <3> QED BY ONLY <3>1, <3>2, <3>3
  <2>5. info[f].heightLast <= limit /\ limit <= far
    BY <1>2, <2>1
  <2> QED BY ONLY <2>4, <2>5, TransitivityLemma, Zenon
<1>3. CASE S \in FindFilesToPrune
  <2>1. ~(Height[tip] <= PruneAfterHeight)
    BY <1>3 DEF FindFilesToPrune
  <2>2. PICK k \in File : S = {g \in Prunable(LastBlockWeCanPrune(Height[tip])) : g < k}
    BY <1>3, <2>1 DEF FindFilesToPrune
  <2>3. MinBlocksToKeep <= Height[tip] /\ Height[tip] <= Height[tip]
    BY <1>1, <2>1, NumberLemma
  <2>4. LastBlockWeCanPrune(Height[tip]) \in Nat /\ LastBlockWeCanPrune(Height[tip]) <= far
    BY <1>1, <2>3, LimitLemma
  <2> QED BY <2>2, <2>4, <1>2
<1>4. CASE S \in FindFilesToPruneManual
  <2>1. ~(Height[tip] < PruneAfterHeight)
    BY <1>4 DEF FindFilesToPruneManual
  <2>2. PICK h \in 1..Height[tip] : S = Prunable(LastBlockWeCanPruneManual(h))
    BY <1>4, <2>1 DEF FindFilesToPruneManual
  <2>3. MinBlocksToKeep <= Height[tip] /\ h \in Nat /\ h <= Height[tip]
    BY <1>1, <2>1, NumberLemma
  <2>4. LastBlockWeCanPruneManual(h) \in Nat /\ LastBlockWeCanPruneManual(h) <= far
    BY <1>1, <2>3, LimitLemma
  <2> QED BY <2>2, <2>4, <1>2
<1>5. CASE S = {}
  BY <1>5
<1> QED BY <1>3, <1>4, <1>5 DEF FilesToPrune

\* FindFilesToPrune and FindFilesToPruneManual: where nPruneAfterHeight is at
\* least MIN_BLOCKS_TO_KEEP, as on the main network, no block within that
\* distance of the tip is ever pruned.  (MCBlockFilesShort.cfg shows what
\* happens where it is less.)
THEOREM PruneSpares ==
  MinBlocksToKeep <= PruneAfterHeight => (Spec => PruneSparesRecent)
<1> SUFFICES ASSUME MinBlocksToKeep <= PruneAfterHeight
             PROVE  Spec => PruneSparesRecent
  OBVIOUS
<1> DEFINE Spared == \A b \in Block :
             pc = "run" /\ HaveData(index, b) /\ ~HaveData(index', b)
               => Height[b] + MinBlocksToKeep <= Height[tip]
<1>1. IInv /\ [Next]_vars => [Spared]_vars
  <2> SUFFICES ASSUME IInv, Next, NEW b \in Block, pc = "run",
                      HaveData(index, b), ~HaveData(index', b)
               PROVE  Height[b] + MinBlocksToKeep <= Height[tip]
    OBVIOUS
  <2>1. PICK S \in SUBSET File, full \in BOOLEAN : FlushStateToDisk(S, full)
    <3>1. ASSUME NEW c \in Block, AcceptBlock(c) PROVE FALSE
      BY <3>1 DEF AcceptBlock, HaveData, IInv, TypeOK
    <3>2. ASSUME NEW c \in Block, ConnectTip(c) PROVE FALSE
      BY <3>2 DEF ConnectTip, WriteUndoDataForBlock, HaveData, IInv, TypeOK, IndexEntry
    <3>3. CASE index' = index
      BY <3>3
    <3>4. CASE pc = "index" \/ pc = "unlink" \/ pc = "coins" \/ pc = "down"
      BY <3>4
    <3> QED BY <3>1, <3>2, <3>3, <3>4
            DEF Next, DisconnectTip, WriteBlockIndexDB, UnlinkPrunedFiles, WriteCoinsPartly,
                WriteCoins, WriteBehind, Crash, PowerLoss, Stopped, Start, memory
  <2>2. index[b].file \in S /\ S \in FilesToPrune
    BY <2>1 DEF FlushStateToDisk, PruneBlockFiles, HaveData
  <2>3. info[index[b].file].heightLast <= Height[tip] - MinBlocksToKeep
    BY <2>2, FilesToPruneLemma
  <2>4. Height[b] <= info[index[b].file].heightLast
    BY DEF IInv, MemoryOK, Sound
  <2>5. Height[b] \in Nat /\ Height[tip] \in Nat
    BY TreeAssumption DEF IInv, TypeOK
  <2>6. info[index[b].file].heightLast \in Nat
    BY HeightLastLemma DEF IInv, TypeOK, IndexEntry
  <2> QED BY ONLY <2>3, <2>4, <2>5, <2>6, NumberLemma
<1> QED BY <1>1, Invariance, PTL DEF Spec, PruneSparesRecent
=============================================================================
