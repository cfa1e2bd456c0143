# TLA+ verification of the Blakecoin node

Blakecoin is a proof-of-work node derived from Bitcoin Core 25.2.  This project
keeps TLA+ models of its state machines next to the code: modules translated
from the C++ sources, TLC configurations that check them on small instances,
and proofs that TLAPS checks for every instance.

Paths below are relative to the repository's C++ tree (`coins.cpp` is
`src/coins.cpp` of the repository).  `PROJECT.json` gives the exact lines that
every definition stands for, the hazards each property is about, and a mutant
for every property: a plausible bug in one definition that TLC finds with it.

## 1. The system and its parts

The node receives headers, blocks and transactions from peers, keeps an index
of all headers, stores blocks in flat files, chooses the chain with the most
work, keeps the set of unspent coins of that chain, and tells indexes, wallet
and network about every change through a queue of callbacks.

| part | sources | modelled by |
|---|---|---|
| UTXO cache stack | `coins.cpp`, `coins.h` | `CoinsViews`, `CoinsCache`, `CoinsCacheProofs` |
| coins database and replay | `txdb.cpp`, `validation.cpp` | `CoinsReplay`, `CoinsReplayProofs` |
| block and undo files | `node/blockstorage.cpp`, `validation.cpp` | `BlockFiles`, `BlockFilesProofs` |
| block index and chain selection | `validation.cpp`, `node/blockstorage.cpp`, `chain.h` | `ChainSelection`, `ChainSelectionProofs` |
| script check queue | `checkqueue.h` | `CheckQueue`, `QueueProofs` |
| transaction requests | `txrequest.cpp` | `TxRequestRules`, `TxRequest`, `TxRequestProofs` |
| orphans and transaction download | `txorphanage.cpp`, `net_processing.cpp` | `TxOrphanage`, `TxDownload`, `TxDownloadProofs` |
| scheduler and validation callbacks | `scheduler.cpp`, `validationinterface.cpp`, `init.cpp` | `CallbackQueue`, `Callbacks`, `QueueProofs` |
| indexes | `index/base.cpp`, `index/coinstatsindex.cpp` | `IndexSync`, `IndexSyncProofs` |
| difficulty | `pow.cpp`, `arith_uint256.cpp` | `Pow`, `ChainSelectionProofs` |
| headers download | `headerssync.cpp`, `net_processing.cpp` | `HeadersSync`, `HeadersDownload` |
| memory pool and policy, version bits, scripts, connections, address tables, wallet, RPC, GUI | | not modelled, section 6 |

How the parts interact:

* `ConnectTip` and `DisconnectTip` open a temporary cache over `CoinsTip()`,
  change coins in it and flush it into `CoinsTip()`.  `CoinsTip()` is flushed
  into the coins database by `FlushStateToDisk`.
* `FlushStateToDisk` first syncs the block file, then writes the index, then
  unlinks pruned files, then writes the coins.  At the next start the index is
  read, `ReplayBlocks` finishes an interrupted write of the coins using the
  blocks and undo data in the files, and `LoadChainTip` takes the coins' best
  block as the tip.
* `ActivateBestChain` drives `ConnectTip` and `DisconnectTip`.  It holds
  `m_chainstate_mutex` for the whole call and `cs_main` only for a round, so
  blocks and headers arrive between its rounds, and between the steps of
  `InvalidateBlock`.
* `ConnectBlock` hands the script checks of a block to the check queue and
  needs the verdict of `Wait` before it may go on.
* Every change of the chain adds a callback to a queue that the scheduler's
  threads work off later.  A thread that is too far ahead of the queue waits for
  it (`LimitValidationInterfaceQueue`).  The listeners, among them the indexes
  and `PeerManagerImpl`, see the chain as it was when the callback was added.
* The message thread downloads headers first (in two passes while they show too
  little work), and transactions through the request tracker and the orphanage;
  the callbacks of connected blocks clean both up.

What is hard to test in them, and what must hold, is listed line by line under
`hazards` in `PROJECT.json`.  In short: a flag in a cache entry that is wrong
only after a certain history; a crash between any two writes of three stores; a
prune between the index and the files; blocks that arrive out of order or while
the lock is released in a reorganisation; a wakeup that is lost, or a batch of
checks that is still running when the block it refers to is gone; a callback
that comes late, twice around, or not at all because the node is stopping; a
request, an orphan or a count that is left behind by a peer; a peer whose chain
changes between two passes over it.

## 2. The modules

### CoinsViews, CoinsCache, CoinsCacheProofs

`CoinsCache` is `CCoinsViewCache` in the stack the node builds: the database
(`dbCoins`, `dbBest`), `CoinsTip()` over it (layer `"tip"`), and the temporary
view of `ConnectTip` and `DisconnectTip` over that (layer `"view"`).  A cache is
a function from outpoints to entries or `Absent`; an entry is a coin and a set
of flags.  Each C++ operation is one action on the layer it is called on,
reads included: `FetchCoin` inserts entries in every layer it passes.
`BaseReportsSpent` lets the base return spent coins, as `coins.cpp` allows.
The contract of `AddCoin` (no overwrite of an unspent coin unless
`possible_overwrite`) is a guard, because the code throws otherwise.

`CoinsViews` is what the stack promises: three plain maps; a flush copies one
map into the next, dropping a view discards it, and everything else the caches
do cannot be seen.  `ImplementsViews` maps the stack to it by looking each
outpoint up through the layers.

### CoinsReplay, CoinsReplayProofs

The content of the coins database when writes are cut.  `BatchWrite` writes any
subset of the dirty coins per partial batch, with `DB_HEAD_BLOCKS` set by the
first and removed by the last.  `WriteBehind` makes batches durable in order and
`PowerLoss` falls back to the durable state.  A coin is the height that created
it, enough to tell a coin restored by undo data from the same output mined at
another height.  `UpdateCoins`, `DisconnectBlock` and `ReplayBlocks` are loops over
the transactions of a block, or over the blocks of a branch, written as recursive
functions.  A block spends what is there and creates what is not
(`ValidAssumption`, the checks of `CheckTxInputs` and BIP30).  By
`CoinsCacheProofs!Refinement` the cache over the database may be taken as the map it
shows.

### BlockFiles, BlockFilesProofs

`BlockManager` and `FlushStateToDisk`.  The state is kept twice: `index`,
`info`, `last` in memory with their dirty sets, and `disk`, which
`WriteBatchSync` makes of them.  Files are sets of (block, file) pairs, of which
`blkSynced` and `revSynced` survive a power loss.  A flush is four actions, one
per store it writes (`FlushStateToDisk`, `WriteBlockIndexDB`,
`UnlinkPrunedFiles`, `WriteCoins` with `WriteCoinsPartly`), so that a crash may
fall between any two.  The subtraction that bounds pruning is done modulo
`UIntRange`, as the code does it in `unsigned int`.

### ChainSelection, ChainSelectionProofs

The block index and the choice of the tip.  `pc` says where the holder of
`m_chainstate_mutex` is: `"idle"`, `"loop"` (between rounds, `cs_main` free),
`"find"`, `"connect"`, `"check"` (inside a round), `"invalidate"` (between the
steps of `InvalidateBlock`).  Headers, blocks, `PreciousBlock` and
`ResetBlockFailureFlags` happen whenever `cs_main` is free.  The tie breaker of
`CBlockIndexWorkComparator` is modelled down to the pointer comparison
(`Addr`).  `Bad` blocks fail in `ConnectBlock` and `BadBody` ones in
`ContextualCheckBlock`.  `FlushStateToDisk` is a separate action here: the code
calls it in many places with `IF_NEEDED` or `PERIODIC`, any of which may or may
not write.  `done` counts the RPC calls and restarts; the properties use it to say
up to which call they hold (`NoFailedTip`, `FlagsIntact`, `Intact`), and section 5
shows what happens after it.

### CheckQueue, QueueProofs

A step is one critical section of `m_mutex`, one notification made outside it,
or the evaluation of a batch.  Every thread that enters the critical section of
`Loop` accounts for the batch it held and then returns, waits, leaves or takes a
new batch.  Spurious wakeups are steps of their own.

### TxRequestRules, TxRequest, TxRequestProofs

`TxRequest` is the implementation in `txrequest.cpp`: per transaction and peer
an announcement in one of the states of the multi-index (delayed, ready, best,
requested, completed), the counts of `m_peerinfo`, and the operations that keep
the split right (`PromoteCandidateReady`, `ChangeAndReselect`, `MakeCompleted`,
`SetTimePoint` with a clock that also goes backwards).  `SetTimePoint` and
`DisconnectedPeer` are taken one iteration at a time.  `TxRequestRules` is the
promise: the naive structure that `test/fuzz/txrequest.cpp` compares the tracker
with, where an announcement is a candidate, requested or completed and the peer
to ask is found by looking at all of them.  `ImplementsRules` is the refinement;
what `GetRequestable` returns (`offered`) is part of it.

### TxOrphanage, TxDownload, TxDownloadProofs

`TxOrphanage` has the five structures of the orphanage in one record and a
method per operator, the swap with the last list entry in `_EraseTx` included.  `Txids`
is the order in which its maps are walked.
`TxDownload` composes it with the tracker (by its rules, without times), the
reject and confirmed filters and the memory pool as a set of transactions.
Message handlers are atomic, as they hold `cs_main`; `ConnectTip` and
`DisconnectTip` happen in validation and queue events; `BlockConnected` is three
steps, one per lock it takes.  What `AcceptToMemoryPool` says is any verdict that
the inputs allow and `Policy` lists.  `missed` and `unrelayed` are history: what
entered the pool by other ways than relay, for which the code makes no promise.

### CallbackQueue, Callbacks, QueueProofs

`Callbacks` is `SingleThreadedSchedulerClient` on `CScheduler`, with the threads
that serve the scheduler, the producers of notifications, `m_load_block` among
them, and the stages of `Shutdown`.  A step is one critical section of
`m_callbacks_mutex` or `newTaskMutex`; `MaybeScheduleProcessQueue` is two, since
it schedules after it has released its lock.  Tasks in the scheduler's queue are
alike, so `tasks` is their number.  `CallbackQueue` is the promise: callbacks run
one at a time, to their end, in the order added.

### IndexSync, IndexSyncProofs

`BaseIndex` with the data of the coin statistics index.  `ThreadSync` is split
where it takes and releases `cs_main`; the callbacks come from a queue in order,
as `CallbackQueue` promises, and lag behind the chain.  The running hash
`m_muhash` is the block whose coins it describes, or `Bad` once a block was
applied to the wrong one, so that out-of-order appends and rewinds show.
Entries by height and by hash, the copy of the former to the latter in
`CustomRewind`, and the commit batch (`DB_BEST_BLOCK` with `DB_MUHASH`) are kept
apart, since a crash loses the memory and keeps the entries.  `known` is the block
index in memory and on disk: a crash also loses the blocks it got last.

### Pow

Compact targets, Blakecoin's retarget (a limit of 15% up to height 3500; after it
a limit of 3% for intervals that took less than a quarter of their time; at most a
doubling of the target), the work of a block and `PermittedDifficultyTransition`,
with the wrapping of 256-bit products (`Top`).

### HeadersSync, HeadersDownload

`HeadersSync` is the object of `headerssync.cpp`: presync with its commitments,
redownload with its buffer.  Headers form a tree whose targets follow `Pow`; a
commitment is one bit of a header, given by the salt, so that different headers
may match.  `GetFullHeader` puts a buffered header on the wrong predecessor as
`Garbled`, so a wrong `m_redownload_buffer_first_prev_hash` shows.
`HeadersDownload` is the conversation of a new node with one peer that runs the
same program: `getheaders`, `headers`, `inv`, `sendheaders`, the peer's
announcements while its chain grows or reorganises, the suppression of repeated
requests, late responses and headers learnt from others.

## 3. Runs

| run | question | instance | distinct states |
|---|---|---|---|
| `coins_cache` | do flags, memory count and refinement hold under every order of operations | 2 outpoints, 2 coins of different size, 2 blocks, base may report spent coins | 111,942 |
| `coins_replay` | does replay recover from every cut, also of a replay | a fork with the same transactions mined at different heights on both sides, 5 outpoints, 3 crashes or power losses | 169,357 |
| `block_files` | does what index and coins refer to survive crash, power loss and pruning | 4 blocks with a fork, 3 files of 2 blocks, 1 crash and 1 power loss, pruning on | 856,589 |
| `chain_activate` | is the candidate set exact and the best tip reached | 6 blocks in two branches, one invalid in the longer, preciousblock and a restart | 204,758 |
| `chain_invalidate` | the same with `invalidateblock` and `reconsiderblock` running while blocks arrive, and does every call end | 6 blocks in three branches, two invalidations, one reconsideration, one block failing its contextual check | 380,476 |
| `check_queue` | is the verdict exact, is nothing left behind, is no wakeup lost | 2 workers and the master, 4 checks of which one fails, batches of 2 | 88,009 |
| `tx_request` | do the indexes keep the tracker's rules | 3 peers, 1 transaction, 3 points in time, clock in both directions | 338,390 |
| `tx_download` | do tracker, orphanage, filters and pool stay consistent with each other | 2 peers, a parent and two conflicting children, one with a witness, a block with parent and child, 1 orphan and 1 announcement per peer at most, 2 pending events | 206,437 |
| `callbacks` | are callbacks serial and in order, do waits and shutdown end | 2 scheduler threads, 2 producers and the main thread, at most 2 queued callbacks, producers wait from the second on | 202,459 |
| `index_sync` | does the index follow the chain whatever comes late | a fork of 5 blocks, 4 changes of the chain or flushes, 1 crash or shutdown | 183,467 |
| `headers` | is the two-pass download sound, fair to the peer and complete | 13 headers in three branches, difficulty changes every 3 blocks, messages of 2 headers, 2 tips of the peer, 1 late response | 700,034 |
| `index_rewind` | an assertion the code does not keep; see section 5 | as `index_sync` | stops at the violation |

What the passing runs show:

* **coins_cache.** `EntriesConsistent`: FRESH means the level below has no unspent
  coin, an entry that is not DIRTY agrees with the level below, the flags are
  among those `SanityCheck` allows, and `BatchWrite` never reaches its
  `logic_error`.  `UsageExact`: the memory count never drifts.
  `ImplementsViews` is the refinement.
* **coins_replay.** `DatabaseExact`: an unmarked database is the UTXO set of its
  best block, a marked one lies coin by coin between its two heads (which makes the
  replay idempotent), and a write that meets a mark is going to the same block.
  `CoinsTipExact`: the recovered set is the UTXO set of the tip, whatever was cut
  and however often.  `CleanDisconnect`: `DisconnectTip` never meets the result it
  could not survive.
* **block_files.** `IndexReadable`, `CoinsAreBehindIndex` and `RestartPossible`
  relate the three stores; `PruneSparesRecent` is the promise in
  `node/blockstorage.h`.
* **chain_activate, chain_invalidate.** `CheckBlockIndex` gathers the statements
  of the function of that name and the assertion of `PruneBlockIndexCandidates`,
  each up to the call that is known to break it (section 5).
  `ProgressBeforeUnlock` is a comment of `ActivateBestChain`; `TipIsBest`,
  `TipIsBestSoFar` and `ActiveChainValid` are the purpose of it all;
  `HeadersAvoidFailed` is what `m_failed_blocks` is for; `CallsEnd` is liveness.
* **check_queue.** `ResultExact` and `NoCheckOutlivesWait`, and the liveness of
  `Wait` and `StopWorkerThreads` (`WaitReturns`, `StopEnds`).
* **tx_request.** `SanityCheck` and `PeerInfoExact` are the function of that name
  and `RecomputePeerInfo`, between any two iterations; `ImplementsRules` is the
  refinement.
* **tx_download.** `GonePeersForgotten`: what `FinalizeNode` asserts of tracker and
  orphanage, per peer.  `OrphanageOK`: the indexes agree and keep the limit.
  `NoOrphanOverlooked`: an orphan whose inputs have all come by relay is in its
  peer's work set.  `AnnouncedIsWanted`: nothing that the node has is tracked for
  download once the events about it were delivered.
* **callbacks.** `ImplementsQueue` is the refinement; `SyncEnds` and
  `ShutdownEndsOrCutOff` are liveness, with the exception of section 5.
* **index_sync.** `StatsExact`: an entry that is found is that of its block, every
  block up to the best one is found, and the two halves of a commit belong
  together.  `SyncedWhenDrained`, `WaitKeepsPromise` and `CatchesUp`: stale
  callbacks do no harm, `BlockUntilSyncedToCurrentChain` means what it says, and
  the index gets there.
* **headers.** `SyncConsistent`: commitments and buffer stand for the chains they
  should.  `ReleasedWithWork`: no header enters the index without work behind it.
  `HonestPeerKept`: a peer that answers in time is neither punished nor dropped.
  `CatchesUp`: the node ends with the chain of such a peer.  Both hold for
  behaviours in which no response is late and no redownload is `Torn`: the peer does
  not leave the chain of the first pass below `MinWork` and after a header that is in
  the buffer and not yet in the block index.  `HonestPeerKept` also assumes that no
  announcement fails to connect.  (§5 says what happens otherwise.)  All other
  reorganisations are covered.  In presync the answer starts at the fork, the sync is
  given up, and the same message begins another; in a redownload whose buffer has
  left the peer's chain it is the same; one above `MinWork` disturbs no sync.

Deadlock is checked in `coins_cache`, `coins_replay`, `check_queue`, `tx_request`
and `tx_download`.  The other models have final states: each block arrives once,
a shutdown ends, a conversation falls silent, and a pruned node may be unable to
start.

Every state machine has a type invariant `TypeOK`.  Where it has proofs, the
invariant (or the `Typed` of its proof module) is part of what is proved; that of
`HeadersDownload` was checked with TLC on the instance above and is not among the
properties of the run.

### Bounds, and why they are enough

* Two outpoints give the caches an entry that is operated on and one that must
  not change; the invariant is per outpoint, and the proof removes the bound.
* The fork of `coins_replay` has the shapes that matter: a transaction that is
  on both sides, an output created and spent inside one block, blocks undone
  and redone in one transition.  Three crashes reach a replay that is itself
  cut twice.  The proof removes the bounds.
* Files of two blocks make a block leave its file, a file below the last hold a
  block of a side branch, and a prune hit the file of the undone branch.  The
  same properties were checked on a fork of 5 blocks (10.4 million states), with
  two crashes and two power losses on the fork of 4 (2.4 million), and on a chain
  without a fork; the proofs remove the bounds.
* The trees of `ChainSelection` have a tie in work, a branch that overtakes, an
  invalid block in the middle of a branch with a child and a grandchild, and
  blocks that arrive before their parents.  `MaxInvalidate`,
  `MaxReconsider`, `MaxPrecious` and `MaxRestart` bound the calls; two
  invalidations are enough for one to hit what another left behind.  The safety
  properties are proved for every tree and all bounds.
* Four checks with batches of two give every thread something to take and a
  batch that is shared unevenly.  Each check is used once, which bounds the
  rounds.
* Three peers give the tracker a best, a ready and a delayed candidate beside each
  other.  Transactions only meet in the counts per peer, which the proof covers.
* In `tx_download` a second child conflicts with the first, one orphan exceeds the
  limit and one announcement the peer's limit; two pending events let a block be
  connected and disconnected before the node hears of either.  The proof has any
  number of peers, transactions, blocks and events.
* In `callbacks` a second callback makes a producer wait (`Limit`); `MaxPending`
  and `MaxTasks` hold back new notifications, never the work on the queue; the safety part is proved without
  them.
* In `index_sync` four changes are enough for a reorganisation before, during and
  after the sync with a flush in between.  A chain so short has a locator that
  lists all its blocks.  The safety properties are proved for every tree and any
  number of changes and crashes.
* In `headers` the peer's chain changes once, at each moment of both passes.  From
  `a5` it may go to `b6`, which parts from it at height 2, below `MinWork`; from `a6`
  to `c7`, which parts at height 5, where the work first suffices; from `a4`, which
  has too little work to be served, to any longer chain.  The bits of the branches
  `a` and `b` differ, or agree as far as they are compared.  With three tips
  (`MaxTips = 3`, `FirstTips = {a5}`, 2.5 million states) `HonestPeerKept` and
  `CatchesUp` hold as well; that takes too long to be a run.  The numbers of
  `Pow` are small, with a mantissa of 4 bits, so that rounding happens.

### Fairness

* `CheckQueue!FairSpec`: weak fairness of each thread's `Loop` (a runnable
  thread runs; `m_mutex` is held for short critical sections only), of the
  notification that follows `Add`, of `Wait` after `Control` (the destructor of
  `CCheckQueueControl` waits if the caller did not), and of the stages of
  `StopWorkerThreads`.  Nothing is assumed about spurious wakeups, so no
  liveness rests on them.
* `ChainSelection!FairSpec`: weak fairness of a call in progress and of the
  pending call (`wanted`): the thread that holds `m_chainstate_mutex` goes on.
  Nothing is assumed about the arrival of blocks or the RPC calls.
* `Callbacks!CallbacksFairSpec`: weak fairness of every thread in the scheduler, in
  `ProcessQueue` (a callback ends), in `MaybeScheduleProcessQueue` and in a wait
  that is over; strong fairness of `Leave`, because a producer tests
  `ShutdownRequested` in every round, and it cannot leave in the middle of one.
  Nothing is assumed about spurious wakeups or the arrival of notifications.
* `IndexSync!FairSpec`: weak fairness of `ThreadSync`, of the callback queue (which
  `Callbacks` justifies), of a shutdown in progress and of a restart.  Nothing is
  assumed about the chain, whose changes are bounded.
* `HeadersDownload!FairSpec`: both message threads take up the next message, and
  the peer announces what it has queued.  Nothing is assumed about late responses.

## 4. Proofs

TLAPS proves the following for every value of the constants.  Where the result is
an invariant, the argument is an inductive invariant that was checked with TLC
before it was proved.

**CoinsCacheProofs** (assumes: `Spent`, `Absent`, `NoBlock` are distinct from
the values they stand beside, `CoinsAssumption`; for `UsageCorrect` also that there
are finitely many outpoints and sizes are natural numbers, `UsageAssumption`).  The invariants of the runs
mention two layers, but what an operation needs is local: `EntryOK(e, below)`
says an entry is consistent with the coin shown by the layer below.  One lemma
per entry operation (fetch, add, spend, merge, sync, uncache) shows that it
keeps entries consistent and what it does to the coin shown; the actions then
follow pointwise.  Results: `TypeCorrect`, `FlagsCorrect`, `FreshCorrect`,
`CleanCorrect`, `NoLogicError`, together `EntriesCorrect`, and `Refinement`, that
`CoinsCache` implements `CoinsViews` (initial states map to initial states, every
step to a step or a stutter).  `UsageCorrect` is `UsageExact`: `cachedCoinsUsage` is
a sum over the entries, and the fold that adds it up has no equation of its own.
The sums are therefore described by a relation (`Sums`), shown to exist and to be
unique by induction over the sets of outpoints (`SubsetInduction`, itself from the
well-foundedness of the naturals), and then by how they change when one term
changes (`TotalPoint`) or all do (`TotalPlus`, for `BatchWrite`).

**ChainSelectionProofs** (assumes: the blocks form a tree under `Parent`,
`TreeAssumption`, stated as induction along it; finitely many blocks, positive
proofs of work, different addresses, `ChainAssumption`).  Everything is proved for
any tree, any sets of invalid blocks and any number of calls.  None of the
properties is inductive: that the tip is the best block rests on what the candidates
miss in the middle of a round, and that in turn on what the marks mean.  The
invariant is built in layers.  `Basis`: types, `linked` is closed under `Parent`,
every branch that was ever connected is stored and free of `Bad` blocks, and where
the target lies relative to the tip at each `pc`.  `CleanTips`: no mark on the active
chain or on the branch to the target.  `Marks`: a block without an invalid ancestor
has no mark, and is linked or waits in `m_blocks_unlinked`.  `Waiting`: any other
block that is not linked has an ancestor that will never be stored.  `Avoid`: an
unmarked block stands on no block that `ConnectTip` rejected, except one that is
still in `m_failed_blocks`.  `Sequence`: what `preciousblock` has done to the
sequence ids.  `Choice`: no candidate is worse than the tip; every good block that
is not worse than the tip is a candidate, and during a round every one that is not
worse than the tip at its start either (the part that is needed because
`DisconnectToFork` steps back); the target of the round is among them.  Results:
`TypeCorrect`, `ActiveChainIsValid`, `HeadersStandOnValid`, `TipIsBestTheorem`,
`CheckBlockIndexHolds`, `RoundsMakeProgress`, which are all safety properties of the
two runs, and `TipIsBestCorrect`: without `invalidateblock` and `reconsiderblock`,
and with at most two calls of `preciousblock`, the tip is the best block at all times
and not only so far.

The same module has the proofs about `Pow` (assumes: units are powers of the base, the
limit fits the compact form, the scaled limit does not wrap, `CompactAssumption`,
`ParamsAssumption`).  Scaling and rounding are monotone, rounding goes down, and the
limits on the timespan that `CalculateNextWorkRequired` applies lie between the two
that `PermittedDifficultyTransition` assumes, on both sides of the switch of rules.
Results: `RetargetWithinLimit`, and `RetargetPermitted`: a header whose target is
right is never refused by the download.

**QueueProofs, CheckQueue** (assumes: finitely many workers and checks, a positive
batch size, the master is not a worker).  `ResultExact` is not inductive: the
verdict is spread over the queue, the batches, each thread's `fOk` and
`fAllOk`.  The invariant adds that queue and batches are disjoint (`Apart`), who
may hold a batch (`HeldOK`), that the counters are cardinalities (`TodoExact`,
`Counted`), that as long as `fAllOk` holds every failing check of the round is
still outstanding (`Verdict`), and what the master knows when `Wait` has
returned (`MasterOK`).  Results: `TypeCorrect`, `TodoCorrect`, `ResultCorrect`,
`NoneOutlives`, `CountsCorrect`.

**BlockFilesProofs** (assumes: `BlockFilesAssumption`, and that every block's
ancestry ends in the genesis block, so that `Height` and `Ancestors` are what
their recursive equations say, `TreeAssumption`).  `IndexReadable` is not
inductive: a flush that prunes must not refer to a file in either index when it
unlinks it.  The invariant says of both indexes that they fit the files and that
the file records cover the heights (`Sound`), that what the disk's index needs is
synced (`DiskOK`), that in memory only the last file may be unsynced
(`MemoryOK`), which index is already cut loose from the files to be unlinked
(`FlushOK`), and, without pruning, that every branch the coins name is stored
(`BranchOK`).  Results: `TypeCorrect`, `CleanCorrect`, `Readable`,
`DataSurvives` (any number of power losses, with pruning), `CoinsBehind`,
`Restartable` (both without pruning, where `NothingPruned` always holds), and
`PruneSpares` (for `MinBlocksToKeep <= PruneAfterHeight`, which the main network
satisfies and regtest does not: see section 5).

**TxRequestProofs** (assumes: finitely many peers and transactions, times are
integers, no two peers have the same rank for a transaction,
`TxRequestAssumption`).  `SanityCheck` and `PeerInfoExact` with the types are
inductive as they stand, since both hold between iterations.  The work is in the
rows: for each operation on a row (`Promoted`, `Reselected`, `MadeCompleted`,
...) a lemma says that it keeps `RowOK`, that the best announcement is the one of
highest priority (a greatest element of a finite set exists, by well-foundedness of
the naturals), and how each count changes.  Results: `TrackerConsistent`,
`SanityCorrect`, `PeerInfoCorrect`, and `TrackerRefinement`, that `TxRequest`
implements `TxRequestRules`: the peer that the tracker offers a transaction to is
the one that the search through all announcements finds.

**QueueProofs, Callbacks** (assumes: at least one thread, kinds of actors are disjoint,
`CallbacksAssumption`).  That callbacks do not overlap rests on one flag:
`FlagOwned` says the flag is set exactly while one executor is between taking a
callback and clearing it.  `Stages` says what is true at each stage of the
shutdown (who is left), and `NothingStranded` that somebody will come to a queue
that is not empty; the three are inductive together.  Results: `QueueConsistent`,
`NothingStrandedCorrect`, and `QueueRefinement`, that `Callbacks` implements
`CallbackQueue`.

**CoinsReplayProofs** (assumes: the blocks form a tree, `TreeAssumption`,
`TxsAssumption`, and every block is valid on its parent, `ValidAssumption`).  Proved for
any tree, any transactions and any number of crashes.  That a replay repairs a database
cut at an unknown place does not follow from what the blocks do to a UTXO set, since the
coins it starts from are not one.  It follows from this: a block decides the coins it
touches, whatever they were before, and leaves the others alone, and so does undoing it.
`Between(c, new, a)` says that each coin of `c` is the one it shall become or the one it
is at block `a`; undoing a block of the old branch, and then applying one of the new,
moves `a` one step and keeps it (`OneBack`, `OneForward`), and when `a` has arrived the
two are the same (`ReplayExact`).  The same relation is what a partial batch leaves
behind, so a replay that was cut may be replayed.  The invariant is that the database
and what is durable of it are both `Sound`.  The recursive functions of the model are
shown to satisfy their equations by `Recursion`, along a tree or an interval.  Results:
`TypeCorrect`, `CoinsTipCorrect`, `DatabaseCorrect`, `DisconnectCorrect`.

**IndexSyncProofs** (assumes: `TreeAssumption`, `IndexAssumption`).  Proved for any tree
and any number of changes, crashes and shutdowns.  `Stored` says what the database holds
even while the process is gone: the entries on the branch of the committed block, by
height or by hash, are those of their blocks.  `Running`, `Level` and `Position` say what
the index in memory adds to it at each place of `ThreadSync`.  What makes a stale callback
harmless is a property of the queue: each event stands on the block connected last before
it (`Events`), and an index that is behind the tip, or behind the block a caller of
`BlockUntilSyncedToCurrentChain` waits for, finds an event in the queue that it will not
refuse (`Promise`).  Results: `TypeCorrect`, `StatsCorrect`, `DrainedCorrect`,
`WaitCorrect`.

**TxDownloadProofs** (assumes: `OrphanageAssumption`, `TxDownloadAssumption`).  Proved for
any peers, transactions, policy and blocks.  The four properties lean on each other:
that nothing the node has is tracked holds for orphans only because an orphan is taken
from the tracker when it is stored, and stays so only because an announcement of an orphan
is refused.  `Unheard` says it for the middle of an event: what the tracker follows is
neither orphan nor rejected, and the node has it only by a way it is not told of at once.
`BlockConnected` adds to the filter before the tracker forgets; `Staged` says that the
transactions in between are those of the block being delivered.  The orphanage is treated
on its own first: each method keeps the indexes in agreement (`IndexesAgree`), the swap in
`_EraseTx` included, and removes or puts to work exactly what it should (`Reduced`,
`PutToWork`, `TakenFrom`); its loops are recursive functions on an interval, for which
`IndexRecursion` gives the step.  Results: `TypeCorrect`, `GonePeersCorrect`,
`OrphanageCorrect`, `NoOrphanOverlookedCorrect`, `AnnouncedIsWantedCorrect`.

Only model-checked:

* liveness (`WaitReturns`, `StopEnds`, `CallsEnd`, `SyncEnds`,
  `ShutdownEndsOrCutOff`, `CatchesUp`), because fairness and ENABLED are out of
  TLAPS's reach here;
* `SyncConsistent`, `ReleasedWithWork` and `HonestPeerKept` of the headers download:
  they say that a sequence of one-bit commitments and the work summed up in two passes
  belong to the same chain, which is a statement about folds over sequences of headers
  and needs an induction over them with the property as a parameter;
* `RestartPossible` and `CoinsAreBehindIndex` with pruning on, where they are stated up
  to the first prune.

## 5. Findings

**index_rewind.**  `ThreadSync` rewinds from its own position `pindex`
(`index/base.cpp:186`), but `m_best_block_index` is brought up to it only when the
locator is written, every 30 seconds, and at the end.  A reorganisation while an
index is catching up therefore meets `assert(current_tip == m_best_block_index)`
(`index/base.cpp:253`) with two different blocks.  In `index_sync` the abort is
followed by a restart, and the index catches up all the same.

The following disagreements have a configuration of their own, in which TLC finds
the violation; the runs state their properties up to the point where these begin.

| configuration | property | what the code does | what it disagrees with |
|---|---|---|---|
| `MCBlockFilesShort.cfg` | `PruneSparesRecent` | on a chain shorter than `MIN_BLOCKS_TO_KEEP` with a smaller `nPruneAfterHeight` (regtest), the unsigned difference at `node/blockstorage.cpp:162` wraps and recent files are pruned | `node/blockstorage.h:108` |
| `MCChainLinking.cfg` | `UnlinkedExact` | a block received over a failed parent that still misses an ancestor is not put into `m_blocks_unlinked` (`validation.cpp:3481`) and stays unlinked when the ancestor comes | `CheckBlockIndex`, `validation.cpp:4860` |
| `MCChainStart.cfg` | `SomeCandidateLeft` | when the index was written after `invalidateblock` but the coins were not, a restart makes a failed block the tip (`validation.cpp:4211`) and no candidate is left | `validation.cpp:2980` |
| `MCChainReconsider.cfg` | `TipIsBest` | `ResetBlockFailureFlags` clears ancestors without making them candidates (`validation.cpp:3432`) | help text, `rpc/blockchain.cpp:1567` |
| `MCChainPrecious.cfg` | `CandidatesExact` | `preciousblock` resets `nBlockReverseSequenceId` when the best work has grown (`validation.cpp:3246`), so a later call may give the tip a higher sequence id than it had; a block of the same work that was pruned from the candidates before is then no worse than the tip | `CheckBlockIndex`, `validation.cpp:4887` |
| `MCChainEmpty.cfg` | `SomeCandidateLeft` | `invalidateblock`, then `reconsiderblock` of a descendant: the blocks that are cleared below it are no candidates, and when the next block fails in `ConnectBlock` none is left | `validation.cpp:2980` |
| `MCIndexSyncRestart.cfg` | `StartsAgain` | the index commits its best block without regard to the coins database; after a crash the tip may be an ancestor of it, `FindForkInGlobalIndex` (`validation.cpp:125`) then returns the tip, whose statistics are not those of `DB_MUHASH`, and `CustomInit` refuses to start | `index/coinstatsindex.cpp:236` |
| `MCHeadersTorn.cfg` | `AlwaysCatchesUp` | the peer reorganises during the redownload: its next headers fail the commitments and connect only to headers that are in the buffer and not in the index, so it gets 10 points (`net_processing.cpp:2880`) and nothing is asked for; its announcement came while a request was under way and asked for nothing either (`net_processing.cpp:2660`); the node waits for the next block | "always being able to reorg to whatever the most-work chain is", `headerssync.h:69`; for presync, where `headerssync.cpp:152` expects a new sync, there is one |
| `MCCallbacksShutdown.cfg` | `ShutdownEnds` | `Shutdown` stops the scheduler (`init.cpp:263`) before it joins `m_load_block` (`init.cpp:264`); an import thread that waits in `LimitValidationInterfaceQueue` is never woken | that a requested shutdown ends; the order is the one `init.cpp:261` describes |

Further observations, made with the models:

* `FlushBlockFile` syncs the last file pair only (`node/blockstorage.cpp`
  539-559), so undo data written to an earlier rev file may be unsynced when the
  index is written, although `validation.cpp:2528` says "First make sure all
  block and undo data is flushed to disk."  The undo part of `IndexReadable` is
  therefore stated up to the first power loss.
* With pruning on, files are unlinked before the coins are flushed
  (`validation.cpp:2544`); after a crash in between, the replay of a
  reorganisation may miss a block.  `RestartPossible` is therefore stated while
  nothing is pruned.
* A block that arrives between two steps of `InvalidateBlock` is missing from
  the candidates until its final clean-up; `CandidatesExact` is stated outside of
  it.
* The shortcut of `AcceptBlockHeader` for a parent that was once fully validated
  (`validation.cpp:3895`) lets a header in above a block that was invalidated
  later, off the active chain; `HeadersAvoidFailed` is checked without
  `invalidateblock`.
* `ResetBlockFailureFlags` leaves the siblings of the block marked
  `FAILED_CHILD`; `FailedHasCause` is stated until it is called.
* `AcceptBlock` (`validation.cpp:4054`) marks a block failed without entering it
  into `m_failed_blocks`; headers above it are accepted if they come over an
  unmarked descendant.
* The order of arrival that breaks ties is not stored; after a restart the
  pointer order decides between equal tips (`node/blockstorage.cpp:38`).
* A peer that answers a request after the node has sent another may be given
  misbehaviour points for headers that do not connect; `HonestPeerKept` and
  `CatchesUp` are stated for the other peers (`late`).
* A header that the peer announces unasked while a sync is in progress is taken for
  the answer to the sync's request (`net_processing.cpp:2519`): the sync is given up
  and `HandleFewUnconnectingHeaders` sends a second request.  The answers to both may
  again cost the peer points.  It takes a peer that was on a chain the node has from
  elsewhere and moved to one it has not, and two changes of the peer's chain;
  `HonestPeerKept` is stated while no announcement fails to connect
  (`unconnecting`), `CatchesUp` without that.
* An output that becomes available through a block, or a transaction that the
  wallet or an RPC adds, puts no orphan to work, and a transaction added in the
  latter way leaves its own announcements in the tracker; `NoOrphanOverlooked` is
  stated for relay, `AnnouncedIsWanted` for relay and blocks whose event was
  delivered.

## 6. What is not modelled

In the modelled parts: snapshots (assumeutxo) and `m_disabled`; `-reindex`,
`fKnown` positions and import; prune locks and `-fastprune`; pruned data in
`ChainSelection` (`fMissingData`); the limits on unrequested blocks
(`fTooFarAhead`, minimum chain work); the upgrade and the cursor of the coins
database; the order in which `GetRequestable` returns its results; tasks
scheduled for a later time; registering listeners; disk errors of an index, and the
transaction and block filter indexes, which share `BaseIndex`; networks with blocks
of minimum difficulty; a snapshot that names an outpoint twice (`EmplaceCoin`) and a
call of `AddCoin` that throws; a shutdown between the steps of `InvalidateBlock`; the
flushes inside `ConnectTip` and `DisconnectTip` (`ChainSelection` flushes between steps); in the headers download, the time limit of
`m_max_commitments` (a constant here), several peers in one sync, and the download
of blocks.  What a script, block or header check computes is an input.

Not modelled at all, with the reason per part in `PROJECT.json`:

* the memory pool's ancestor state, limits and replacement, package policy, fees,
  mining and compact blocks, which are arithmetic over that state; `TxDownload` has
  the pool as a set with the verdicts of acceptance;
* version bits: a function of the chain, cached by block;
* block download and stalling, address relay, connections, address tables, the ban
  list;
* front ends (RPC, REST, GUI, ZMQ), the wallet;
* cryptography, scripts and encodings, which are pure functions on byte strings or
  large numbers.
