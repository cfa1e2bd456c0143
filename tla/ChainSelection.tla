--------------------------- MODULE ChainSelection ---------------------------
(***************************************************************************)
(* How the active chain is chosen: headers and blocks enter the block      *)
(* index, setBlockIndexCandidates holds the tips worth trying,             *)
(* ActivateBestChain moves the tip towards the best of them, and           *)
(* InvalidateBlock, ResetBlockFailureFlags and PreciousBlock change what   *)
(* is best (validation.cpp).                                               *)
(*                                                                         *)
(* cs_main serialises the steps.  ActivateBestChain and InvalidateBlock    *)
(* hold m_chainstate_mutex and give cs_main up between their rounds, so    *)
(* the other operations interleave with them there.  Nothing is pruned     *)
(* and there is no snapshot chainstate.                                    *)
(***************************************************************************)
EXTENDS Integers, FiniteSets

CONSTANTS
  Block, Genesis, Parent, NoBlock,
  Proof,        \* GetBlockProof
  Addr,         \* the address of the CBlockIndex, the last tie breaker
  Bad,          \* blocks that ConnectBlock rejects
  BadBody,      \* blocks that ContextualCheckBlock rejects
  MaxInvalidate, MaxReconsider, MaxPrecious, MaxRestart   \* bounds

VARIABLES
  known,        \* m_block_index
  have,         \* blocks received: nTx > 0, BLOCK_HAVE_DATA
  linked,       \* nChainTx # 0, HaveTxsDownloaded()
  unlinked,     \* m_blocks_unlinked, by its second components
  failed,       \* nStatus & BLOCK_FAILED_MASK
  scripts,      \* BLOCK_VALID_SCRIPTS reached
  failedBlocks, \* m_failed_blocks
  seq,          \* nSequenceId
  nextSeq, revSeq, lastPrecious,   \* nBlockSequenceId, nBlockReverseSequenceId,
                                   \* nLastPreciousChainwork
  candidates,   \* setBlockIndexCandidates
  tip,          \* m_chain.Tip()
  coinsTip,     \* the best block of the coins database on disk
  pc,           \* where the holder of m_chainstate_mutex is
  mostWork, startTip, oldTip,      \* locals of ActivateBestChain and its step;
                                   \* oldTip is NoBlock until a step is made
  inv,          \* locals of InvalidateBlock
  wanted,       \* some thread will call ActivateBestChain
  done          \* operations used up

index == <<known, have, linked, unlinked, failed, scripts, failedBlocks>>
order == <<seq, nextSeq, revSeq, lastPrecious>>
locals == <<mostWork, startTip, oldTip>>
vars == <<index, order, candidates, tip, coinsTip, pc, locals, inv, wanted, done>>

Branch[b \in Block] == IF b = Genesis THEN {b} ELSE {b} \cup Branch[Parent[b]]
Ancestors == [b \in Block |-> Branch[b]]
Height(b) == Cardinality(Ancestors[b]) - 1
\* nChainWork.
ChainWork[b \in Block] ==
  IF b = Genesis THEN Proof[b] ELSE ChainWork[Parent[b]] + Proof[b]
Work == [b \in Block |-> ChainWork[b]]
Descendants(b) == {d \in Block : b \in Ancestors[d]}

\* Blocks form a tree under their parents: what holds of the genesis block and
\* passes from a block to its children holds of every block.
ASSUME TreeAssumption ==
  /\ Genesis \in Block
  /\ Parent \in [Block \ {Genesis} -> Block]
  /\ \A S \in SUBSET Block :
       Genesis \in S /\ (\A b \in Block \ {Genesis} : Parent[b] \in S => b \in S) => S = Block

ASSUME ChainAssumption ==
  /\ IsFiniteSet(Block) /\ \A S \in SUBSET Block : Cardinality(S) \in Nat
  /\ NoBlock \notin Block
  /\ Proof \in [Block -> Nat \ {0}]
  /\ Addr \in [Block -> Nat] /\ \A a, b \in Block : Addr[a] = Addr[b] => a = b
  /\ Bad \cup BadBody \subseteq Block \ {Genesis}
  /\ {MaxInvalidate, MaxReconsider, MaxPrecious, MaxRestart} \subseteq Nat

NoInv == [block |-> NoBlock, mark |-> NoBlock, byWork |-> {}]
Bounds == [invalidate |-> MaxInvalidate, reconsider |-> MaxReconsider,
           precious |-> MaxPrecious, restart |-> MaxRestart]

TypeOK ==
  /\ known \in SUBSET Block
  /\ {have, linked, unlinked, scripts, failedBlocks, candidates} \subseteq SUBSET known
  /\ failed \in [Block -> SUBSET {"VALID", "CHILD"}]
  /\ seq \in [Block -> Int]
  /\ {nextSeq, lastPrecious} \subseteq Nat /\ revSeq \in Int
  /\ {tip, coinsTip} \subseteq Block
  /\ pc \in {"idle", "loop", "find", "connect", "check", "invalidate"}
  /\ {mostWork, startTip, oldTip} \subseteq Block \cup {NoBlock}
  /\ inv \in [block : Block \cup {NoBlock}, mark : Block \cup {NoBlock}, byWork : SUBSET Block]
  /\ wanted \in BOOLEAN
  /\ \A k \in DOMAIN Bounds : done[k] \in 0..Bounds[k]

\* CBlockIndexWorkComparator: a is worse than b, under sequence ids s.
Worse(s, a, b) ==
  \/ Work[a] < Work[b]
  \/ Work[a] = Work[b] /\ (s[a] > s[b] \/ (s[a] = s[b] /\ Addr[a] > Addr[b]))

\* m_chain.Contains.
Chain == Ancestors[tip]
\* IsValid(BLOCK_VALID_TRANSACTIONS) && HaveTxsDownloaded().
Eligible(b) == failed[b] = {} /\ b \in have /\ b \in linked

\* cs_main is free: no round of ActivateBestChain is under way.
Unlocked == pc \in {"idle", "loop", "invalidate"}
MutexFree == pc = "idle"
Uses(op) == done[op] < Bounds[op] /\ done' = [done EXCEPT ![op] = @ + 1]

\* Mutant: nothing is deleted.
PrunedNothing(cands, s, t) == cands

\* PruneBlockIndexCandidates.
Pruned(cands, s, t) == {c \in cands : ~Worse(s, c, t)}
-----------------------------------------------------------------------------
\* LoadGenesisBlock, and the ActivateBestChain that connected it.
Init ==
  /\ known = {Genesis} /\ have = {Genesis} /\ linked = {Genesis} /\ unlinked = {}
  /\ failed = [b \in Block |-> {}]
  /\ scripts = {} /\ failedBlocks = {}
  /\ seq = [b \in Block |-> IF b = Genesis THEN 1 ELSE 0]
  /\ nextSeq = 2 /\ revSeq = -1 /\ lastPrecious = 0
  /\ candidates = {Genesis} /\ tip = Genesis /\ coinsTip = Genesis
  /\ pc = "idle" /\ mostWork = NoBlock /\ startTip = NoBlock /\ oldTip = NoBlock
  /\ inv = NoInv /\ wanted = FALSE
  /\ done = [k \in DOMAIN Bounds |-> 0]

\* Mutant: only the parent is asked.
FailedAncestorsIgnored(prev) == {}

\* The blocks of m_failed_blocks that prev descends from; the search is skipped
\* when prev is fully validated.
FailedAncestors(prev) ==
  IF prev \in scripts THEN {} ELSE failedBlocks \cap Ancestors[prev]

\* AcceptBlockHeader of a new header.  A header whose parent failed changes
\* nothing; one that descends from a failed block marks the blocks between.
AcceptBlockHeader(b) ==
  LET prev == Parent[b] IN
  /\ Unlocked
  /\ b \notin known /\ prev \in known
  /\ failed[prev] = {}
  /\ IF FailedAncestors(prev) = {}
       THEN known' = known \cup {b} /\ UNCHANGED failed
       ELSE \E f \in FailedAncestors(prev) :
              /\ failed' = [x \in Block |->
                   IF x \in Ancestors[prev] \ Ancestors[f] THEN failed[x] \cup {"CHILD"}
                                                           ELSE failed[x]]
              /\ UNCHANGED known
  /\ UNCHANGED <<have, linked, unlinked, scripts, failedBlocks, order, candidates, tip,
                 coinsTip, pc, locals, inv, wanted, done>>

\* ReceivedBlockTransactions: the blocks that b links, b first, each before its
\* descendants.  m_blocks_unlinked yields siblings in the order they came.
LinkedBy(b) ==
  {d \in Descendants(b) : \A x \in (Ancestors[d] \ Ancestors[b]) : x \in unlinked}
Orders(S) ==
  {f \in [S -> nextSeq..(nextSeq + Cardinality(S) - 1)] :
     \A x, y \in S : x # y => f[x] # f[y] /\ (Height(x) < Height(y) => f[x] < f[y])}

\* Mutant: links the block alone.
ReceivedBlockTransactionsAlone(b) ==
  /\ linked' = linked \cup {b}
  /\ seq' = [seq EXCEPT ![b] = nextSeq]
  /\ nextSeq' = nextSeq + 1
  /\ unlinked' = unlinked
  /\ candidates' = candidates \cup {x \in {b} : ~Worse(seq', x, tip)}

ReceivedBlockTransactions(b) ==
  IF Parent[b] \in linked
    THEN LET S == LinkedBy(b) IN
         \E f \in Orders(S) :
           /\ linked' = linked \cup S
           /\ seq' = [x \in Block |-> IF x \in S THEN f[x] ELSE seq[x]]
           /\ nextSeq' = nextSeq + Cardinality(S)
           /\ unlinked' = unlinked \ S
           \* TryAddBlockIndexCandidate
           /\ candidates' = candidates \cup {x \in S : ~Worse(seq', x, tip)}
    ELSE /\ unlinked' = IF failed[Parent[b]] = {} THEN unlinked \cup {b} ELSE unlinked
         /\ UNCHANGED <<linked, seq, nextSeq, candidates>>

\* The early returns of AcceptBlock.
Takes(b, requested) ==
  /\ b \in known /\ failed[b] = {}
  /\ b \notin have
  /\ requested \/ Work[b] >= Work[tip]

\* ProcessNewBlock and AcceptBlock for a block whose header is known.
AcceptBlock(b, requested) ==
  /\ Unlocked
  /\ Takes(b, requested)
  /\ IF b \in BadBody
       THEN /\ failed' = [failed EXCEPT ![b] = @ \cup {"VALID"}]
            /\ UNCHANGED <<have, linked, unlinked, seq, nextSeq, candidates, wanted>>
       ELSE /\ have' = have \cup {b}
            /\ ReceivedBlockTransactions(b)
            /\ wanted' = TRUE
            /\ UNCHANGED failed
  /\ UNCHANGED <<known, scripts, failedBlocks, revSeq, lastPrecious, tip, coinsTip, pc,
                 locals, inv, done>>
-----------------------------------------------------------------------------
\* ActivateBestChain: take m_chainstate_mutex.
ActivateBestChain ==
  /\ MutexFree /\ wanted
  /\ wanted' = FALSE
  /\ pc' = "loop"
  /\ UNCHANGED <<index, order, candidates, tip, coinsTip, locals, inv, done>>

\* A round begins: cs_main is taken.
StartRound ==
  /\ pc = "loop"
  /\ startTip' = tip /\ oldTip' = NoBlock
  /\ pc' = "find"
  /\ UNCHANGED <<index, order, candidates, tip, coinsTip, mostWork, inv, wanted, done>>

\* Mutant: one round per call.
EndRoundOnce(newMostWork, blocksConnected) ==
  /\ pc' = "idle"
  /\ mostWork' = NoBlock /\ startTip' = NoBlock /\ oldTip' = NoBlock

\* Leaving the inner loop releases cs_main; the function returns when nothing
\* was done or the most-work block is reached.
EndRound(newMostWork, blocksConnected) ==
  LET again == blocksConnected /\ tip # newMostWork IN
  /\ pc' = IF again THEN "loop" ELSE "idle"
  /\ mostWork' = IF again THEN newMostWork ELSE NoBlock
  /\ startTip' = NoBlock /\ oldTip' = NoBlock

\* The last candidate in the order of the set.
Best(c) == c \in candidates /\ \A d \in candidates \ {c} : Worse(seq, d, c)
\* The failed blocks on the way from the active chain to c.
FailedPath(c) == {x \in Ancestors[c] \ Chain : failed[x] # {}}

\* Mutant: the candidate stays.
ErasedNothing(c, worst) == {}

\* The blocks from c down to the failed one.
Erased(c, worst) == Ancestors[c] \ (Ancestors[worst] \ {worst})

\* FindMostWorkChain, one candidate: dropped with its branch down to the
\* highest failed block when there is one.
DropFailedCandidate ==
  \E c \in candidates : \E worst \in FailedPath(c) :
    /\ pc = "find" /\ mostWork = NoBlock
    /\ Best(c) /\ FailedPath(c) \subseteq Ancestors[worst]
    /\ failed' = [x \in Block |->
                    IF x \in Ancestors[c] \ Ancestors[worst] THEN failed[x] \cup {"CHILD"}
                                                             ELSE failed[x]]
    /\ candidates' = candidates \ Erased(c, worst)
    /\ UNCHANGED <<known, have, linked, unlinked, scripts, failedBlocks, order, tip, coinsTip,
                   pc, locals, inv, wanted, done>>

\* Mutant: the path is not inspected.
UsableAlways(c) == Best(c)

\* The candidate that FindMostWorkChain returns, or the target kept from before.
Usable(c) == Best(c) /\ FailedPath(c) = {}
Targets == IF mostWork # NoBlock THEN {mostWork}
           ELSE IF candidates = {} THEN {NoBlock} ELSE {c \in candidates : Usable(c)}

\* Nothing to do.
NothingToActivate ==
  \E target \in Targets \cap {NoBlock, tip} :
    /\ pc = "find"
    /\ EndRound(target, oldTip # NoBlock)
    /\ UNCHANGED <<index, order, candidates, tip, coinsTip, inv, wanted, done>>

\* ActivateBestChainStep: disconnect down to the fork.
DisconnectToFork ==
  \E target \in Targets \ {NoBlock, tip} : \E fork \in Chain \cap Ancestors[target] :
    /\ pc = "find"
    /\ Chain \cap Ancestors[target] \subseteq Ancestors[fork]
    /\ mostWork' = target
    /\ oldTip' = tip
    /\ tip' = fork
    /\ pc' = IF fork = target THEN "check" ELSE "connect"
    /\ UNCHANGED <<index, order, candidates, coinsTip, startTip, inv, wanted, done>>

\* The block of the branch to the target that follows the tip.
NextToConnect(n) == n \in Ancestors[mostWork] \ {Genesis} /\ Parent[n] = tip

\* ConnectTip succeeded.
ConnectTip ==
  \E n \in Block \ Bad :
    /\ pc = "connect"
    /\ NextToConnect(n)
    /\ tip' = n
    /\ scripts' = scripts \cup {n}
    /\ candidates' = Pruned(candidates, seq, n)
    /\ pc' = IF Work[n] > Work[oldTip] \/ n = mostWork THEN "check" ELSE "connect"
    /\ UNCHANGED <<known, have, linked, unlinked, failed, failedBlocks, order, coinsTip, locals,
                   inv, wanted, done>>

InvalidBlockFound(b) ==
  /\ failed' = [failed EXCEPT ![b] = @ \cup {"VALID"}]
  /\ failedBlocks' = failedBlocks \cup {b}
  /\ candidates' = candidates \ {b}

\* ConnectTip failed on an invalid block; the target is forgotten.
ConnectTipFails ==
  \E n \in Bad :
    /\ pc = "connect"
    /\ NextToConnect(n)
    /\ InvalidBlockFound(n)
    /\ mostWork' = NoBlock
    /\ pc' = "check"
    /\ UNCHANGED <<known, have, linked, unlinked, scripts, order, tip, coinsTip, startTip, oldTip,
                   inv, wanted, done>>

\* Mutant: cs_main is released after every step.
KeepsLockNever == FALSE

\* The condition of the inner loop.
KeepsLock == Worse(seq, tip, startTip)

\* The round goes on while the tip is worse than it was at its start.
CheckProgress ==
  /\ pc = "check"
  /\ IF KeepsLock THEN pc' = "find" /\ UNCHANGED locals ELSE EndRound(mostWork, TRUE)
  /\ UNCHANGED <<index, order, candidates, tip, coinsTip, inv, wanted, done>>
-----------------------------------------------------------------------------
\* PreciousBlock, before it calls ActivateBestChain.
PreciousBlock(b) ==
  LET rev == IF Work[tip] > lastPrecious THEN -1 ELSE revSeq
      s == [seq EXCEPT ![b] = rev]
  IN
  /\ Unlocked
  /\ b \in known
  /\ Work[b] >= Work[tip]
  /\ Uses("precious")
  /\ lastPrecious' = Work[tip]
  /\ seq' = s
  /\ revSeq' = rev - 1
  /\ candidates' = IF Eligible(b) THEN Pruned(candidates \cup {b}, s, tip)
                                  ELSE candidates \ {b}
  /\ wanted' = TRUE
  /\ UNCHANGED <<index, nextSeq, tip, coinsTip, pc, locals, inv>>

\* InvalidateBlock takes m_chainstate_mutex and collects the blocks that may
\* become candidates.
InvalidateBlock(b) ==
  /\ MutexFree
  /\ b \in known \ {Genesis}
  /\ Uses("invalidate")
  /\ pc' = "invalidate"
  /\ inv' = [block |-> b, mark |-> b,
             byWork |-> {c \in known \ Chain : Eligible(c) /\ ~Worse(seq, c, Parent[b])}]
  /\ UNCHANGED <<index, order, candidates, tip, coinsTip, locals, wanted>>

\* Mutant: all but the last are children of a failed block from the start.
WalkMarkChild == "CHILD"

\* The mark of a block that InvalidateBlock disconnects.
WalkMark == "VALID"

\* One block disconnected under cs_main.  The last one is marked FAILED_VALID,
\* the one before becomes FAILED_CHILD.
InvalidateStep ==
  LET walk == tip
      prev == Parent[tip]
      found == {c \in inv.byWork : ~Worse(seq, c, prev)}
      demoted == Parent[walk] = inv.mark /\ "VALID" \in failed[inv.mark]
  IN
  /\ pc = "invalidate"
  /\ inv.block \in Chain
  /\ tip' = prev
  /\ failed' = [x \in Block |->
       IF x = walk THEN failed[x] \cup {WalkMark}
       ELSE IF x = inv.mark /\ demoted THEN (failed[x] \ {"VALID"}) \cup {"CHILD"}
       ELSE failed[x]]
  /\ candidates' = (candidates \ {walk}) \cup {prev} \cup found
  /\ inv' = [inv EXCEPT !.mark = walk, !.byWork = @ \ found]
  /\ UNCHANGED <<known, have, linked, unlinked, scripts, failedBlocks, order, coinsTip, pc,
                 locals, wanted, done>>

\* Mutant: the blocks collected at the start are trusted.
MissedCandidatesNone(f) == {}

\* The blocks that came while cs_main was free.
MissedCandidates(f) ==
  {b \in known : f[b] = {} /\ b \in have /\ b \in linked /\ ~Worse(seq, b, tip)}

\* The end of InvalidateBlock; the RPC calls ActivateBestChain next.
InvalidateFinish ==
  /\ pc = "invalidate"
  /\ inv.block \notin Chain
  /\ failed' = [failed EXCEPT ![inv.mark] = @ \cup {"VALID"}]
  /\ failedBlocks' = failedBlocks \cup {inv.mark}
  /\ candidates' = (candidates \ {inv.mark}) \cup MissedCandidates(failed')
  /\ pc' = "idle" /\ inv' = NoInv
  /\ wanted' = TRUE
  /\ UNCHANGED <<known, have, linked, unlinked, scripts, order, tip, coinsTip, locals, done>>

\* ResetBlockFailureFlags, called by reconsiderblock before ActivateBestChain.
\* Only the block and its descendants can become candidates.
ResetBlockFailureFlags(b) ==
  LET cleared == {d \in Descendants(b) \cap known : failed[d] # {} \/ d \notin have} IN
  /\ Unlocked
  /\ b \in known
  /\ Uses("reconsider")
  /\ failed' = [x \in Block |-> IF x \in cleared \cup Ancestors[b] THEN {} ELSE failed[x]]
  /\ candidates' = candidates \cup
       {d \in cleared : d \in have /\ d \in linked /\ Worse(seq, tip, d)}
  /\ failedBlocks' = failedBlocks \ (cleared \cup {a \in Ancestors[b] : failed[a] # {}})
  /\ wanted' = TRUE
  /\ UNCHANGED <<known, have, linked, unlinked, scripts, order, tip, coinsTip, pc, locals, inv>>

\* FlushStateToDisk, a full flush: the coins database gets to the tip.
FlushStateToDisk ==
  /\ MaxRestart > 0
  /\ Unlocked /\ coinsTip # tip
  /\ coinsTip' = tip
  /\ UNCHANGED <<index, order, candidates, tip, pc, locals, inv, wanted, done>>

\* LoadBlockIndex: nChainTx, the failure of descendants, and the candidates.
LoadedLinked == {b \in known : Ancestors[b] \subseteq have}
LoadedFailed ==
  [b \in Block |->
     IF b \in known /\ failed[b] = {} /\ \E a \in Ancestors[b] : failed[a] # {}
       THEN {"CHILD"} ELSE failed[b]]
LoadedCandidates == {b \in LoadedLinked : LoadedFailed[b] = {}}

\* The process dies some time after a periodic write of the block index and
\* starts again: LoadBlockIndex, LoadChainTip; ThreadImport then activates.
Restart ==
  LET zero == [b \in Block |-> 0] IN
  /\ Unlocked
  /\ Uses("restart")
  /\ failed' = LoadedFailed
  /\ linked' = LoadedLinked
  /\ unlinked' = {b \in have \ {Genesis} : Parent[b] \notin LoadedLinked}
  /\ failedBlocks' = {}
  /\ seq' = zero /\ nextSeq' = 1 /\ revSeq' = -1 /\ lastPrecious' = 0
  /\ tip' = coinsTip
  /\ candidates' = Pruned(LoadedCandidates, zero, coinsTip)
  /\ pc' = "idle" /\ mostWork' = NoBlock /\ startTip' = NoBlock /\ oldTip' = NoBlock
  /\ inv' = NoInv /\ wanted' = TRUE
  /\ UNCHANGED <<known, have, scripts, coinsTip>>

Activate ==
  \/ StartRound \/ DropFailedCandidate \/ NothingToActivate \/ DisconnectToFork
  \/ ConnectTip \/ ConnectTipFails \/ CheckProgress

Next ==
  \/ \E b \in Block \ {Genesis} : AcceptBlockHeader(b)
  \/ \E b \in Block, requested \in BOOLEAN : AcceptBlock(b, requested)
  \/ ActivateBestChain
  \/ Activate
  \/ \E b \in Block : PreciousBlock(b)
  \/ \E b \in Block : InvalidateBlock(b)
  \/ InvalidateStep
  \/ InvalidateFinish
  \/ \E b \in Block : ResetBlockFailureFlags(b)
  \/ FlushStateToDisk
  \/ Restart

Spec == Init /\ [][Next]_vars

\* The thread that holds m_chainstate_mutex, and the ones waiting for it, go on.
FairSpec ==
  Spec /\ WF_vars(Activate) /\ WF_vars(ActivateBestChain)
       /\ WF_vars(InvalidateStep \/ InvalidateFinish)
-----------------------------------------------------------------------------
HasInvalidAncestor(b) == \E a \in Ancestors[b] : "VALID" \in failed[a]
Processed(b) == Ancestors[b] \subseteq have

Consistent(b) ==
  IF ~Worse(seq, b, tip) /\ Processed(b)
    THEN HasInvalidAncestor(b) \/ b \in candidates
    ELSE b \notin candidates

\* CheckBlockIndex: a block at least as good as the tip, with all its parents
\* processed and none invalid, is a candidate; a block that is worse than the
\* tip or has an unprocessed parent is not.  Holds whenever cs_main is free and
\* InvalidateBlock is not running.
CandidatesExact == pc \in {"idle", "loop"} => \A b \in known : Consistent(b)

\* CheckBlockIndex: "If this block has block data available, some parent was
\* never received, and has no invalid parents, it must be in m_blocks_unlinked",
\* and a block with all its parents is not; nChainTx says which it is.
UnlinkedExact ==
  \A b \in known :
    /\ b \in linked <=> Processed(b)
    /\ b \in have /\ ~Processed(b) /\ ~HasInvalidAncestor(b) => b \in unlinked
    /\ b \in unlinked => b \in have /\ ~Processed(b)
    /\ b \notin linked => seq[b] <= 0

\* CheckBlockIndex: "The failed mask cannot be set for blocks without invalid
\* parents."
FailedHasCause == \A b \in known : failed[b] # {} => HasInvalidAncestor(b)

\* PruneBlockIndexCandidates: "Either the current tip or a successor of it we're
\* working towards is left in setBlockIndexCandidates."
SomeCandidateLeft == candidates # {}

\* What the calls of the RPC interface leave exact.  reconsiderblock clears only
\* part of what invalidateblock marked; a start after invalidateblock may find
\* the tip failed; the third preciousblock may raise the sequence id of the tip,
\* when the counter is reset, over that of a block pruned before.
NoFailedTip == done.invalidate = 0 \/ done.restart = 0
FlagsIntact == done.invalidate = 0 \/ (done.restart = 0 /\ done.reconsider = 0)
Intact == FlagsIntact /\ done.precious <= 2

\* CheckBlockIndex, and the assertion of PruneBlockIndexCandidates: the set of
\* candidates, the blocks waiting for a parent and the failure marks are exact
\* whenever cs_main is free, each up to the calls that break it.  (A block put
\* on a parent that invalidateblock failed is not linked.)
CheckBlockIndex ==
  /\ Intact => SomeCandidateLeft
  /\ Intact /\ done.reconsider = 0 => CandidatesExact
  /\ FlagsIntact /\ done.reconsider = 0 => FailedHasCause
  /\ done.invalidate = 0 /\ done.reconsider = 0 => UnlinkedExact

\* When no call of ActivateBestChain is pending or running, the tip is the best
\* of the blocks whose branch was received and is not known to be invalid.
TipIsBest ==
  pc = "idle" /\ ~wanted =>
    \A b \in known : Processed(b) /\ ~HasInvalidAncestor(b) => ~Worse(seq, tip, b)

\* TipIsBest with blocks invalidated by the RPC, until one is reconsidered.
TipIsBestSoFar == Intact /\ done.reconsider = 0 => TipIsBest

\* ActivateBestChain: "We absolutely may not unlock cs_main until we've made
\* forward progress": a round leaves no worse tip than it began with.
ProgressBeforeUnlock ==
  [][Intact /\ ~Unlocked /\ Unlocked' => ~Worse(seq, tip', startTip)]_vars

\* The active chain never holds a block that ConnectBlock rejects, and none
\* that is marked failed when cs_main is free.
ActiveChainValid ==
  /\ Chain \cap Bad = {}
  /\ NoFailedTip /\ Unlocked => \A b \in Chain : failed[b] = {}

\* AcceptBlockHeader: "Determine if this block descends from any block which
\* has been found invalid": no header enters the index above a block that
\* ConnectTip found invalid, before or after a restart.  (A block that was once
\* connected may be invalidated by the RPC without its descendants being
\* noticed, so the property is stated up to the first invalidateblock.)
HeadersAvoidFailed ==
  [][done.invalidate = 0 =>
       \A b \in known' \ known : \A a \in Ancestors[b] :
         "VALID" \in failed[a] => a \in BadBody]_vars

\* Every call of ActivateBestChain and InvalidateBlock comes to an end: no
\* candidate is tried for ever.
CallsEnd == (pc # "idle") ~> (pc = "idle")
=============================================================================
