----------------------------- MODULE CoinsCache -----------------------------
(***************************************************************************)
(* CCoinsViewCache (coins.cpp) as the node stacks it: the database, the    *)
(* cache of Chainstate::CoinsTip() over it, and the temporary cache        *)
(* (`view` in ConnectTip, DisconnectTip, MemPoolAccept, VerifyDB) that is  *)
(* opened over CoinsTip, changed, and either flushed into it or dropped.   *)
(* All of it runs under cs_main, so every call is one step.                *)
(***************************************************************************)
EXTENDS Integers, FiniteSetsExt

CONSTANTS
  Outpoint,          \* COutPoint
  Coin,              \* unspent coins that AddCoin accepts (spendable outputs)
  Spent,             \* a Coin for which IsSpent() holds
  Absent,            \* no entry in cacheCoins
  Block, NoBlock,    \* block hashes; the null uint256
  Mem,               \* Coin -> Coin::DynamicMemoryUsage()
  BaseReportsSpent   \* may the database's GetCoin return true with a spent
                     \* coin?  CCoinsViewDB never does; the base view of
                     \* coins_tests.cpp does.

VARIABLES
  dbCoins, dbBest,   \* CCoinsViewDB: the coins and DB_BEST_BLOCK
  cache,             \* layer -> cacheCoins
  hashBlock,         \* layer -> hashBlock
  usage,             \* layer -> cachedCoinsUsage
  open               \* is there a temporary view over CoinsTip?

vars == <<dbCoins, dbBest, cache, hashBlock, usage, open>>

Layer == {"tip", "view"}
AnyCoin == Coin \cup {Spent}

\* CCoinsCacheEntry.
Flag == {"DIRTY", "FRESH"}
Entry == [coin : AnyCoin, flags : SUBSET Flag]

ASSUME CoinsAssumption ==
  /\ Spent \notin Coin
  /\ NoBlock \notin Block
  /\ Absent \notin Entry
  /\ BaseReportsSpent \in BOOLEAN

ASSUME UsageAssumption == IsFiniteSet(Outpoint) /\ Mem \in [Coin -> Nat]

CacheMap == [Outpoint -> Entry \cup {Absent}]
Dirty(e) == e # Absent /\ "DIRTY" \in e.flags
Fresh(e) == e # Absent /\ "FRESH" \in e.flags
FreshIf(b) == IF b THEN {"FRESH"} ELSE {}
EmptyCache == [o \in Outpoint |-> Absent]

TypeOK ==
  /\ dbCoins \in [Outpoint -> AnyCoin]
  /\ dbBest \in Block \cup {NoBlock}
  /\ cache \in [Layer -> CacheMap]
  /\ hashBlock \in [Layer -> Block \cup {NoBlock}]
  /\ DOMAIN usage = Layer
  /\ open \in BOOLEAN
  /\ ~open => cache["view"] = EmptyCache /\ hashBlock["view"] = NoBlock

DynamicMemoryUsage(c) == IF c = Spent THEN 0 ELSE Mem[c]
EntryUsage(e) == IF e = Absent THEN 0 ELSE DynamicMemoryUsage(e.coin)

\* What each level answers to GetCoin and GetBestBlock.
CoinOf(e, below) == IF e = Absent THEN below ELSE e.coin
TipCoin(o) == CoinOf(cache["tip"][o], dbCoins[o])
ViewCoin(o) == CoinOf(cache["view"][o], TipCoin(o))
TipBest == IF hashBlock["tip"] = NoBlock THEN dbBest ELSE hashBlock["tip"]
ViewBest == IF hashBlock["view"] = NoBlock THEN TipBest ELSE hashBlock["view"]

CoinAt(l, o) == IF l = "view" THEN ViewCoin(o) ELSE TipCoin(o)

\* The cache that callers write to: the temporary view if there is one.
Top == IF open THEN "view" ELSE "tip"
Opened == {"tip"} \cup {Top}
-----------------------------------------------------------------------------
Init ==
  /\ dbCoins \in [Outpoint -> AnyCoin]
  /\ dbBest \in Block \cup {NoBlock}
  /\ cache = [l \in Layer |-> EmptyCache]
  /\ hashBlock = [l \in Layer |-> NoBlock]
  /\ usage = [l \in Layer |-> 0]
  /\ open = FALSE

\* FetchCoin: the entry a layer has after looking o up in it, given its own
\* entry, the coin its base reports and whether the base's GetCoin returned
\* true.  A spent coin that was reported as found is cached FRESH.
FetchedEntry(e, baseCoin, found) ==
  IF e # Absent \/ ~found THEN e
  ELSE [coin |-> baseCoin, flags |-> FreshIf(baseCoin = Spent)]

\* CCoinsViewDB::GetCoin, or the test base's, which may report a spent coin.
BaseFinds(o, spentFound) == dbCoins[o] # Spent \/ (BaseReportsSpent /\ spentFound)

\* The caches after FetchCoin(o) on layer l.  On the view it reaches the tip's
\* FetchCoin only if the view has no entry; the tip's GetCoin returns true only
\* for an unspent coin.
Fetched(l, o, spentFound) ==
  LET tipEntry == FetchedEntry(cache["tip"][o], dbCoins[o], BaseFinds(o, spentFound))
      fetchTip == [cache EXCEPT !["tip"][o] = tipEntry]
  IN  IF l = "tip" THEN fetchTip
      ELSE IF cache["view"][o] # Absent THEN cache
      ELSE [fetchTip EXCEPT !["view"][o] =
              FetchedEntry(Absent, TipCoin(o), TipCoin(o) # Spent)]

\* cachedCoinsUsage after the same call: each layer that gained an entry adds it.
FetchedUsage(l, o, spentFound) ==
  [k \in Layer |->
     IF cache[k][o] = Absent THEN usage[k] + EntryUsage(Fetched(l, o, spentFound)[k][o])
                             ELSE usage[k]]

\* GetCoin, HaveCoin, AccessCoin, HaveInputs: look o up and keep what was found.
GetCoin(l, o, spentFound) ==
  /\ l \in Opened
  /\ cache' = Fetched(l, o, spentFound)
  /\ usage' = FetchedUsage(l, o, spentFound)
  /\ UNCHANGED <<dbCoins, dbBest, hashBlock, open>>

\* Mutant: forgets that a DIRTY entry may be a spend the base has not seen.
AddedEntryIgnoringDirty(e, c, possibleOverwrite) ==
  [coin |-> c, flags |-> {"DIRTY"} \cup FreshIf(~possibleOverwrite \/ Fresh(e))]

\* AddCoin's new entry.  FRESH may only be set if the caller rules out an
\* overwrite and the entry is not an unflushed spend.
AddedEntry(e, c, possibleOverwrite) ==
  LET fresh == ~possibleOverwrite /\ ~Dirty(e)
  IN  [coin |-> c, flags |-> {"DIRTY"} \cup FreshIf(fresh \/ Fresh(e))]

\* AddCoin.  Its callers (AddCoins, ApplyTxInUndo) pass possible_overwrite =
\* false only for an outpoint that has no unspent coin in the view.
AddCoin(o, c, possibleOverwrite) ==
  /\ possibleOverwrite \/ CoinAt(Top, o) = Spent
  /\ cache' = [cache EXCEPT ![Top][o] = AddedEntry(cache[Top][o], c, possibleOverwrite)]
  /\ usage' = [usage EXCEPT ![Top] = @ - EntryUsage(cache[Top][o]) + Mem[c]]
  /\ UNCHANGED <<dbCoins, dbBest, hashBlock, open>>

\* EmplaceCoinInternalDANGER: a coin of a UTXO snapshot goes into a cache and a
\* database that do not know its outpoint.
EmplaceCoin(o, c) ==
  /\ ~open /\ cache["tip"][o] = Absent /\ dbCoins[o] = Spent
  /\ cache' = [cache EXCEPT !["tip"][o] = [coin |-> c, flags |-> {"DIRTY"}]]
  /\ usage' = [usage EXCEPT !["tip"] = @ + Mem[c]]
  /\ UNCHANGED <<dbCoins, dbBest, hashBlock, open>>

\* Mutant: the spend is not marked DIRTY.
SpentEntryNotDirty(e) ==
  IF e = Absent \/ Fresh(e) THEN Absent ELSE [e EXCEPT !.coin = Spent]

\* SpendCoin's effect on the entry that FetchCoin found.
SpentEntry(e) ==
  IF e = Absent \/ Fresh(e) THEN Absent
  ELSE [coin |-> Spent, flags |-> e.flags \cup {"DIRTY"}]

SpendCoin(o, spentFound) ==
  LET fetched == Fetched(Top, o, spentFound)
  IN  /\ cache' = [fetched EXCEPT ![Top][o] = SpentEntry(@)]
      /\ usage' = [FetchedUsage(Top, o, spentFound) EXCEPT
                     ![Top] = @ - EntryUsage(fetched[Top][o])]
      /\ UNCHANGED <<dbCoins, dbBest, hashBlock, open>>

SetBestBlock(b) ==
  /\ hashBlock' = [hashBlock EXCEPT ![Top] = b]
  /\ UNCHANGED <<dbCoins, dbBest, cache, usage, open>>

\* GetBestBlock asks the base for its best block once and keeps the answer.
GetBestBlock(l) ==
  /\ l \in Opened /\ hashBlock[l] = NoBlock
  /\ hashBlock' = [hashBlock EXCEPT !["tip"] = TipBest,
                                    !["view"] = IF l = "view" THEN TipBest ELSE @]
  /\ UNCHANGED <<dbCoins, dbBest, cache, usage, open>>

\* Mutant: hands FRESH on to an entry the parent already has.
MergedEntryFresh(child, parent) ==
  IF ~Dirty(child) THEN parent
  ELSE IF parent = Absent
  THEN IF Fresh(child) /\ child.coin = Spent THEN Absent ELSE child
  ELSE IF Fresh(parent) /\ child.coin = Spent THEN Absent
  ELSE [parent EXCEPT !.coin = child.coin, !.flags = @ \cup child.flags]

\* CCoinsViewCache::BatchWrite: the parent's entry after merging the child's.
MergedEntry(child, parent) ==
  IF ~Dirty(child) THEN parent
  ELSE IF parent = Absent
  THEN IF Fresh(child) /\ child.coin = Spent THEN Absent ELSE child
  ELSE IF Fresh(parent) /\ child.coin = Spent THEN Absent
  ELSE [parent EXCEPT !.coin = child.coin, !.flags = @ \cup {"DIRTY"}]

\* BatchWrite throws "FRESH flag misapplied" on such a pair.
Misapplied(child, parent) ==
  /\ Dirty(child) /\ Fresh(child)
  /\ parent # Absent /\ parent.coin # Spent

\* Mutant: an entry erased by the merge is still counted.
MergedUsageErased(child, parent) ==
  IF ~Dirty(child) THEN 0
  ELSE IF MergedEntry(child, parent) = Absent THEN 0
  ELSE DynamicMemoryUsage(child.coin) - EntryUsage(parent)

\* What merging one entry adds to the parent's cachedCoinsUsage.
MergedUsage(child, parent) ==
  IF ~Dirty(child) THEN 0
  ELSE EntryUsage(MergedEntry(child, parent)) - EntryUsage(parent)

MergedUsageOf(child, parent) ==
  MapThenSumSet(LAMBDA o : MergedUsage(child[o], parent[o]), Outpoint)

\* A cache's own entries after Flush (erased) and after Sync (spent ones
\* erased, the others clean).
SyncedEntry(e) ==
  IF e = Absent \/ e.coin = Spent THEN Absent
  ELSE [coin |-> e.coin, flags |-> {}]

KeptEntries(l, sync) == [o \in Outpoint |-> IF sync THEN SyncedEntry(cache[l][o]) ELSE Absent]

\* Flush or Sync of the temporary view into CoinsTip.  Callers have set or read
\* the view's best block (ConnectBlock, DisconnectBlock and their asserts).
WriteViewToTip(sync) ==
  /\ open /\ hashBlock["view"] # NoBlock
  /\ \A o \in Outpoint : ~Misapplied(cache["view"][o], cache["tip"][o])
  /\ cache' = [cache EXCEPT
       !["tip"] = [o \in Outpoint |-> MergedEntry(cache["view"][o], cache["tip"][o])],
       !["view"] = KeptEntries("view", sync)]
  /\ usage' = [usage EXCEPT
       !["tip"] = @ + MergedUsageOf(cache["view"], cache["tip"]),
       !["view"] = IF sync THEN @ ELSE 0]
  /\ hashBlock' = [hashBlock EXCEPT !["tip"] = hashBlock["view"]]
  /\ UNCHANGED <<dbCoins, dbBest, open>>

\* Flush or Sync of CoinsTip into the database (CCoinsViewDB::BatchWrite, which
\* asserts that the block hash is not null), seen as one step.
WriteTipToDB(sync) ==
  /\ hashBlock["tip"] # NoBlock
  /\ dbCoins' = [o \in Outpoint |->
       IF Dirty(cache["tip"][o]) THEN cache["tip"][o].coin ELSE dbCoins[o]]
  /\ dbBest' = hashBlock["tip"]
  /\ cache' = [cache EXCEPT !["tip"] = KeptEntries("tip", sync)]
  /\ usage' = [usage EXCEPT !["tip"] = IF sync THEN @ ELSE 0]
  /\ UNCHANGED <<hashBlock, open>>

\* Uncache drops an entry that has neither flag.
Uncacheable(e) == e # Absent /\ e.flags = {}

Uncache(l, o) ==
  /\ l \in Opened /\ Uncacheable(cache[l][o])
  /\ cache' = [cache EXCEPT ![l][o] = Absent]
  /\ usage' = [usage EXCEPT ![l] = @ - EntryUsage(cache[l][o])]
  /\ UNCHANGED <<dbCoins, dbBest, hashBlock, open>>

\* CCoinsViewCache view(&CoinsTip()).
OpenView ==
  /\ ~open
  /\ open' = TRUE
  /\ UNCHANGED <<dbCoins, dbBest, cache, hashBlock, usage>>

\* The temporary view goes out of scope, written or not: a rejected block, a
\* mempool check, or AddCoin's logic_error unwinding the caller.
CloseView ==
  /\ open
  /\ open' = FALSE
  /\ cache' = [cache EXCEPT !["view"] = EmptyCache]
  /\ hashBlock' = [hashBlock EXCEPT !["view"] = NoBlock]
  /\ usage' = [usage EXCEPT !["view"] = 0]
  /\ UNCHANGED <<dbCoins, dbBest>>

Next ==
  \/ \E l \in Layer, o \in Outpoint, f \in BOOLEAN : GetCoin(l, o, f)
  \/ \E o \in Outpoint, c \in Coin, p \in BOOLEAN : AddCoin(o, c, p)
  \/ \E o \in Outpoint, c \in Coin : EmplaceCoin(o, c)
  \/ \E o \in Outpoint, f \in BOOLEAN : SpendCoin(o, f)
  \/ \E b \in Block : SetBestBlock(b)
  \/ \E l \in Layer : GetBestBlock(l)
  \/ \E s \in BOOLEAN : WriteViewToTip(s) \/ WriteTipToDB(s)
  \/ \E l \in Layer, o \in Outpoint : Uncache(l, o)
  \/ OpenView \/ CloseView

Spec == Init /\ [][Next]_vars
-----------------------------------------------------------------------------
\* SanityCheck's first assertion: of the eight combinations of DIRTY, FRESH and
\* spent an entry can only have five.
FlagsOK ==
  \A l \in Layer, o \in Outpoint :
    LET e == cache[l][o] IN
    e # Absent => IF e.coin = Spent THEN e.flags = {"DIRTY"} \/ e.flags = {"FRESH"}
                                    ELSE e.flags # {"FRESH"}

\* recomputed_usage.
UsageOf(c) == MapThenSumSet(LAMBDA o : EntryUsage(c[o]), Outpoint)

\* SanityCheck's second assertion: cachedCoinsUsage, which decides when the
\* cache is flushed, is the sum of the entries' sizes, whatever the order of
\* fetches, spends, overwrites, merges and evictions.
UsageExact == \A l \in Layer : usage[l] = UsageOf(cache[l])

\* A FRESH entry's outpoint has no unspent coin in the layer below, which is
\* what lets SpendCoin and BatchWrite forget such an entry outright.
FreshMeansAbsentBelow ==
  \A o \in Outpoint :
    /\ Fresh(cache["tip"][o]) => dbCoins[o] = Spent
    /\ Fresh(cache["view"][o]) => TipCoin(o) = Spent

\* An entry without DIRTY agrees with the layer below, so that dropping it
\* (Uncache, or not writing it in BatchWrite) loses nothing.
CleanMeansSameBelow ==
  \A o \in Outpoint :
    /\ ~Dirty(cache["tip"][o]) => TipCoin(o) = dbCoins[o]
    /\ ~Dirty(cache["view"][o]) => ViewCoin(o) = TipCoin(o)

\* BatchWrite's logic_error "FRESH flag misapplied to coin that exists in parent
\* cache" is out of reach of callers that respect AddCoin's contract.
NeverMisapplied ==
  \A o \in Outpoint : ~Misapplied(cache["view"][o], cache["tip"][o])

\* What SanityCheck, SpendCoin, Uncache and BatchWrite take for granted of every
\* entry of every cache, taken together.
EntriesConsistent ==
  FlagsOK /\ FreshMeansAbsentBelow /\ CleanMeansSameBelow /\ NeverMisapplied

\* The stack implements three plain maps: flushing copies a map whole, reads,
\* Sync's kept entries and Uncache are invisible, dropping the view undoes it.
Views == INSTANCE CoinsViews WITH
  tipCoins <- [o \in Outpoint |-> TipCoin(o)],
  viewCoins <- [o \in Outpoint |-> ViewCoin(o)],
  best <- [l \in {"db", "tip", "view"} |->
             IF l = "db" THEN dbBest ELSE IF l = "tip" THEN TipBest ELSE ViewBest]

ImplementsViews == Views!Spec
=============================================================================
