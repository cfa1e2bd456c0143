-------------------------- MODULE CoinsCacheProofs --------------------------
(***************************************************************************)
(* Proofs about CoinsCache, for any sets of outpoints, coins and blocks.   *)
(*                                                                         *)
(* The inductive invariant is local: each cache entry is consistent with   *)
(* the coin the layer below shows (EntryOK).  One lemma per cache          *)
(* operation says that it keeps entries consistent and what it does to the *)
(* coin its layer shows; the invariant and the refinement follow.          *)
(*                                                                         *)
(* The memory counter is a sum over the outpoints.  What is needed of such *)
(* a sum (it exists, is unique, and changes by what one term changes) is   *)
(* proved by induction over the sets of outpoints, from the definition of  *)
(* the fold.                                                               *)
(***************************************************************************)
EXTENDS CoinsCache, FiniteSetTheorems, WellFoundedInduction, TLAPS

\* An entry that is consistent with the coin the layer below shows.
EntryOK(e, below) ==
  e # Absent => /\ e.coin = Spent => e.flags \in {{"DIRTY"}, {"FRESH"}}
                /\ e.coin # Spent => e.flags # {"FRESH"}
                /\ Fresh(e) => below = Spent
                /\ ~Dirty(e) => e.coin = below

IndInv ==
  /\ TypeOK
  /\ \A o \in Outpoint : /\ EntryOK(cache["tip"][o], dbCoins[o])
                         /\ EntryOK(cache["view"][o], TipCoin(o))

\* FetchCoin leaves a consistent entry and does not change what is shown.
LEMMA FetchLemma ==
  ASSUME NEW e \in Entry \cup {Absent}, NEW below \in AnyCoin, NEW found \in BOOLEAN,
         EntryOK(e, below), below # Spent => found
  PROVE  /\ FetchedEntry(e, below, found) \in Entry \cup {Absent}
         /\ EntryOK(FetchedEntry(e, below, found), below)
         /\ CoinOf(FetchedEntry(e, below, found), below) = CoinOf(e, below)
BY CoinsAssumption, Zenon
   DEF FetchedEntry, EntryOK, CoinOf, Entry, AnyCoin, Flag, Dirty, Fresh, FreshIf

\* AddCoin, under its contract, leaves a consistent entry that shows the coin.
LEMMA AddLemma ==
  ASSUME NEW e \in Entry \cup {Absent}, NEW below \in AnyCoin, NEW c \in Coin,
         NEW p \in BOOLEAN, EntryOK(e, below), p \/ CoinOf(e, below) = Spent
  PROVE  /\ AddedEntry(e, c, p) \in Entry \cup {Absent}
         /\ EntryOK(AddedEntry(e, c, p), below)
         /\ CoinOf(AddedEntry(e, c, p), below) = c
BY CoinsAssumption DEF AddedEntry, EntryOK, CoinOf, Entry, AnyCoin, Flag, Dirty, Fresh, FreshIf

\* SpendCoin, after its fetch, leaves a consistent entry that shows no coin.
LEMMA SpendLemma ==
  ASSUME NEW e \in Entry \cup {Absent}, NEW below \in AnyCoin, EntryOK(e, below),
         e = Absent => below = Spent
  PROVE  /\ SpentEntry(e) \in Entry \cup {Absent}
         /\ EntryOK(SpentEntry(e), below)
         /\ CoinOf(SpentEntry(e), below) = Spent
BY CoinsAssumption DEF SpentEntry, EntryOK, CoinOf, Entry, AnyCoin, Flag, Dirty, Fresh, FreshIf

\* BatchWrite leaves the parent consistent, showing what the child showed.
LEMMA MergeLemma ==
  ASSUME NEW child \in Entry \cup {Absent}, NEW parent \in Entry \cup {Absent},
         NEW below \in AnyCoin,
         EntryOK(parent, below), EntryOK(child, CoinOf(parent, below))
  PROVE  /\ MergedEntry(child, parent) \in Entry \cup {Absent}
         /\ EntryOK(MergedEntry(child, parent), below)
         /\ CoinOf(MergedEntry(child, parent), below) = CoinOf(child, CoinOf(parent, below))
<1>1. CASE ~Dirty(child)
  BY <1>1, CoinsAssumption, Zenon DEF MergedEntry, EntryOK, CoinOf, Entry
<1>2. CASE Dirty(child) /\ parent = Absent
  BY <1>2, CoinsAssumption, Zenon DEF MergedEntry, EntryOK, CoinOf, Entry, Dirty, Fresh
<1>3. CASE Dirty(child) /\ parent # Absent /\ Fresh(parent) /\ child.coin = Spent
  BY <1>3, CoinsAssumption, Zenon DEF MergedEntry, EntryOK, CoinOf, Entry, Dirty
<1>4. CASE Dirty(child) /\ parent # Absent /\ ~(Fresh(parent) /\ child.coin = Spent)
  <2> DEFINE r == [parent EXCEPT !.coin = child.coin, !.flags = @ \cup {"DIRTY"}]
  <2>1. MergedEntry(child, parent) = r
    BY <1>4, Zenon DEF MergedEntry
  <2>2. /\ r \in Entry /\ r # Absent
        /\ r.coin = child.coin /\ r.flags = parent.flags \cup {"DIRTY"}
    <3>1. parent \in Entry /\ child \in Entry
      BY <1>4, Zenon DEF Dirty
    <3>2. r \in Entry /\ r.coin = child.coin /\ r.flags = parent.flags \cup {"DIRTY"}
      BY <3>1, Zenon DEF Entry, Flag
    <3> QED BY <3>2, CoinsAssumption, Zenon
  <2> HIDE DEF r
  <2>3. EntryOK(r, below)
    BY <1>4, <2>2 DEF EntryOK, Entry, Flag, Dirty, Fresh
  <2>4. CoinOf(r, below) = CoinOf(child, CoinOf(parent, below))
    BY <1>4, <2>2, Zenon DEF CoinOf, Dirty
  <2> QED
    BY <2>1, <2>2, <2>3, <2>4, Zenon
<1> QED
  BY <1>1, <1>2, <1>3, <1>4, Zenon

\* The entries Sync keeps are consistent with a base that has been written.
LEMMA SyncLemma ==
  ASSUME NEW e \in Entry \cup {Absent}, NEW below \in AnyCoin, EntryOK(e, below)
  PROVE  /\ SyncedEntry(e) \in Entry \cup {Absent}
         /\ EntryOK(SyncedEntry(e), CoinOf(e, below))
         /\ CoinOf(SyncedEntry(e), CoinOf(e, below)) = CoinOf(e, below)
BY CoinsAssumption, Zenon
   DEF SyncedEntry, EntryOK, CoinOf, Entry, AnyCoin, Flag, Dirty, Fresh, FreshIf

\* Two cache maps that are consistent with the database and with each other.
StackOK(c, d) ==
  /\ c \in [Layer -> CacheMap]
  /\ \A o \in Outpoint : /\ EntryOK(c["tip"][o], d[o])
                         /\ EntryOK(c["view"][o], CoinOf(c["tip"][o], d[o]))

\* FetchCoin on a layer keeps the stack consistent, hides nothing and invents
\* nothing on either layer, and leaves an entry unless there is no coin.
LEMMA FetchedLemma ==
  ASSUME IndInv, NEW l \in Layer, NEW o \in Outpoint, NEW f \in BOOLEAN,
         NEW c, c = Fetched(l, o, f)
  PROVE  /\ StackOK(c, dbCoins)
         /\ \A x \in Outpoint :
              /\ CoinOf(c["tip"][x], dbCoins[x]) = TipCoin(x)
              /\ CoinOf(c["view"][x], TipCoin(x)) = ViewCoin(x)
         /\ c[l][o] = Absent => CoinAt(l, o) = Spent
         /\ l = "tip" => c["view"] = cache["view"]
<1> DEFINE t == FetchedEntry(cache["tip"][o], dbCoins[o], BaseFinds(o, f))
           v == IF l = "tip" \/ cache["view"][o] # Absent THEN cache["view"][o]
                ELSE FetchedEntry(Absent, TipCoin(o), TipCoin(o) # Spent)
           tt == IF l = "tip" \/ cache["view"][o] = Absent THEN t ELSE cache["tip"][o]
<1>0. /\ cache \in [Layer -> CacheMap] /\ dbCoins \in [Outpoint -> AnyCoin]
      /\ cache["tip"] \in CacheMap /\ cache["view"] \in CacheMap
      /\ \A x \in Outpoint : /\ cache["tip"][x] \in Entry \cup {Absent}
                             /\ cache["view"][x] \in Entry \cup {Absent}
                             /\ dbCoins[x] \in AnyCoin
                             /\ TipCoin(x) \in AnyCoin
                             /\ EntryOK(cache["tip"][x], dbCoins[x])
                             /\ EntryOK(cache["view"][x], TipCoin(x))
  BY Zenon DEF IndInv, TypeOK, CacheMap, Layer, TipCoin, CoinOf, Entry
<1>1. /\ t \in Entry \cup {Absent} /\ EntryOK(t, dbCoins[o])
      /\ CoinOf(t, dbCoins[o]) = TipCoin(o)
  <2>1. BaseFinds(o, f) \in BOOLEAN /\ (dbCoins[o] # Spent => BaseFinds(o, f))
    BY CoinsAssumption, Zenon DEF BaseFinds
  <2> QED
    BY <1>0, <2>1, FetchLemma, Zenon DEF TipCoin
<1>2. /\ v \in Entry \cup {Absent} /\ EntryOK(v, TipCoin(o))
      /\ CoinOf(v, TipCoin(o)) = ViewCoin(o)
  <2>1. EntryOK(Absent, TipCoin(o)) /\ Absent \in Entry \cup {Absent}
    BY Zenon DEF EntryOK
  <2>2. CASE l = "tip" \/ cache["view"][o] # Absent
    BY <1>0, <2>2, Zenon DEF ViewCoin
  <2>3. CASE ~(l = "tip" \/ cache["view"][o] # Absent)
    <3> DEFINE w == FetchedEntry(Absent, TipCoin(o), TipCoin(o) # Spent)
    <3>1. /\ w \in Entry \cup {Absent} /\ EntryOK(w, TipCoin(o))
          /\ CoinOf(w, TipCoin(o)) = CoinOf(Absent, TipCoin(o))
      BY <1>0, <2>1, FetchLemma, Zenon
    <3>2. v = w /\ cache["view"][o] = Absent
      BY <2>3, Zenon
    <3> HIDE DEF v, w
    <3> QED BY <3>1, <3>2, Zenon DEF ViewCoin
  <2> QED
    BY <2>2, <2>3, Zenon
<1>3. /\ tt \in Entry \cup {Absent} /\ EntryOK(tt, dbCoins[o])
      /\ CoinOf(tt, dbCoins[o]) = TipCoin(o)
  BY <1>0, <1>1, Zenon DEF TipCoin
<1>4. c = [cache EXCEPT !["tip"][o] = tt, !["view"][o] = v]
  <2>1. CASE l = "tip"
    BY <1>0, <2>1, Zenon DEF Fetched, Layer, CacheMap
  <2>2. CASE l # "tip" /\ cache["view"][o] # Absent
    BY <1>0, <2>2, Zenon DEF Fetched, Layer, CacheMap
  <2>3. CASE l # "tip" /\ cache["view"][o] = Absent
    BY <1>0, <2>3, Zenon DEF Fetched, Layer, CacheMap
  <2> QED
    BY <2>1, <2>2, <2>3, Zenon
<1> HIDE DEF t, v, tt
<1>5. /\ c \in [Layer -> CacheMap]
      /\ c["tip"][o] = tt /\ c["view"][o] = v
      /\ \A x \in Outpoint \ {o} : c["tip"][x] = cache["tip"][x] /\ c["view"][x] = cache["view"][x]
  BY <1>0, <1>2, <1>3, <1>4 DEF Layer, CacheMap
<1>6. \A x \in Outpoint :
        /\ EntryOK(c["tip"][x], dbCoins[x]) /\ EntryOK(c["view"][x], TipCoin(x))
        /\ CoinOf(c["tip"][x], dbCoins[x]) = TipCoin(x)
        /\ CoinOf(c["view"][x], TipCoin(x)) = ViewCoin(x)
  BY <1>0, <1>2, <1>3, <1>5, Zenon DEF TipCoin, ViewCoin
<1>7. StackOK(c, dbCoins)
  BY <1>5, <1>6, Zenon DEF StackOK
<1>8. c[l][o] = Absent => CoinAt(l, o) = Spent
  <2>1. ASSUME NEW e \in Entry \cup {Absent}, NEW b \in AnyCoin, NEW found \in BOOLEAN,
               b # Spent => found, FetchedEntry(e, b, found) = Absent
        PROVE  e = Absent /\ b = Spent
    BY <2>1, CoinsAssumption DEF FetchedEntry, FreshIf, Entry, Flag
  <2>2. CASE l = "tip"
    <3>1. BaseFinds(o, f) \in BOOLEAN /\ (dbCoins[o] # Spent => BaseFinds(o, f))
      BY CoinsAssumption, Zenon DEF BaseFinds
    <3>2. c[l][o] = FetchedEntry(cache["tip"][o], dbCoins[o], BaseFinds(o, f))
      BY <2>2, <1>5, Zenon DEF tt, t
    <3> QED
      BY <1>0, <2>1, <2>2, <3>1, <3>2, Zenon DEF CoinAt, TipCoin, CoinOf
  <2>3. CASE l = "view" /\ cache["view"][o] = Absent
    <3>1. c[l][o] = FetchedEntry(Absent, TipCoin(o), TipCoin(o) # Spent)
      BY <2>3, <1>5, Zenon DEF v
    <3> QED
      BY <1>0, <2>1, <2>3, <3>1, Zenon DEF CoinAt, ViewCoin, CoinOf
  <2>4. CASE l = "view" /\ cache["view"][o] # Absent
    BY <2>4, <1>5, Zenon DEF v
  <2> QED
    BY <2>2, <2>3, <2>4, Zenon DEF Layer
<1>9. l = "tip" => c["view"] = cache["view"]
  BY <1>0, Zenon DEF Fetched, Layer, CacheMap
<1> QED
  BY <1>6, <1>7, <1>8, <1>9, Zenon
-----------------------------------------------------------------------------
\* What the invariant says outside the two maps.
RestOK ==
  /\ dbCoins \in [Outpoint -> AnyCoin]
  /\ dbBest \in Block \cup {NoBlock}
  /\ hashBlock \in [Layer -> Block \cup {NoBlock}]
  /\ DOMAIN usage = Layer
  /\ open \in BOOLEAN
  /\ ~open => cache["view"] = EmptyCache /\ hashBlock["view"] = NoBlock

\* The invariant is the consistency of the stack and the types of the rest.
LEMMA InvSplit == IndInv <=> StackOK(cache, dbCoins) /\ RestOK
BY Zenon DEF IndInv, TypeOK, StackOK, RestOK, TipCoin

LEMMA InvSplitNext == IndInv' <=> StackOK(cache', dbCoins') /\ RestOK'
BY Zenon DEF IndInv, TypeOK, StackOK, RestOK, TipCoin

\* The facts about the current state that every action lemma starts from.
LEMMA InvFacts ==
  ASSUME IndInv
  PROVE  /\ StackOK(cache, dbCoins) /\ RestOK
         /\ cache \in [Layer -> CacheMap]
         /\ cache["tip"] \in CacheMap /\ cache["view"] \in CacheMap
         /\ dbCoins \in [Outpoint -> AnyCoin]
         /\ \A x \in Outpoint : /\ cache["tip"][x] \in Entry \cup {Absent}
                                /\ cache["view"][x] \in Entry \cup {Absent}
                                /\ dbCoins[x] \in AnyCoin /\ TipCoin(x) \in AnyCoin
                                /\ EntryOK(cache["tip"][x], dbCoins[x])
                                /\ EntryOK(cache["view"][x], TipCoin(x))
         /\ ~open => \A x \in Outpoint : cache["view"][x] = Absent /\ ViewCoin(x) = TipCoin(x)
         /\ ~open => hashBlock["view"] = NoBlock /\ ViewBest = TipBest
         /\ Top \in Layer /\ (open => Top = "view") /\ (~open => Top = "tip")
<1>1. StackOK(cache, dbCoins) /\ RestOK
  BY InvSplit, Zenon
<1> QED
  BY <1>1, Zenon
     DEF IndInv, TypeOK, CacheMap, Layer, TipCoin, ViewCoin, CoinOf, Entry, EmptyCache, Top,
              TipBest, ViewBest

\* The coins every level shows are what they were.
SameCoins ==
  /\ dbCoins' = dbCoins
  /\ \A x \in Outpoint : TipCoin(x)' = TipCoin(x) /\ ViewCoin(x)' = ViewCoin(x)

\* The topmost level, and it alone, now shows c at o.
TopWritten(o, c) ==
  /\ dbCoins' = dbCoins
  /\ \A x \in Outpoint :
       /\ ViewCoin(x)' = IF x = o THEN c ELSE ViewCoin(x)
       /\ TipCoin(x)' = IF x = o /\ ~open THEN c ELSE TipCoin(x)

\* Reading a coin through the stack keeps the invariant and shows nothing new.
LEMMA GetCoinLemma ==
  ASSUME IndInv, NEW l \in Layer, NEW o \in Outpoint, NEW f \in BOOLEAN, GetCoin(l, o, f)
  PROVE  IndInv' /\ SameCoins
<1>1. /\ StackOK(cache', dbCoins)
      /\ \A x \in Outpoint : /\ CoinOf(cache'["tip"][x], dbCoins[x]) = TipCoin(x)
                             /\ CoinOf(cache'["view"][x], TipCoin(x)) = ViewCoin(x)
      /\ l = "tip" => cache'["view"] = cache["view"]
  BY FetchedLemma DEF GetCoin
<1>2. SameCoins
  BY <1>1, Zenon DEF GetCoin, SameCoins, TipCoin, ViewCoin
<1>3. RestOK'
  BY <1>1, InvFacts, Zenon DEF RestOK, GetCoin, FetchedUsage, Opened, Top
<1> QED
  BY <1>1, <1>2, <1>3, InvSplitNext, Zenon DEF GetCoin

\* cache' is m with the topmost cache's entry at o replaced by e.
OneEntry(m, o, e) ==
  /\ cache' \in [Layer -> CacheMap]
  /\ cache'[Top][o] = e
  /\ \A x \in Outpoint \ {o} : cache'[Top][x] = m[Top][x]
  /\ \A l \in Layer \ {Top} : cache'[l] = m[l]

LEMMA OneEntryLemma ==
  ASSUME NEW m \in [Layer -> CacheMap], NEW o \in Outpoint, NEW e \in Entry \cup {Absent},
         cache' = [m EXCEPT ![Top][o] = e]
  PROVE  OneEntry(m, o, e)
BY Zenon DEF OneEntry, Layer, CacheMap, Top

\* A new entry at o in the topmost cache that is consistent with the layer below
\* and shows c is a write of c to the topmost level.
LEMMA TopEntryLemma ==
  ASSUME IndInv, NEW o \in Outpoint, NEW c, NEW e \in Entry \cup {Absent},
         NEW m, StackOK(m, dbCoins), open' = open, dbCoins' = dbCoins,
         dbBest' = dbBest, hashBlock' \in [Layer -> Block \cup {NoBlock}],
         ~open => hashBlock'["view"] = NoBlock,
         DOMAIN usage' = Layer,
         OneEntry(m, o, e),
         \A x \in Outpoint : /\ CoinOf(m["tip"][x], dbCoins[x]) = TipCoin(x)
                             /\ CoinOf(m["view"][x], TipCoin(x)) = ViewCoin(x),
         ~open => m["view"] = cache["view"],
         EntryOK(e, IF open THEN TipCoin(o) ELSE dbCoins[o]),
         CoinOf(e, IF open THEN TipCoin(o) ELSE dbCoins[o]) = c
  PROVE  IndInv' /\ TopWritten(o, c)
<1>0. /\ m \in [Layer -> CacheMap] /\ m["tip"] \in CacheMap /\ m["view"] \in CacheMap
      /\ \A x \in Outpoint : /\ EntryOK(m["tip"][x], dbCoins[x])
                             /\ EntryOK(m["view"][x], TipCoin(x))
  BY Zenon DEF StackOK, Layer
<1>1. CASE open
  <2>1. /\ cache' \in [Layer -> CacheMap] /\ cache'["tip"] = m["tip"]
        /\ cache'["view"][o] = e
        /\ \A x \in Outpoint \ {o} : cache'["view"][x] = m["view"][x]
    BY <1>0, <1>1, Zenon DEF OneEntry, Top, Layer, CacheMap
  <2>2. \A x \in Outpoint : TipCoin(x)' = TipCoin(x)
    BY <2>1, Zenon DEF TipCoin
  <2>3. StackOK(cache', dbCoins')
    BY <1>0, <1>1, <2>1, <2>2, Zenon DEF StackOK, TipCoin
  <2>4. TopWritten(o, c)
    BY <1>1, <2>1, <2>2, Zenon DEF TopWritten, ViewCoin
  <2>5. RestOK'
    BY <1>1, InvFacts, Zenon DEF RestOK
  <2> QED
    BY <2>3, <2>4, <2>5, InvSplitNext, Zenon
<1>2. CASE ~open
  <2>1. /\ cache' \in [Layer -> CacheMap] /\ cache'["view"] = cache["view"]
        /\ cache'["tip"][o] = e
        /\ \A x \in Outpoint \ {o} : cache'["tip"][x] = m["tip"][x]
    BY <1>0, <1>2, Zenon DEF OneEntry, Top, Layer, CacheMap
  <2>2. \A x \in Outpoint : cache'["view"][x] = Absent /\ TipCoin(x) = ViewCoin(x)
    BY <1>2, <2>1, InvFacts, Zenon
  <2>3. \A x \in Outpoint : TipCoin(x)' = IF x = o THEN c ELSE TipCoin(x)
    BY <1>2, <2>1, Zenon DEF TipCoin
  <2>4. \A x \in Outpoint : EntryOK(cache'["tip"][x], dbCoins[x])
    BY <1>0, <1>2, <2>1, Zenon
  <2>5. StackOK(cache', dbCoins')
    BY <2>1, <2>2, <2>4, Zenon DEF StackOK, EntryOK
  <2>6. TopWritten(o, c)
    BY <1>2, <2>2, <2>3, Zenon DEF TopWritten, ViewCoin, CoinOf
  <2>7. RestOK'
    BY <1>2, <2>1, InvFacts, Zenon DEF RestOK
  <2> QED
    BY <2>5, <2>6, <2>7, InvSplitNext, Zenon
<1> QED
  BY <1>1, <1>2, Zenon

\* AddCoin, EmplaceCoin and SpendCoin keep the invariant and write the top level.
LEMMA AddCoinLemma ==
  ASSUME IndInv, NEW o \in Outpoint, NEW c \in Coin, NEW p \in BOOLEAN, AddCoin(o, c, p)
  PROVE  IndInv' /\ TopWritten(o, c)
<1> DEFINE below == IF open THEN TipCoin(o) ELSE dbCoins[o]
           e == AddedEntry(cache[Top][o], c, p)
<1>1. /\ cache[Top][o] \in Entry \cup {Absent} /\ below \in AnyCoin
      /\ EntryOK(cache[Top][o], below)
      /\ CoinAt(Top, o) = CoinOf(cache[Top][o], below)
  BY InvFacts, Zenon DEF CoinAt, TipCoin, ViewCoin
<1>2. e \in Entry \cup {Absent} /\ EntryOK(e, below) /\ CoinOf(e, below) = c
  BY <1>1, AddLemma DEF AddCoin
<1>3. RestOK /\ DOMAIN usage' = Layer
  BY InvFacts, Zenon DEF AddCoin, RestOK
<1>4. OneEntry(cache, o, e)
  BY <1>2, InvFacts, OneEntryLemma, Zenon DEF AddCoin
<1> HIDE DEF e
<1> QED
  BY <1>2, <1>3, <1>4, InvFacts, TopEntryLemma, Zenon DEF AddCoin, RestOK, TipCoin, ViewCoin

LEMMA EmplaceCoinLemma ==
  ASSUME IndInv, NEW o \in Outpoint, NEW c \in Coin, EmplaceCoin(o, c)
  PROVE  IndInv' /\ TopWritten(o, c)
<1> DEFINE e == [coin |-> c, flags |-> {"DIRTY"}]
<1>1. e \in Entry /\ e # Absent /\ e.coin = c /\ e.flags = {"DIRTY"}
  BY CoinsAssumption DEF Entry, AnyCoin, Flag
<1>2. ~open /\ Top = "tip"
  BY Zenon DEF EmplaceCoin, Top
<1>3. RestOK /\ DOMAIN usage' = Layer
  BY InvFacts, Zenon DEF EmplaceCoin, RestOK
<1>4. OneEntry(cache, o, e)
  BY <1>1, <1>2, InvFacts, OneEntryLemma, Zenon DEF EmplaceCoin
<1> HIDE DEF e
<1>5. EntryOK(e, dbCoins[o]) /\ CoinOf(e, dbCoins[o]) = c
  BY <1>1, CoinsAssumption, Zenon DEF EntryOK, CoinOf, Dirty, Fresh
<1> QED
  BY <1>1, <1>2, <1>3, <1>4, <1>5, InvFacts, TopEntryLemma, Zenon
     DEF EmplaceCoin, RestOK, TipCoin, ViewCoin

LEMMA SpendCoinLemma ==
  ASSUME IndInv, NEW o \in Outpoint, NEW f \in BOOLEAN, SpendCoin(o, f)
  PROVE  IndInv' /\ TopWritten(o, Spent)
<1> DEFINE m == Fetched(Top, o, f)
           below == IF open THEN TipCoin(o) ELSE dbCoins[o]
           e == SpentEntry(m[Top][o])
<1>1. /\ StackOK(m, dbCoins)
      /\ \A x \in Outpoint : /\ CoinOf(m["tip"][x], dbCoins[x]) = TipCoin(x)
                             /\ CoinOf(m["view"][x], TipCoin(x)) = ViewCoin(x)
      /\ m[Top][o] = Absent => CoinAt(Top, o) = Spent
      /\ Top = "tip" => m["view"] = cache["view"]
  BY FetchedLemma, InvFacts
<1>2. cache' = [m EXCEPT ![Top][o] = e]
  BY Zenon DEF SpendCoin
<1>3. /\ RestOK /\ DOMAIN usage' = Layer
      /\ UNCHANGED <<dbCoins, dbBest, hashBlock, open>>
  BY InvFacts, Zenon DEF SpendCoin, RestOK, FetchedUsage
<1> HIDE DEF m
<1>4. /\ m[Top][o] \in Entry \cup {Absent} /\ below \in AnyCoin
      /\ EntryOK(m[Top][o], below)
      /\ m[Top][o] = Absent => below = Spent
  BY <1>1, InvFacts, Zenon DEF StackOK, CacheMap, Layer, CoinAt, CoinOf
<1>5. e \in Entry \cup {Absent} /\ EntryOK(e, below) /\ CoinOf(e, below) = Spent
  BY <1>4, SpendLemma, Zenon
<1>6. /\ hashBlock' \in [Layer -> Block \cup {NoBlock}]
      /\ ~open => hashBlock'["view"] = NoBlock
      /\ ~open => m["view"] = cache["view"]
  BY <1>1, <1>3, InvFacts, Zenon DEF RestOK
<1>7. OneEntry(m, o, e)
  BY <1>1, <1>2, <1>5, OneEntryLemma, Zenon DEF StackOK
<1> QED
  BY <1>1, <1>2, <1>3, <1>5, <1>6, <1>7, TopEntryLemma

\* Uncache keeps the invariant and hides nothing.
LEMMA UncacheLemma ==
  ASSUME IndInv, NEW l \in Layer, NEW o \in Outpoint, Uncache(l, o)
  PROVE  IndInv' /\ SameCoins
<1>1. cache[l][o] # Absent /\ ~Dirty(cache[l][o])
  BY Zenon DEF Uncache, Uncacheable, Dirty
<1>2. CASE l = "tip"
  <2>1. /\ cache' \in [Layer -> CacheMap] /\ cache'["view"] = cache["view"]
        /\ cache'["tip"][o] = Absent
        /\ \A x \in Outpoint \ {o} : cache'["tip"][x] = cache["tip"][x]
    BY <1>2, InvFacts, Zenon DEF Uncache, Layer, CacheMap
  <2>2. \A x \in Outpoint : TipCoin(x)' = TipCoin(x)
    <3>1. dbCoins' = dbCoins /\ cache["tip"][o].coin = dbCoins[o] /\ cache["tip"][o] # Absent
      BY <1>1, <1>2, InvFacts, Zenon DEF EntryOK, Uncache
    <3> QED BY <2>1, <3>1, Zenon DEF TipCoin, CoinOf
  <2>3. SameCoins
    BY <2>1, <2>2, Zenon DEF SameCoins, ViewCoin, Uncache
  <2>4. StackOK(cache', dbCoins')
    <3>1. dbCoins' = dbCoins
      BY Zenon DEF Uncache
    <3>2. \A x \in Outpoint : EntryOK(Absent, dbCoins[x]) /\ EntryOK(Absent, TipCoin(x))
      BY Zenon DEF EntryOK
    <3>3. \A x \in Outpoint : EntryOK(cache'["tip"][x], dbCoins[x])
      BY <2>1, <3>2, InvFacts, Zenon
    <3>4. \A x \in Outpoint : EntryOK(cache'["view"][x], TipCoin(x))
      BY <2>1, <3>2, InvFacts, Zenon
    <3> QED BY <2>1, <2>2, <3>1, <3>3, <3>4, Zenon DEF StackOK, TipCoin
  <2>5. RestOK'
    BY <2>1, InvFacts, Zenon DEF RestOK, Uncache
  <2> QED
    BY <2>3, <2>4, <2>5, InvSplitNext, Zenon
<1>3. CASE l = "view"
  <2>1. /\ cache' \in [Layer -> CacheMap] /\ cache'["tip"] = cache["tip"]
        /\ cache'["view"][o] = Absent
        /\ \A x \in Outpoint \ {o} : cache'["view"][x] = cache["view"][x]
    BY <1>3, InvFacts, Zenon DEF Uncache, Layer, CacheMap
  <2>2. \A x \in Outpoint : TipCoin(x)' = TipCoin(x)
    BY <2>1, Zenon DEF TipCoin, Uncache
  <2>3. SameCoins
    <3>1. dbCoins' = dbCoins /\ cache["view"][o].coin = TipCoin(o) /\ cache["view"][o] # Absent
      BY <1>1, <1>3, InvFacts, Zenon DEF EntryOK, Uncache
    <3>2. \A x \in Outpoint : ViewCoin(x)' = ViewCoin(x)
      BY <2>1, <2>2, <3>1, Zenon DEF ViewCoin, CoinOf
    <3> QED BY <2>2, <3>1, <3>2, Zenon DEF SameCoins
  <2>4. StackOK(cache', dbCoins')
    <3>1. dbCoins' = dbCoins
      BY Zenon DEF Uncache
    <3>2. \A x \in Outpoint : EntryOK(Absent, dbCoins[x]) /\ EntryOK(Absent, TipCoin(x))
      BY Zenon DEF EntryOK
    <3>3. \A x \in Outpoint : EntryOK(cache'["tip"][x], dbCoins[x])
      BY <2>1, <3>2, InvFacts, Zenon
    <3>4. \A x \in Outpoint : EntryOK(cache'["view"][x], TipCoin(x))
      BY <2>1, <3>2, InvFacts, Zenon
    <3> QED BY <2>1, <2>2, <3>1, <3>3, <3>4, Zenon DEF StackOK, TipCoin
  <2>5. RestOK' /\ open'
    BY <1>3, InvFacts, Zenon DEF RestOK, Uncache, Opened, Top
  <2> QED
    BY <2>3, <2>4, <2>5, InvSplitNext, Zenon
<1> QED
  BY <1>2, <1>3, Zenon DEF Layer

\* Writing the view to the tip keeps the invariant; the tip then shows what the
\* view shows.
LEMMA WriteViewLemma ==
  ASSUME IndInv, NEW s \in BOOLEAN, WriteViewToTip(s)
  PROVE  /\ IndInv' /\ dbCoins' = dbCoins
         /\ \A x \in Outpoint : ViewCoin(x)' = ViewCoin(x) /\ TipCoin(x)' = ViewCoin(x)
<1>1. /\ cache' \in [Layer -> [Outpoint -> {cache'[l][x] : l \in Layer, x \in Outpoint}]]
      /\ \A x \in Outpoint :
           /\ cache'["tip"][x] = MergedEntry(cache["view"][x], cache["tip"][x])
           /\ cache'["view"][x] = IF s THEN SyncedEntry(cache["view"][x]) ELSE Absent
  BY InvFacts DEF WriteViewToTip, KeptEntries, Layer
<1>2. \A x \in Outpoint :
        /\ cache'["tip"][x] \in Entry \cup {Absent}
        /\ EntryOK(cache'["tip"][x], dbCoins[x])
        /\ CoinOf(cache'["tip"][x], dbCoins[x]) = ViewCoin(x)
  <2> TAKE x \in Outpoint
  <2>1. /\ cache["view"][x] \in Entry \cup {Absent} /\ cache["tip"][x] \in Entry \cup {Absent}
        /\ dbCoins[x] \in AnyCoin /\ EntryOK(cache["tip"][x], dbCoins[x])
        /\ EntryOK(cache["view"][x], CoinOf(cache["tip"][x], dbCoins[x]))
    BY InvFacts, Zenon DEF TipCoin
  <2> DEFINE r == MergedEntry(cache["view"][x], cache["tip"][x])
  <2>2. /\ r \in Entry \cup {Absent} /\ EntryOK(r, dbCoins[x])
        /\ CoinOf(r, dbCoins[x]) = CoinOf(cache["view"][x], CoinOf(cache["tip"][x], dbCoins[x]))
    BY <2>1, MergeLemma, Zenon
  <2>3. cache'["tip"][x] = r
    BY <1>1
  <2> QED
    BY <2>2, <2>3, Zenon DEF TipCoin, ViewCoin
<1>3. \A x \in Outpoint :
        /\ cache'["view"][x] \in Entry \cup {Absent}
        /\ EntryOK(cache'["view"][x], ViewCoin(x))
        /\ CoinOf(cache'["view"][x], ViewCoin(x)) = ViewCoin(x)
  <2> TAKE x \in Outpoint
  <2>1. /\ cache["view"][x] \in Entry \cup {Absent} /\ TipCoin(x) \in AnyCoin
        /\ EntryOK(cache["view"][x], TipCoin(x))
    BY InvFacts, Zenon
  <2>2. CASE s
    <3> DEFINE r == SyncedEntry(cache["view"][x])
    <3>1. /\ r \in Entry \cup {Absent} /\ EntryOK(r, CoinOf(cache["view"][x], TipCoin(x)))
          /\ CoinOf(r, CoinOf(cache["view"][x], TipCoin(x))) = CoinOf(cache["view"][x], TipCoin(x))
      BY <2>1, SyncLemma, Zenon
    <3>2. cache'["view"][x] = r
      BY <1>1, <2>2
    <3> QED
      BY <3>1, <3>2, Zenon DEF ViewCoin
  <2>3. CASE ~s
    BY <1>1, <2>3 DEF EntryOK, CoinOf
  <2> QED
    BY <2>2, <2>3, Zenon
<1>4. cache' \in [Layer -> CacheMap]
  BY <1>1, <1>2, <1>3 DEF Layer, CacheMap
<1>5. dbCoins' = dbCoins
  BY Zenon DEF WriteViewToTip
<1>6. \A x \in Outpoint : ViewCoin(x)' = ViewCoin(x) /\ TipCoin(x)' = ViewCoin(x)
  BY <1>2, <1>3, <1>5, Zenon DEF TipCoin, ViewCoin
<1>7. StackOK(cache', dbCoins')
  BY <1>2, <1>3, <1>4, <1>5, Zenon DEF StackOK
<1>8. RestOK'
  BY InvFacts, Zenon DEF RestOK, WriteViewToTip, Layer
<1> QED
  BY <1>5, <1>6, <1>7, <1>8, InvSplitNext, Zenon

\* Writing the tip to the database keeps the invariant; the database then holds
\* what the tip shows.
LEMMA WriteTipLemma ==
  ASSUME IndInv, NEW s \in BOOLEAN, WriteTipToDB(s)
  PROVE  /\ IndInv'
         /\ \A x \in Outpoint : /\ ViewCoin(x)' = ViewCoin(x) /\ TipCoin(x)' = TipCoin(x)
                                /\ dbCoins'[x] = TipCoin(x)
<1>1. /\ cache' \in [Layer -> [Outpoint -> {cache'[l][x] : l \in Layer, x \in Outpoint}]]
      /\ cache'["view"] = cache["view"]
      /\ \A x \in Outpoint :
           cache'["tip"][x] = IF s THEN SyncedEntry(cache["tip"][x]) ELSE Absent
  BY InvFacts DEF WriteTipToDB, KeptEntries, Layer, CacheMap
<1>2. \A x \in Outpoint : dbCoins'[x] = TipCoin(x)
  BY InvFacts, Zenon DEF WriteTipToDB, TipCoin, CoinOf, EntryOK, Dirty
<1>3. dbCoins' \in [Outpoint -> AnyCoin]
  BY <1>2, InvFacts, Zenon DEF WriteTipToDB
<1>4. \A x \in Outpoint :
        /\ cache'["tip"][x] \in Entry \cup {Absent}
        /\ EntryOK(cache'["tip"][x], TipCoin(x))
        /\ CoinOf(cache'["tip"][x], TipCoin(x)) = TipCoin(x)
  <2> TAKE x \in Outpoint
  <2>1. /\ cache["tip"][x] \in Entry \cup {Absent} /\ dbCoins[x] \in AnyCoin
        /\ EntryOK(cache["tip"][x], dbCoins[x])
    BY InvFacts, Zenon
  <2>2. CASE s
    <3> DEFINE r == SyncedEntry(cache["tip"][x])
    <3>1. /\ r \in Entry \cup {Absent} /\ EntryOK(r, CoinOf(cache["tip"][x], dbCoins[x]))
          /\ CoinOf(r, CoinOf(cache["tip"][x], dbCoins[x])) = CoinOf(cache["tip"][x], dbCoins[x])
      BY <2>1, SyncLemma, Zenon
    <3>2. cache'["tip"][x] = r
      BY <1>1, <2>2
    <3> QED
      BY <3>1, <3>2, Zenon DEF TipCoin
  <2>3. CASE ~s
    <3>1. cache'["tip"][x] = Absent
      BY <1>1, <2>3
    <3> QED
      BY <3>1, Zenon DEF EntryOK, CoinOf
  <2> QED
    BY <2>2, <2>3, Zenon
<1>5. cache' \in [Layer -> CacheMap]
  BY <1>1, <1>4, InvFacts DEF Layer, CacheMap
<1>6. \A x \in Outpoint : ViewCoin(x)' = ViewCoin(x) /\ TipCoin(x)' = TipCoin(x)
  BY <1>1, <1>2, <1>4, Zenon DEF TipCoin, ViewCoin
<1>7. StackOK(cache', dbCoins')
  <2> SUFFICES ASSUME NEW x \in Outpoint
               PROVE  /\ EntryOK(cache'["tip"][x], dbCoins'[x])
                      /\ EntryOK(cache'["view"][x], CoinOf(cache'["tip"][x], dbCoins'[x]))
    BY <1>5, Zenon DEF StackOK
  <2>1. EntryOK(cache["view"][x], TipCoin(x))
    BY InvFacts, Zenon
  <2> QED
    BY <1>1, <1>2, <1>4, <2>1, Zenon
<1>8. RestOK'
  BY <1>1, <1>3, InvFacts, Zenon DEF RestOK, WriteTipToDB, Layer
<1> QED
  BY <1>2, <1>6, <1>7, <1>8, InvSplitNext, Zenon

\* Destroying the view keeps the invariant; the top level then shows the tip's
\* coins again.
LEMMA CloseViewLemma ==
  ASSUME IndInv, CloseView
  PROVE  /\ IndInv' /\ dbCoins' = dbCoins
         /\ \A x \in Outpoint : TipCoin(x)' = TipCoin(x) /\ ViewCoin(x)' = TipCoin(x)
<1>1. /\ cache' \in [Layer -> CacheMap] /\ cache'["tip"] = cache["tip"]
      /\ cache'["view"] = EmptyCache
      /\ \A x \in Outpoint : cache'["view"][x] = Absent
  BY InvFacts, Zenon DEF CloseView, EmptyCache, CacheMap, Layer
<1>2. dbCoins' = dbCoins
  BY Zenon DEF CloseView
<1>3. \A x \in Outpoint : TipCoin(x)' = TipCoin(x) /\ ViewCoin(x)' = TipCoin(x)
  BY <1>1, <1>2, Zenon DEF TipCoin, ViewCoin, CoinOf
<1>4. StackOK(cache', dbCoins')
  <2>1. \A x \in Outpoint : EntryOK(Absent, CoinOf(cache'["tip"][x], dbCoins'[x]))
    BY Zenon DEF EntryOK
  <2> QED BY <1>1, <1>2, <2>1, InvFacts, Zenon DEF StackOK
<1>5. RestOK'
  BY <1>1, InvFacts, Zenon DEF RestOK, CloseView, Layer
<1> QED
  BY <1>2, <1>3, <1>4, <1>5, InvSplitNext, Zenon

\* A step that leaves the maps alone keeps the invariant if it keeps the types.
LEMMA SameMapsLemma ==
  ASSUME IndInv, UNCHANGED <<dbCoins, dbBest, cache, usage>>,
         hashBlock' \in [Layer -> Block \cup {NoBlock}], open' \in BOOLEAN,
         ~open' => ~open /\ hashBlock'["view"] = NoBlock
  PROVE  IndInv' /\ SameCoins
<1>1. SameCoins
  BY Zenon DEF SameCoins, TipCoin, ViewCoin
<1>2. StackOK(cache', dbCoins')
  BY InvFacts, Zenon
<1>3. RestOK'
  BY InvFacts, Zenon DEF RestOK
<1> QED
  BY <1>1, <1>2, <1>3, InvSplitNext, Zenon

\* The bookkeeping of best blocks and OpenView.
LEMMA BookkeepingLemma ==
  ASSUME IndInv,
         (\E b \in Block : SetBestBlock(b)) \/ (\E l \in Layer : GetBestBlock(l)) \/ OpenView
  PROVE  IndInv' /\ SameCoins
<1>0. RestOK
  BY InvFacts, Zenon
<1>1. CASE OpenView
  BY <1>0, <1>1, SameMapsLemma, Zenon DEF OpenView, RestOK
<1>2. ASSUME NEW b \in Block, SetBestBlock(b) PROVE IndInv' /\ SameCoins
  <2>1. /\ hashBlock' \in [Layer -> Block \cup {NoBlock}]
        /\ ~open => hashBlock'["view"] = NoBlock
    BY <1>0, <1>2, Zenon DEF SetBestBlock, RestOK, Top, Layer
  <2> QED
    BY <1>0, <1>2, <2>1, SameMapsLemma, Zenon DEF SetBestBlock, RestOK
<1>3. ASSUME NEW l \in Layer, GetBestBlock(l) PROVE IndInv' /\ SameCoins
  <2>1. /\ hashBlock' \in [Layer -> Block \cup {NoBlock}]
        /\ ~open => hashBlock'["view"] = NoBlock
    BY <1>0, <1>3, Zenon DEF GetBestBlock, RestOK, TipBest, Top, Opened, Layer
  <2> QED
    BY <1>0, <1>3, <2>1, SameMapsLemma, Zenon DEF GetBestBlock, RestOK
<1> QED
  BY <1>1, <1>2, <1>3, Zenon
-----------------------------------------------------------------------------
LEMMA InitLemma == Init => IndInv
<1> SUFFICES ASSUME Init PROVE IndInv
  BY Zenon
<1>1. /\ cache["tip"] = EmptyCache /\ cache["view"] = EmptyCache
      /\ cache \in [Layer -> CacheMap]
      /\ \A o \in Outpoint : cache["tip"][o] = Absent /\ cache["view"][o] = Absent
  BY Zenon DEF Init, EmptyCache, CacheMap, Layer
<1>2. StackOK(cache, dbCoins)
  BY <1>1, Zenon DEF StackOK, EntryOK
<1>3. RestOK
  BY <1>1, Zenon DEF Init, RestOK, Layer
<1> QED
  BY <1>2, <1>3, InvSplit, Zenon

LEMMA StutterLemma == IndInv /\ UNCHANGED vars => IndInv' /\ SameCoins
BY DEF IndInv, TypeOK, vars, TipCoin, ViewCoin, SameCoins

\* Every step of the stack keeps its entries consistent.
LEMMA NextLemma == IndInv /\ [Next]_vars => IndInv'
<1> SUFFICES ASSUME IndInv, [Next]_vars PROVE IndInv'
  BY Zenon
<1>1. ASSUME NEW l \in Layer, NEW o \in Outpoint, NEW f \in BOOLEAN, GetCoin(l, o, f)
      PROVE  IndInv'
  BY <1>1, GetCoinLemma, Zenon
<1>2. ASSUME NEW o \in Outpoint, NEW c \in Coin, NEW p \in BOOLEAN, AddCoin(o, c, p)
      PROVE  IndInv'
  BY <1>2, AddCoinLemma, Zenon
<1>3. ASSUME NEW o \in Outpoint, NEW c \in Coin, EmplaceCoin(o, c) PROVE IndInv'
  BY <1>3, EmplaceCoinLemma, Zenon
<1>4. ASSUME NEW o \in Outpoint, NEW f \in BOOLEAN, SpendCoin(o, f) PROVE IndInv'
  BY <1>4, SpendCoinLemma, Zenon
<1>5. ASSUME NEW s \in BOOLEAN, WriteViewToTip(s) PROVE IndInv'
  BY <1>5, WriteViewLemma, Zenon
<1>6. ASSUME NEW s \in BOOLEAN, WriteTipToDB(s) PROVE IndInv'
  BY <1>6, WriteTipLemma, Zenon
<1>7. ASSUME NEW l \in Layer, NEW o \in Outpoint, Uncache(l, o) PROVE IndInv'
  BY <1>7, UncacheLemma, Zenon
<1>8. CASE CloseView
  BY <1>8, CloseViewLemma, Zenon
<1>9. CASE (\E b \in Block : SetBestBlock(b)) \/ (\E l \in Layer : GetBestBlock(l)) \/ OpenView
  BY <1>9, BookkeepingLemma, Zenon
<1>10. CASE UNCHANGED vars
  BY <1>10, StutterLemma, Zenon
<1> QED
  BY <1>1, <1>2, <1>3, <1>4, <1>5, <1>6, <1>7, <1>8, <1>9, <1>10, Zenon DEF Next

\* Every reachable state of the stack satisfies the inductive invariant.
THEOREM Consistent == Spec => []IndInv
BY InitLemma, NextLemma, PTL DEF Spec

\* Type correctness of CCoinsViewCache's stack.
THEOREM TypeCorrect == Spec => []TypeOK
<1>1. IndInv => TypeOK
  BY Zenon DEF IndInv
<1> QED
  BY <1>1, Consistent, PTL

\* SanityCheck's flag assertion never fails: only the five documented
\* combinations of DIRTY, FRESH and spent occur.
THEOREM FlagsCorrect == Spec => []FlagsOK
<1>1. IndInv => FlagsOK
  BY Zenon DEF IndInv, TypeOK, CacheMap, Entry, EntryOK, FlagsOK, Layer
<1> QED
  BY <1>1, Consistent, PTL

\* SpendCoin and BatchWrite may forget a FRESH entry: nothing lies below it.
THEOREM FreshCorrect == Spec => []FreshMeansAbsentBelow
<1>1. IndInv => FreshMeansAbsentBelow
  BY Zenon DEF IndInv, EntryOK, FreshMeansAbsentBelow, Fresh
<1> QED
  BY <1>1, Consistent, PTL

\* Uncache and BatchWrite may ignore an entry that is not DIRTY.
THEOREM CleanCorrect == Spec => []CleanMeansSameBelow
<1>1. IndInv => CleanMeansSameBelow
  BY Zenon DEF IndInv, EntryOK, CleanMeansSameBelow, TipCoin, ViewCoin, CoinOf
<1> QED
  BY <1>1, Consistent, PTL

\* BatchWrite's "FRESH flag misapplied" logic_error is unreachable.
THEOREM NoLogicError == Spec => []NeverMisapplied
<1>1. IndInv => NeverMisapplied
  BY Zenon DEF IndInv, EntryOK, NeverMisapplied, Misapplied, TipCoin, CoinOf, Fresh, Dirty
<1> QED
  BY <1>1, Consistent, PTL

\* What the operations of CCoinsViewCache assume of their entries, for any coins
\* and blocks.
THEOREM EntriesCorrect == Spec => []EntriesConsistent
<1>1. FlagsOK /\ FreshMeansAbsentBelow /\ CleanMeansSameBelow /\ NeverMisapplied
        => EntriesConsistent
  BY Zenon DEF EntriesConsistent
<1> QED
  BY <1>1, FlagsCorrect, FreshCorrect, CleanCorrect, NoLogicError, PTL
-----------------------------------------------------------------------------
\* The refinement mapping's state functions, under the names used below.
TipMap == [o \in Outpoint |-> TipCoin(o)]
ViewMap == [o \in Outpoint |-> ViewCoin(o)]
BestMap == [l \in {"db", "tip", "view"} |->
              IF l = "db" THEN dbBest ELSE IF l = "tip" THEN TipBest ELSE ViewBest]

\* A step that shows the same coins and best blocks everywhere is a stutter.
LEMMA StutterMap ==
  ASSUME SameCoins, BestMap' = BestMap
  PROVE  UNCHANGED Views!vars
<1>1. TipMap' = TipMap /\ ViewMap' = ViewMap
  BY Zenon DEF SameCoins, TipMap, ViewMap
<1> QED
  BY <1>1, Zenon DEF SameCoins, Views!vars, TipMap, ViewMap, BestMap

\* A write of the topmost level is a write of the abstract view or tip.
LEMMA WriteMap ==
  ASSUME IndInv, NEW o \in Outpoint, NEW c \in AnyCoin, TopWritten(o, c), BestMap' = BestMap
  PROVE  Views!Next
<1>1. CASE open
  <2>1. ViewMap' = [ViewMap EXCEPT ![o] = c] /\ TipMap' = TipMap /\ dbCoins' = dbCoins
    BY <1>1, Zenon DEF TopWritten, ViewMap, TipMap
  <2>2. Views!WriteView(o, c)
    BY <2>1, Zenon DEF Views!WriteView, ViewMap, TipMap, BestMap
  <2> QED
    BY <2>2, Zenon DEF Views!Next, AnyCoin
<1>2. CASE ~open
  <2>1. /\ TipMap' = [TipMap EXCEPT ![o] = c] /\ ViewMap' = TipMap' /\ dbCoins' = dbCoins
        /\ ViewMap = TipMap
    BY <1>2, InvFacts, Zenon DEF TopWritten, ViewMap, TipMap
  <2>2. BestMap["view"] = BestMap["tip"]
    BY <1>2, InvFacts, Zenon DEF BestMap
  <2>3. Views!WriteTip(o, c)
    BY <2>1, <2>2, Zenon DEF Views!WriteTip, ViewMap, TipMap, BestMap
  <2> QED
    BY <2>3, Zenon DEF Views!Next, AnyCoin
<1> QED
  BY <1>1, <1>2, Zenon

\* An action that leaves hashBlock and the database's best block alone shows the
\* same best blocks.
LEMMA SameBest ==
  ASSUME UNCHANGED <<dbBest, hashBlock>>
  PROVE  BestMap' = BestMap
BY Zenon DEF BestMap, TipBest, ViewBest

\* The writes to a base, and the end of a view, are the abstract commits.
LEMMA WriteViewMap ==
  ASSUME IndInv, NEW s \in BOOLEAN, WriteViewToTip(s)
  PROVE  Views!Next
<1>1. TipMap' = ViewMap /\ ViewMap' = ViewMap /\ dbCoins' = dbCoins
  BY WriteViewLemma, Zenon DEF TipMap, ViewMap
<1>2. BestMap' = [BestMap EXCEPT !["tip"] = BestMap["view"]]
  BY InvFacts, Zenon DEF WriteViewToTip, BestMap, TipBest, ViewBest, RestOK, Layer
<1>3. Views!CommitView
  BY <1>1, <1>2, Zenon DEF Views!CommitView, TipMap, ViewMap, BestMap
<1> QED
  BY <1>3, Zenon DEF Views!Next

LEMMA WriteTipMap ==
  ASSUME IndInv, NEW s \in BOOLEAN, WriteTipToDB(s)
  PROVE  Views!Next
<1>1. TipMap' = TipMap /\ ViewMap' = ViewMap
  BY WriteTipLemma, Zenon DEF TipMap, ViewMap
<1>2. dbCoins' = TipMap
  BY WriteTipLemma, Zenon DEF TipMap, WriteTipToDB
<1>3. BestMap' = [BestMap EXCEPT !["db"] = BestMap["tip"]]
  BY InvFacts, Zenon DEF WriteTipToDB, BestMap, TipBest, ViewBest, RestOK, Layer
<1>4. Views!CommitTip
  BY <1>1, <1>2, <1>3, Zenon DEF Views!CommitTip, TipMap, ViewMap, BestMap
<1> QED
  BY <1>4, Zenon DEF Views!Next

LEMMA CloseViewMap ==
  ASSUME IndInv, CloseView
  PROVE  Views!Next
<1>1. TipMap' = TipMap /\ ViewMap' = TipMap /\ dbCoins' = dbCoins
  BY CloseViewLemma, Zenon DEF TipMap, ViewMap
<1>2. BestMap' = [BestMap EXCEPT !["view"] = BestMap["tip"]]
  BY InvFacts, Zenon DEF CloseView, BestMap, TipBest, ViewBest, RestOK, Layer
<1>3. Views!Discard
  BY <1>1, <1>2, Zenon DEF Views!Discard, TipMap, ViewMap, BestMap
<1> QED
  BY <1>3, Zenon DEF Views!Next

LEMMA SetBestMap ==
  ASSUME IndInv, NEW b \in Block, SetBestBlock(b)
  PROVE  Views!Next
<1>1. SameCoins
  BY BookkeepingLemma, Zenon
<1>2. TipMap' = TipMap /\ ViewMap' = ViewMap /\ dbCoins' = dbCoins
  BY <1>1, Zenon DEF SameCoins, TipMap, ViewMap
<1>3. CASE open
  <2>1. BestMap' = [BestMap EXCEPT !["view"] = b]
    BY <1>3, InvFacts, CoinsAssumption, Zenon
       DEF SetBestBlock, BestMap, TipBest, ViewBest, RestOK, Layer, Top
  <2>2. Views!SetViewBest(b)
    BY <1>2, <2>1, Zenon DEF Views!SetViewBest, TipMap, ViewMap, BestMap
  <2> QED
    BY <2>2, Zenon DEF Views!Next
<1>4. CASE ~open
  <2>1. BestMap' = [BestMap EXCEPT !["view"] = b, !["tip"] = b]
    BY <1>4, InvFacts, CoinsAssumption, Zenon
       DEF SetBestBlock, BestMap, TipBest, ViewBest, RestOK, Layer, Top
  <2>2. BestMap["view"] = BestMap["tip"] /\ ViewMap = TipMap
    BY <1>4, InvFacts, Zenon DEF BestMap, ViewMap, TipMap
  <2>3. Views!SetTipBest(b)
    BY <1>2, <2>1, <2>2, Zenon DEF Views!SetTipBest, TipMap, ViewMap, BestMap
  <2> QED
    BY <2>3, Zenon DEF Views!Next
<1> QED
  BY <1>3, <1>4, Zenon

\* Every step of the caches is a step of the plain maps, or changes none of them.
LEMMA StepMap == IndInv /\ [Next]_vars => [Views!Next]_Views!vars
<1> SUFFICES ASSUME IndInv, [Next]_vars PROVE Views!Next \/ UNCHANGED Views!vars
  BY Zenon DEF Views!vars
<1>1. ASSUME NEW l \in Layer, NEW o \in Outpoint, NEW f \in BOOLEAN, GetCoin(l, o, f)
      PROVE  UNCHANGED Views!vars
  BY <1>1, GetCoinLemma, SameBest, StutterMap, Zenon DEF GetCoin
<1>2. ASSUME NEW o \in Outpoint, NEW c \in Coin, NEW p \in BOOLEAN, AddCoin(o, c, p)
      PROVE  Views!Next
  BY <1>2, AddCoinLemma, SameBest, WriteMap, Zenon DEF AddCoin, AnyCoin
<1>3. ASSUME NEW o \in Outpoint, NEW c \in Coin, EmplaceCoin(o, c) PROVE Views!Next
  BY <1>3, EmplaceCoinLemma, SameBest, WriteMap, Zenon DEF EmplaceCoin, AnyCoin
<1>4. ASSUME NEW o \in Outpoint, NEW f \in BOOLEAN, SpendCoin(o, f) PROVE Views!Next
  BY <1>4, SpendCoinLemma, SameBest, WriteMap, Zenon DEF SpendCoin, AnyCoin
<1>5. ASSUME NEW s \in BOOLEAN, WriteViewToTip(s) PROVE Views!Next
  BY <1>5, WriteViewMap, Zenon
<1>6. ASSUME NEW s \in BOOLEAN, WriteTipToDB(s) PROVE Views!Next
  BY <1>6, WriteTipMap, Zenon
<1>7. ASSUME NEW l \in Layer, NEW o \in Outpoint, Uncache(l, o) PROVE UNCHANGED Views!vars
  BY <1>7, UncacheLemma, SameBest, StutterMap, Zenon DEF Uncache
<1>8. CASE CloseView
  BY <1>8, CloseViewMap, Zenon
<1>9. ASSUME NEW b \in Block, SetBestBlock(b) PROVE Views!Next
  BY <1>9, SetBestMap, Zenon
<1>10. ASSUME NEW l \in Layer, GetBestBlock(l) PROVE UNCHANGED Views!vars
  <2>1. BestMap' = BestMap
    BY <1>10, InvFacts, Zenon DEF GetBestBlock, BestMap, TipBest, ViewBest, RestOK, Layer
  <2> QED
    BY <1>10, <2>1, BookkeepingLemma, StutterMap, Zenon
<1>11. CASE OpenView
  BY <1>11, BookkeepingLemma, SameBest, StutterMap, Zenon DEF OpenView
<1>12. CASE UNCHANGED vars
  BY <1>12, StutterLemma, SameBest, StutterMap, Zenon DEF vars
<1> QED
  BY <1>1, <1>2, <1>3, <1>4, <1>5, <1>6, <1>7, <1>8, <1>9, <1>10, <1>11, <1>12, Zenon DEF Next

LEMMA InitMap == Init => Views!Init
<1> SUFFICES ASSUME Init PROVE Views!Init
  BY Zenon
<1>1. \A o \in Outpoint : TipCoin(o) = dbCoins[o] /\ ViewCoin(o) = dbCoins[o]
  BY Zenon DEF Init, TipCoin, ViewCoin, CoinOf, EmptyCache, Layer
<1>2. TipMap = dbCoins /\ ViewMap = dbCoins
  BY <1>1, Zenon DEF Init, TipMap, ViewMap
<1>3. BestMap \in Views!BestMap /\ BestMap["tip"] = BestMap["db"] /\ BestMap["view"] = BestMap["db"]
  BY Zenon DEF Init, BestMap, TipBest, ViewBest, Layer, Views!BestMap
<1> QED
  BY <1>2, <1>3, Zenon DEF Init, Views!Init, Views!CoinMap, AnyCoin, TipMap, ViewMap, BestMap

\* The stack of caches implements three plain coin maps: whatever is cached,
\* evicted, flushed, synced or dropped, each level shows exactly its map.
THEOREM Refinement == Spec => ImplementsViews
<1>1. ImplementsViews <=> Views!Init /\ [][Views!Next]_Views!vars
  BY Zenon DEF ImplementsViews, Views!Spec
<1> QED
  BY InitMap, StepMap, Consistent, <1>1, PTL DEF Spec

-----------------------------------------------------------------------------
(* Sums over the outpoints.                                                *)

Less == {z \in Nat \X Nat : z[1] < z[2]}

\* Every non-empty set of natural numbers has a least element.
LEMMA LeastNumber ==
  ASSUME NEW T \in SUBSET Nat, T # {}
  PROVE  \E x \in T : \A y \in T : x <= y
<1>1. OpToRel(<, Nat) = Less
  BY Zenon DEF OpToRel, Less
<1>2. IsWellFoundedOn(Less, Nat)
  BY <1>1, NatLessThanWellFounded, Zenon
<1>3. PICK x \in T : \A y \in T : ~(<<y, x>> \in Less)
  BY <1>2, WFMin, Zenon
<1>4. ASSUME NEW y \in T PROVE x <= y
  <2>1. x \in Nat /\ y \in Nat /\ <<y, x>> \in Nat \X Nat
    BY Zenon
  <2>2. ~(y < x)
    BY <1>3, <2>1, Zenon DEF Less
  <2> QED BY <2>1, <2>2
<1> QED BY <1>4, Zenon

\* Induction over the naturals, for a set of numbers.
LEMMA NumberInduction ==
  ASSUME NEW T \in SUBSET Nat, 0 \in T, \A n \in T : n + 1 \in T
  PROVE  T = Nat
<1> SUFFICES ASSUME Nat \ T # {} PROVE FALSE
  BY Zenon
<1>1. PICK x \in Nat \ T : \A y \in Nat \ T : x <= y
  BY LeastNumber, Zenon
<1>2. x # 0 /\ x - 1 \in Nat /\ ~(x <= x - 1)
  OBVIOUS
<1>3. x - 1 \in T
  BY <1>1, <1>2, Zenon
<1>4. (x - 1) + 1 = x
  OBVIOUS
<1> QED BY <1>3, <1>4, Zenon

Picked(s) == CHOOSE x \in s : TRUE
Rest(s) == s \ {Picked(s)}

LEMMA RestSmaller ==
  ASSUME NEW s \in SUBSET Outpoint
  PROVE  /\ Cardinality(s) \in Nat /\ (Cardinality(s) = 0 <=> s = {})
         /\ s # {} => /\ Picked(s) \in s /\ Rest(s) \in SUBSET Outpoint
                      /\ Cardinality(Rest(s)) = Cardinality(s) - 1
<1>1. IsFiniteSet(s)
  BY UsageAssumption, FS_Subset, Zenon
<1>2. s # {} => Picked(s) \in s
  BY Zenon DEF Picked
<1> QED BY <1>1, <1>2, FS_CardinalityType, FS_EmptySet, FS_RemoveElement, Zenon DEF Rest

\* Induction over the sets of outpoints, taking away one at a time.
LEMMA SubsetInduction ==
  ASSUME NEW T \in SUBSET SUBSET Outpoint, {} \in T,
         \A s \in SUBSET Outpoint : s # {} /\ Rest(s) \in T => s \in T
  PROVE  T = SUBSET Outpoint
<1> DEFINE N == {n \in Nat : \A s \in SUBSET Outpoint : Cardinality(s) = n => s \in T}
<1>1. 0 \in N
  BY RestSmaller, Zenon
<1>2. \A n \in N : n + 1 \in N
  <2> SUFFICES ASSUME NEW n \in N, NEW s \in SUBSET Outpoint, Cardinality(s) = n + 1
               PROVE  s \in T
    OBVIOUS
  <2>1. s # {} /\ Rest(s) \in SUBSET Outpoint /\ Cardinality(Rest(s)) = n
    BY RestSmaller
  <2> QED BY <2>1, Zenon
<1>3. N = Nat
  <2>1. N \in SUBSET Nat
    BY Zenon
  <2> HIDE DEF N
  <2> QED BY <2>1, <1>1, <1>2, NumberInduction, Zenon
<1> QED BY <1>3, RestSmaller, Zenon

\* g gives the sum of f over every set of outpoints.
AddsUp(f, g, s) == g[s] = IF s = {} THEN 0 ELSE f[Picked(s)] + g[Rest(s)]
Sums(f, g) == \A s \in SUBSET Outpoint : AddsUp(f, g, s)

LEMMA SumsUnique ==
  ASSUME NEW f, NEW g, NEW h, Sums(f, g), Sums(f, h)
  PROVE  \A s \in SUBSET Outpoint : g[s] = h[s]
<1> DEFINE T == {s \in SUBSET Outpoint : g[s] = h[s]}
<1>1. {} \in T
  BY Zenon DEF Sums, AddsUp
<1>2. \A s \in SUBSET Outpoint : s # {} /\ Rest(s) \in T => s \in T
  BY Zenon DEF Sums, AddsUp
<1>3. T = SUBSET Outpoint
  <2>1. T \in SUBSET SUBSET Outpoint
    BY Zenon
  <2> HIDE DEF T
  <2> QED BY <2>1, <1>1, <1>2, SubsetInduction, Zenon
<1> QED BY <1>3, Zenon

LEMMA SumsExist ==
  ASSUME NEW f \in [Outpoint -> Int]
  PROVE  \E g \in [SUBSET Outpoint -> Int] : Sums(f, g)
<1> DEFINE Good(n, g) == \A s \in SUBSET Outpoint : Cardinality(s) <= n => AddsUp(f, g, s)
           N == {n \in Nat : \E g \in [SUBSET Outpoint -> Int] : Good(n, g)}
<1>1. 0 \in N
  <2> DEFINE z == [s \in SUBSET Outpoint |-> 0]
  <2>1. z \in [SUBSET Outpoint -> Int]
    OBVIOUS
  <2>2. Good(0, z)
    <3> SUFFICES ASSUME NEW s \in SUBSET Outpoint, Cardinality(s) <= 0 PROVE AddsUp(f, z, s)
      BY Zenon
    <3>1. s = {}
      BY RestSmaller
    <3>2. z[s] = 0
      BY Zenon
    <3> QED BY <3>1, <3>2, Zenon DEF AddsUp
  <2> HIDE DEF Good, z
  <2> QED BY <2>1, <2>2, Zenon
<1>2. \A n \in N : n + 1 \in N
  <2> TAKE n \in N
  <2>1. PICK g \in [SUBSET Outpoint -> Int] : Good(n, g)
    BY Zenon
  <2> DEFINE h == [s \in SUBSET Outpoint |->
                     IF s = {} THEN 0 ELSE f[Picked(s)] + g[Rest(s)]]
  <2>2. h \in [SUBSET Outpoint -> Int]
    <3>1. ASSUME NEW s \in SUBSET Outpoint, s # {} PROVE f[Picked(s)] + g[Rest(s)] \in Int
      <4>1. Picked(s) \in Outpoint /\ Rest(s) \in SUBSET Outpoint
        BY <3>1, RestSmaller, Zenon
      <4> QED BY <4>1
    <3> QED BY <3>1
  <2>3. ASSUME NEW s \in SUBSET Outpoint, Cardinality(s) <= n PROVE h[s] = g[s]
    BY <2>1, <2>3, Zenon DEF AddsUp
  <2>4. ASSUME NEW s \in SUBSET Outpoint, Cardinality(s) <= n + 1 PROVE AddsUp(f, h, s)
    <3>1. CASE s = {}
      BY <3>1, Zenon DEF AddsUp
    <3>2. CASE s # {}
      <4>1. Rest(s) \in SUBSET Outpoint /\ Cardinality(Rest(s)) <= n
        BY <2>4, <3>2, RestSmaller
      <4>2. h[Rest(s)] = g[Rest(s)]
        BY <4>1, <2>3, Zenon
      <4> QED BY <3>2, <4>2, Zenon DEF AddsUp
    <3> QED BY <3>1, <3>2, Zenon
  <2>5. Good(n + 1, h)
    BY <2>4, Zenon
  <2> HIDE DEF Good, h
  <2> QED BY <2>2, <2>5
<1>3. N = Nat
  <2>1. N \in SUBSET Nat
    BY Zenon
  <2> HIDE DEF N
  <2> QED BY <2>1, <1>1, <1>2, NumberInduction, Zenon
<1>4. Cardinality(Outpoint) \in Nat
  BY UsageAssumption, FS_CardinalityType, Zenon
<1>5. PICK g \in [SUBSET Outpoint -> Int] : Good(Cardinality(Outpoint), g)
  BY <1>3, <1>4, Zenon
<1>6. ASSUME NEW s \in SUBSET Outpoint PROVE Cardinality(s) <= Cardinality(Outpoint)
  BY UsageAssumption, FS_Subset, Zenon
<1> QED BY <1>5, <1>6, Zenon DEF Sums

\* The sum of f over all outpoints.
Total(f) == (CHOOSE g \in [SUBSET Outpoint -> Int] : Sums(f, g))[Outpoint]

LEMMA TotalSums ==
  ASSUME NEW f \in [Outpoint -> Int], NEW g, Sums(f, g)
  PROVE  Total(f) = g[Outpoint] /\ Total(f) \in Int
<1> DEFINE h == CHOOSE h \in [SUBSET Outpoint -> Int] : Sums(f, h)
<1>1. h \in [SUBSET Outpoint -> Int] /\ Sums(f, h)
  BY SumsExist, Zenon
<1>2. h[Outpoint] = g[Outpoint] /\ h[Outpoint] \in Int
  <2> HIDE DEF h
  <2> QED BY <1>1, SumsUnique
<1> QED BY <1>2, Zenon DEF Total

\* Sums add up pointwise.
LEMMA TotalPlus ==
  ASSUME NEW f \in [Outpoint -> Int], NEW g \in [Outpoint -> Int], NEW h \in [Outpoint -> Int],
         \A o \in Outpoint : h[o] = f[o] + g[o]
  PROVE  Total(h) = Total(f) + Total(g)
<1>1. PICK a \in [SUBSET Outpoint -> Int] : Sums(f, a)
  BY SumsExist, Zenon
<1>2. PICK b \in [SUBSET Outpoint -> Int] : Sums(g, b)
  BY SumsExist, Zenon
<1> DEFINE c == [s \in SUBSET Outpoint |-> a[s] + b[s]]
<1>3. ASSUME NEW s \in SUBSET Outpoint PROVE AddsUp(h, c, s)
  <2>1. CASE s = {}
    <3>1. a[s] = 0 /\ b[s] = 0
      BY <2>1, <1>1, <1>2, Zenon DEF Sums, AddsUp
    <3>2. c[s] = 0
      BY <3>1
    <3> QED BY <2>1, <3>2, Zenon DEF AddsUp
  <2>2. CASE s # {}
    <3>1. Picked(s) \in Outpoint /\ Rest(s) \in SUBSET Outpoint
      BY <2>2, RestSmaller, Zenon
    <3>2. /\ a[s] = f[Picked(s)] + a[Rest(s)] /\ b[s] = g[Picked(s)] + b[Rest(s)]
          /\ {a[s], b[s], a[Rest(s)], b[Rest(s)], f[Picked(s)], g[Picked(s)]} \subseteq Int
      BY <2>2, <1>1, <1>2, <3>1 DEF Sums, AddsUp
    <3>3. c[s] = h[Picked(s)] + c[Rest(s)]
      BY <3>1, <3>2
    <3> QED BY <2>2, <3>3, Zenon DEF AddsUp
  <2> QED BY <2>1, <2>2, Zenon
<1>4. Sums(h, c)
  BY <1>3, Zenon DEF Sums
<1>5. Total(h) = c[Outpoint] /\ Total(f) = a[Outpoint] /\ Total(g) = b[Outpoint]
  <2> HIDE DEF c
  <2> QED BY <1>1, <1>2, <1>4, TotalSums, Zenon
<1> QED BY <1>5, Zenon

\* A function that is zero but for one outpoint.
LEMMA TotalPoint ==
  ASSUME NEW f \in [Outpoint -> Int], NEW o \in Outpoint, \A x \in Outpoint \ {o} : f[x] = 0
  PROVE  Total(f) = f[o]
<1> DEFINE c == [s \in SUBSET Outpoint |-> IF o \in s THEN f[o] ELSE 0]
<1>1. ASSUME NEW s \in SUBSET Outpoint PROVE AddsUp(f, c, s)
  <2>1. CASE s = {}
    BY <2>1, Zenon DEF AddsUp
  <2>2. CASE s # {}
    <3>1. Picked(s) \in s /\ Rest(s) \in SUBSET Outpoint
      BY <2>2, RestSmaller, Zenon
    <3>2. CASE Picked(s) = o
      <4>1. o \in s /\ o \notin Rest(s)
        BY <3>1, <3>2, Zenon DEF Rest
      <4>2. c[s] = f[o] /\ c[Rest(s)] = 0
        BY <3>1, <4>1, Zenon
      <4> QED BY <2>2, <3>2, <4>2 DEF AddsUp
    <3>3. CASE Picked(s) # o
      <4>1. (o \in s <=> o \in Rest(s)) /\ f[Picked(s)] = 0
        BY <3>1, <3>3, Zenon DEF Rest
      <4>2. c[s] = c[Rest(s)] /\ c[s] \in Int
        BY <3>1, <4>1, Zenon
      <4> QED BY <2>2, <4>1, <4>2 DEF AddsUp
    <3> QED BY <3>2, <3>3, Zenon
  <2> QED BY <2>1, <2>2, Zenon
<1>2. Sums(f, c)
  BY <1>1, Zenon DEF Sums
<1>3. Total(f) = c[Outpoint]
  <2> HIDE DEF c
  <2> QED BY <1>2, TotalSums, Zenon
<1> QED BY <1>3, Zenon

\* The sums the model is built from are sums of functions.
LEMMA UsageOfTotal ==
  ASSUME NEW c, NEW f \in [Outpoint -> Int], \A o \in Outpoint : f[o] = EntryUsage(c[o])
  PROVE  UsageOf(c) = Total(f)
<1> DEFINE Eq(g) == g = [s \in SUBSET Outpoint |->
                           IF s = {} THEN 0 ELSE EntryUsage(c[Picked(s)]) + g[Rest(s)]]
<1>1. UsageOf(c) = (CHOOSE g : Eq(g))[Outpoint]
  BY Zenon DEF UsageOf, MapThenSumSet, MapThenFoldSet, Picked, Rest
<1>2. ASSUME NEW s \in SUBSET Outpoint, s # {} PROVE f[Picked(s)] = EntryUsage(c[Picked(s)])
  BY <1>2, RestSmaller, Zenon
<1>3. \E g : Eq(g)
  <2>1. PICK g \in [SUBSET Outpoint -> Int] : Sums(f, g)
    BY SumsExist, Zenon
  <2>2. \A s \in SUBSET Outpoint :
          g[s] = IF s = {} THEN 0 ELSE EntryUsage(c[Picked(s)]) + g[Rest(s)]
    BY <1>2, <2>1, Zenon DEF Sums, AddsUp
  <2>3. Eq(g)
    BY <2>1, <2>2, Zenon
  <2> QED BY <2>3, Zenon
<1>4. Eq(CHOOSE g : Eq(g))
  <2> HIDE DEF Eq
  <2> QED BY <1>3, Zenon
<1> DEFINE h == CHOOSE g : Eq(g)
<1>5. ASSUME NEW g, Eq(g) PROVE Sums(f, g)
  BY <1>2, <1>5, Zenon DEF Sums, AddsUp
<1>6. Sums(f, h)
  <2> HIDE DEF Eq
  <2> QED BY <1>4, <1>5, Zenon
<1>7. UsageOf(c) = h[Outpoint]
  BY <1>1, Zenon
<1> HIDE DEF h
<1> QED BY <1>6, <1>7, TotalSums, Zenon

LEMMA MergedUsageOfTotal ==
  ASSUME NEW c, NEW d, NEW f \in [Outpoint -> Int],
         \A o \in Outpoint : f[o] = MergedUsage(c[o], d[o])
  PROVE  MergedUsageOf(c, d) = Total(f)
<1> DEFINE Eq(g) == g = [s \in SUBSET Outpoint |->
              IF s = {} THEN 0 ELSE MergedUsage(c[Picked(s)], d[Picked(s)]) + g[Rest(s)]]
<1>1. MergedUsageOf(c, d) = (CHOOSE g : Eq(g))[Outpoint]
  BY Zenon DEF MergedUsageOf, MapThenSumSet, MapThenFoldSet, Picked, Rest
<1>2. ASSUME NEW s \in SUBSET Outpoint, s # {}
      PROVE  f[Picked(s)] = MergedUsage(c[Picked(s)], d[Picked(s)])
  BY <1>2, RestSmaller, Zenon
<1>3. \E g : Eq(g)
  <2>1. PICK g \in [SUBSET Outpoint -> Int] : Sums(f, g)
    BY SumsExist, Zenon
  <2>2. \A s \in SUBSET Outpoint :
          g[s] = IF s = {} THEN 0 ELSE MergedUsage(c[Picked(s)], d[Picked(s)]) + g[Rest(s)]
    BY <1>2, <2>1, Zenon DEF Sums, AddsUp
  <2>3. Eq(g)
    BY <2>1, <2>2, Zenon
  <2> QED BY <2>3, Zenon
<1>4. Eq(CHOOSE g : Eq(g))
  <2> HIDE DEF Eq
  <2> QED BY <1>3, Zenon
<1> DEFINE h == CHOOSE g : Eq(g)
<1>5. ASSUME NEW g, Eq(g) PROVE Sums(f, g)
  BY <1>2, <1>5, Zenon DEF Sums, AddsUp
<1>6. Sums(f, h)
  <2> HIDE DEF Eq
  <2> QED BY <1>4, <1>5, Zenon
<1>7. MergedUsageOf(c, d) = h[Outpoint]
  BY <1>1, Zenon
<1> HIDE DEF h
<1> QED BY <1>6, <1>7, TotalSums, Zenon
-----------------------------------------------------------------------------
(* The memory count.                                                       *)

LEMMA EntryUsageType ==
  ASSUME NEW e \in Entry \cup {Absent}
  PROVE  EntryUsage(e) \in Int
BY UsageAssumption, CoinsAssumption DEF EntryUsage, DynamicMemoryUsage, Entry, AnyCoin

\* A cache that changes in one entry.
LEMMA UsageChange ==
  ASSUME NEW c \in CacheMap, NEW d \in CacheMap, NEW o \in Outpoint,
         \A x \in Outpoint \ {o} : d[x] = c[x]
  PROVE  /\ UsageOf(d) = UsageOf(c) + EntryUsage(d[o]) - EntryUsage(c[o])
         /\ UsageOf(c) \in Int /\ EntryUsage(c[o]) \in Int /\ EntryUsage(d[o]) \in Int
<1> DEFINE f == [x \in Outpoint |-> EntryUsage(c[x])]
           h == [x \in Outpoint |-> EntryUsage(d[x])]
           p == [x \in Outpoint |-> IF x = o THEN EntryUsage(d[o]) - EntryUsage(c[o]) ELSE 0]
<1>1. \A x \in Outpoint : EntryUsage(c[x]) \in Int /\ EntryUsage(d[x]) \in Int
  BY EntryUsageType, Zenon DEF CacheMap
<1>2. f \in [Outpoint -> Int] /\ h \in [Outpoint -> Int] /\ p \in [Outpoint -> Int]
  BY <1>1
<1>3. /\ \A x \in Outpoint : h[x] = f[x] + p[x]
      /\ \A x \in Outpoint \ {o} : p[x] = 0
      /\ p[o] = EntryUsage(d[o]) - EntryUsage(c[o])
  BY <1>1
<1>4. UsageOf(c) = Total(f) /\ UsageOf(d) = Total(h)
  BY <1>2, UsageOfTotal, Zenon
<1> HIDE DEF f, h, p
<1>5. Total(h) = Total(f) + Total(p)
  BY <1>2, <1>3, TotalPlus, Zenon
<1>6. Total(p) = p[o]
  BY <1>2, <1>3, TotalPoint, Zenon
<1>7. Total(f) \in Int
  BY <1>2, SumsExist, TotalSums, Zenon
<1> QED BY <1>1, <1>3, <1>4, <1>5, <1>6, <1>7, Zenon

\* Caches whose entries have the same sizes, and the empty cache.
LEMMA UsageSame ==
  ASSUME NEW c \in CacheMap, NEW d \in CacheMap,
         \A x \in Outpoint : EntryUsage(d[x]) = EntryUsage(c[x])
  PROVE  UsageOf(d) = UsageOf(c)
<1> DEFINE f == [x \in Outpoint |-> EntryUsage(c[x])]
<1>1. f \in [Outpoint -> Int]
  BY EntryUsageType, Zenon DEF CacheMap
<1>2. UsageOf(c) = Total(f) /\ UsageOf(d) = Total(f)
  BY <1>1, UsageOfTotal, Zenon
<1> QED BY <1>2, Zenon

LEMMA UsageEmpty == UsageOf(EmptyCache) = 0
<1> DEFINE f == [x \in Outpoint |-> 0]
           g == [s \in SUBSET Outpoint |-> 0]
<1>1. f \in [Outpoint -> Int] /\ \A x \in Outpoint : f[x] = EntryUsage(EmptyCache[x])
  BY DEF EmptyCache, EntryUsage
<1>2. ASSUME NEW s \in SUBSET Outpoint PROVE AddsUp(f, g, s)
  <2>1. s # {} => f[Picked(s)] = 0 /\ g[Rest(s)] = 0
    BY RestSmaller, Zenon
  <2>2. g[s] = 0 /\ 0 + 0 = 0
    OBVIOUS
  <2> HIDE DEF f, g
  <2> QED BY <2>1, <2>2, Zenon DEF AddsUp
<1>3. Sums(f, g)
  BY <1>2, Zenon DEF Sums
<1>4. g[Outpoint] = 0
  BY Zenon
<1> HIDE DEF f, g
<1> QED BY <1>1, <1>3, <1>4, UsageOfTotal, TotalSums, Zenon

\* BatchWrite: what it adds entry by entry is the difference.
LEMMA UsageMerge ==
  ASSUME NEW c \in CacheMap, NEW p \in CacheMap, NEW m \in CacheMap,
         \A x \in Outpoint : m[x] = MergedEntry(c[x], p[x])
  PROVE  UsageOf(m) = UsageOf(p) + MergedUsageOf(c, p)
<1> DEFINE f == [x \in Outpoint |-> EntryUsage(p[x])]
           h == [x \in Outpoint |-> EntryUsage(m[x])]
           d == [x \in Outpoint |-> EntryUsage(m[x]) - EntryUsage(p[x])]
<1>1. \A x \in Outpoint : EntryUsage(p[x]) \in Int /\ EntryUsage(m[x]) \in Int
  BY EntryUsageType, Zenon DEF CacheMap
<1>2. f \in [Outpoint -> Int] /\ h \in [Outpoint -> Int] /\ d \in [Outpoint -> Int]
  BY <1>1
<1>3. \A x \in Outpoint : h[x] = f[x] + d[x]
  BY <1>1
<1>4. \A x \in Outpoint : d[x] = MergedUsage(c[x], p[x])
  <2> TAKE x \in Outpoint
  <2>1. CASE ~Dirty(c[x])
    <3>1. m[x] = p[x] /\ MergedUsage(c[x], p[x]) = 0
      BY <2>1, Zenon DEF MergedEntry, MergedUsage
    <3> QED BY <1>1, <3>1
  <2>2. CASE Dirty(c[x])
    BY <2>2, Zenon DEF MergedUsage
  <2> QED BY <2>1, <2>2, Zenon
<1>5. UsageOf(p) = Total(f) /\ UsageOf(m) = Total(h)
  BY <1>2, UsageOfTotal, Zenon
<1> HIDE DEF f, h, d
<1>6. Total(h) = Total(f) + Total(d)
  BY <1>2, <1>3, TotalPlus, Zenon
<1>7. MergedUsageOf(c, p) = Total(d)
  BY <1>2, <1>4, MergedUsageOfTotal
<1> QED BY <1>5, <1>6, <1>7, Zenon

\* FetchCoin adds at most the entry that was looked up, to caches without it.
LEMMA FetchedShape ==
  ASSUME IndInv, NEW l \in Layer, NEW o \in Outpoint, NEW f \in BOOLEAN, NEW k \in Layer
  PROVE  /\ Fetched(l, o, f)[k] \in CacheMap /\ cache[k] \in CacheMap
         /\ \A x \in Outpoint \ {o} : Fetched(l, o, f)[k][x] = cache[k][x]
         /\ cache[k][o] # Absent => Fetched(l, o, f)[k][o] = cache[k][o]
<1> DEFINE c == Fetched(l, o, f)
<1>1. cache \in [Layer -> CacheMap] /\ cache[k] \in CacheMap
  BY InvFacts, Zenon
<1>2. StackOK(c, dbCoins)
  BY FetchedLemma, Zenon
<1>3. c[k] \in CacheMap
  BY <1>2, Zenon DEF StackOK
<1>4. /\ \A x \in Outpoint \ {o} : c[k][x] = cache[k][x]
      /\ cache[k][o] # Absent => c[k][o] = cache[k][o]
  <2>1. CASE l = "tip"
    BY <1>1, <2>1, Zenon DEF Fetched, FetchedEntry, Layer, CacheMap
  <2>2. CASE l # "tip" /\ cache["view"][o] # Absent
    BY <1>1, <2>2, Zenon DEF Fetched, FetchedEntry, Layer, CacheMap
  <2>3. CASE l # "tip" /\ cache["view"][o] = Absent
    BY <1>1, <2>3, Zenon DEF Fetched, FetchedEntry, Layer, CacheMap
  <2> QED BY <2>1, <2>2, <2>3, Zenon
<1> QED BY <1>1, <1>3, <1>4, Zenon

\* The count after a fetch is that of the caches it leaves.
LEMMA FetchedUsageLemma ==
  ASSUME IndInv, UsageExact, NEW l \in Layer, NEW o \in Outpoint, NEW f \in BOOLEAN
  PROVE  /\ DOMAIN FetchedUsage(l, o, f) = Layer
         /\ \A k \in Layer : FetchedUsage(l, o, f)[k] = UsageOf(Fetched(l, o, f)[k])
<1>1. DOMAIN FetchedUsage(l, o, f) = Layer
  BY Zenon DEF FetchedUsage
<1>2. ASSUME NEW k \in Layer PROVE FetchedUsage(l, o, f)[k] = UsageOf(Fetched(l, o, f)[k])
  <2> DEFINE c == Fetched(l, o, f)[k]
  <2>1. /\ c \in CacheMap /\ cache[k] \in CacheMap
        /\ \A x \in Outpoint \ {o} : c[x] = cache[k][x]
        /\ cache[k][o] # Absent => c[o] = cache[k][o]
    BY FetchedShape, Zenon
  <2>2. FetchedUsage(l, o, f)[k] =
          IF cache[k][o] = Absent THEN usage[k] + EntryUsage(c[o]) ELSE usage[k]
    BY Zenon DEF FetchedUsage
  <2>3. usage[k] = UsageOf(cache[k])
    BY Zenon DEF UsageExact
  <2> HIDE DEF c
  <2>4. /\ UsageOf(c) = UsageOf(cache[k]) + EntryUsage(c[o]) - EntryUsage(cache[k][o])
        /\ UsageOf(cache[k]) \in Int /\ EntryUsage(cache[k][o]) \in Int /\ EntryUsage(c[o]) \in Int
    BY <2>1, UsageChange, Zenon
  <2>5. cache[k][o] = Absent => EntryUsage(cache[k][o]) = 0
    BY Zenon DEF EntryUsage
  <2>6. FetchedUsage(l, o, f)[k] = UsageOf(c)
    BY <2>1, <2>2, <2>3, <2>4, <2>5
  <2> QED BY <2>6, Zenon DEF c
<1> QED BY <1>1, <1>2, Zenon

\* A change of the entry at o in the cache of one layer, m otherwise.
LEMMA UsageEntry ==
  ASSUME NEW m \in [Layer -> CacheMap], NEW u, \A k \in Layer : u[k] = UsageOf(m[k]),
         NEW l \in Layer, NEW o \in Outpoint, NEW e \in Entry \cup {Absent},
         cache' = [m EXCEPT ![l][o] = e],
         usage'[l] = u[l] - EntryUsage(m[l][o]) + EntryUsage(e),
         \A k \in Layer \ {l} : usage'[k] = u[k]
  PROVE  UsageExact'
<1>1. /\ m[l] \in CacheMap /\ cache'[l] \in CacheMap /\ cache'[l][o] = e
      /\ \A x \in Outpoint \ {o} : cache'[l][x] = m[l][x]
      /\ \A k \in Layer \ {l} : cache'[k] = m[k]
  BY Zenon DEF CacheMap
<1>2. PICK c \in CacheMap, d \in CacheMap : c = m[l] /\ d = cache'[l]
  BY <1>1, Zenon
<1>3. \A x \in Outpoint \ {o} : d[x] = c[x]
  BY <1>1, <1>2, Zenon
<1>4. /\ UsageOf(d) = UsageOf(c) + EntryUsage(d[o]) - EntryUsage(c[o])
      /\ UsageOf(c) \in Int /\ EntryUsage(c[o]) \in Int /\ EntryUsage(d[o]) \in Int
  BY <1>3, UsageChange, Zenon
<1>5. /\ UsageOf(cache'[l]) = UsageOf(m[l]) + EntryUsage(cache'[l][o]) - EntryUsage(m[l][o])
      /\ UsageOf(m[l]) \in Int /\ EntryUsage(m[l][o]) \in Int /\ EntryUsage(cache'[l][o]) \in Int
  BY <1>2, <1>4, Zenon
<1>6. usage'[l] = UsageOf(cache'[l])
  BY <1>1, <1>5
<1>7. \A k \in Layer : usage'[k] = UsageOf(cache'[k])
  BY <1>1, <1>6, Zenon
<1> QED BY <1>7, Zenon DEF UsageExact

LEMMA UsageStep ==
  ASSUME IndInv, UsageExact, [Next]_vars
  PROVE  UsageExact'
<1>0. /\ cache \in [Layer -> CacheMap] /\ DOMAIN usage = Layer
      /\ \A k \in Layer : usage[k] = UsageOf(cache[k]) /\ cache[k] \in CacheMap
      /\ Top \in Layer
      /\ \A k \in Layer, o \in Outpoint : cache[k][o] \in Entry \cup {Absent}
  BY InvFacts DEF IndInv, TypeOK, UsageExact, CacheMap
<1>m. PICK m, u :
        m \in [Layer -> CacheMap] /\ cache = m /\ usage = u /\ \A k \in Layer : u[k] = UsageOf(m[k])
  BY <1>0, Zenon DEF UsageExact
<1>1. ASSUME NEW l \in Layer, NEW o \in Outpoint, NEW f \in BOOLEAN, GetCoin(l, o, f)
      PROVE  UsageExact'
  BY <1>1, FetchedUsageLemma, Zenon DEF GetCoin, UsageExact
<1>2. ASSUME NEW o \in Outpoint, NEW c \in Coin, NEW p \in BOOLEAN, AddCoin(o, c, p)
      PROVE  UsageExact'
  <2> DEFINE e == AddedEntry(cache[Top][o], c, p)
  <2>1. e \in Entry \cup {Absent} /\ EntryUsage(e) = Mem[c]
    BY CoinsAssumption
       DEF AddedEntry, Entry, AnyCoin, Flag, FreshIf, EntryUsage, DynamicMemoryUsage
  <2>2. /\ cache' = [cache EXCEPT ![Top][o] = e]
        /\ usage'[Top] = usage[Top] - EntryUsage(cache[Top][o]) + EntryUsage(e)
        /\ \A k \in Layer \ {Top} : usage'[k] = usage[k]
    BY <1>0, <1>2, <2>1, Zenon DEF AddCoin
  <2>3. /\ cache' = [m EXCEPT ![Top][o] = e] /\ Top \in Layer
        /\ usage'[Top] = u[Top] - EntryUsage(m[Top][o]) + EntryUsage(e)
        /\ \A k \in Layer \ {Top} : usage'[k] = u[k]
    BY <1>0, <1>m, <2>2, Zenon
  <2> HIDE DEF e
  <2> QED BY <1>m, <2>1, <2>3, UsageEntry, Zenon
<1>3. ASSUME NEW o \in Outpoint, NEW c \in Coin, EmplaceCoin(o, c)
      PROVE  UsageExact'
  <2> DEFINE e == [coin |-> c, flags |-> {"DIRTY"}]
  <2>1. e \in Entry \cup {Absent} /\ EntryUsage(e) = Mem[c] /\ "tip" \in Layer
    BY CoinsAssumption DEF Entry, AnyCoin, Flag, EntryUsage, DynamicMemoryUsage, Layer
  <2>2. cache["tip"][o] = Absent /\ EntryUsage(cache["tip"][o]) = 0
    BY <1>3, Zenon DEF EmplaceCoin, EntryUsage
  <2>3. cache' = [cache EXCEPT !["tip"][o] = e]
    BY <1>3, Zenon DEF EmplaceCoin
  <2>4. /\ usage'["tip"] = usage["tip"] + EntryUsage(e)
        /\ \A k \in Layer \ {"tip"} : usage'[k] = usage[k]
    BY <1>0, <1>3, <2>1, Zenon DEF EmplaceCoin
  <2>5. usage["tip"] \in Int /\ EntryUsage(e) \in Int
    BY <1>0, <2>1, UsageChange, EntryUsageType, Zenon
  <2>6. usage'["tip"] = usage["tip"] - EntryUsage(cache["tip"][o]) + EntryUsage(e)
    BY <2>2, <2>4, <2>5
  <2>7. /\ cache' = [m EXCEPT !["tip"][o] = e] /\ "tip" \in Layer
        /\ usage'["tip"] = u["tip"] - EntryUsage(m["tip"][o]) + EntryUsage(e)
        /\ \A k \in Layer \ {"tip"} : usage'[k] = u[k]
    BY <1>m, <2>1, <2>3, <2>4, <2>6, Zenon
  <2> HIDE DEF e
  <2> QED BY <1>m, <2>1, <2>7, UsageEntry, Zenon
<1>4. ASSUME NEW o \in Outpoint, NEW f \in BOOLEAN, SpendCoin(o, f)
      PROVE  UsageExact'
  <2> DEFINE n == Fetched(Top, o, f)
             v == FetchedUsage(Top, o, f)
             e == SpentEntry(n[Top][o])
  <2>1. n \in [Layer -> CacheMap]
    BY <1>0, FetchedLemma, Zenon DEF StackOK
  <2>2. DOMAIN v = Layer /\ \A k \in Layer : v[k] = UsageOf(n[k])
    BY <1>0, FetchedUsageLemma, Zenon
  <2>3. n[Top][o] \in Entry \cup {Absent}
    BY <1>0, <2>1, Zenon DEF CacheMap
  <2>4. e \in Entry \cup {Absent} /\ EntryUsage(e) = 0
    <3> HIDE DEF n
    <3> QED BY <2>3, CoinsAssumption, Zenon
            DEF SpentEntry, Entry, AnyCoin, Flag, EntryUsage, DynamicMemoryUsage
  <2>5. cache' = [n EXCEPT ![Top][o] = e] /\ usage' = [v EXCEPT ![Top] = @ - EntryUsage(n[Top][o])]
    BY <1>4, Zenon DEF SpendCoin
  <2> HIDE DEF n, v, e
  <2>6. v[Top] \in Int /\ EntryUsage(n[Top][o]) \in Int
    BY <1>0, <2>1, <2>2, <2>3, UsageChange, EntryUsageType, Zenon
  <2>7. /\ usage'[Top] = v[Top] - EntryUsage(n[Top][o]) + EntryUsage(e)
        /\ \A k \in Layer \ {Top} : usage'[k] = v[k]
    BY <1>0, <2>2, <2>4, <2>5, <2>6
  <2> QED BY <1>0, <2>1, <2>2, <2>4, <2>5, <2>7, UsageEntry, Zenon
<1>5. IndInv' /\ cache' \in [Layer -> CacheMap] /\ \A k \in Layer : cache'[k] \in CacheMap
  BY NextLemma, Zenon DEF IndInv, TypeOK
<1>6. ASSUME NEW e \in Entry \cup {Absent}
      PROVE  SyncedEntry(e) \in Entry \cup {Absent} /\ EntryUsage(SyncedEntry(e)) = EntryUsage(e)
  BY CoinsAssumption DEF SyncedEntry, Entry, EntryUsage, DynamicMemoryUsage
<1>7. ASSUME NEW l \in Layer, NEW s \in BOOLEAN, cache'[l] = KeptEntries(l, s)
      PROVE  UsageOf(cache'[l]) = IF s THEN UsageOf(cache[l]) ELSE 0
  <2>1. CASE s
    <3>1. \A x \in Outpoint : cache'[l][x] = SyncedEntry(cache[l][x])
      BY <1>7, <2>1, Zenon DEF KeptEntries
    <3>2. \A x \in Outpoint : EntryUsage(cache'[l][x]) = EntryUsage(cache[l][x])
      BY <1>0, <1>6, <3>1, Zenon
    <3> QED BY <1>0, <1>5, <2>1, <3>2, UsageSame, Zenon
  <2>2. CASE ~s
    <3>1. cache'[l] = EmptyCache
      BY <1>7, <2>2, Zenon DEF KeptEntries, EmptyCache
    <3> QED BY <2>2, <3>1, UsageEmpty, Zenon
  <2> QED BY <2>1, <2>2, Zenon
<1>8. ASSUME NEW s \in BOOLEAN, WriteViewToTip(s)
      PROVE  UsageExact'
  <2>1. cache'["view"] = KeptEntries("view", s)
    BY <1>0, <1>8, Zenon DEF WriteViewToTip, Layer
  <2>2. \A x \in Outpoint : cache'["tip"][x] = MergedEntry(cache["view"][x], cache["tip"][x])
    BY <1>0, <1>8, Zenon DEF WriteViewToTip, Layer
  <2>3. /\ usage'["tip"] = usage["tip"] + MergedUsageOf(cache["view"], cache["tip"])
        /\ usage'["view"] = IF s THEN usage["view"] ELSE 0
    BY <1>0, <1>8, Zenon DEF WriteViewToTip, Layer
  <2>4. "view" \in Layer /\ "tip" \in Layer
    BY Zenon DEF Layer
  <2>5. UsageOf(cache'["tip"]) = UsageOf(cache["tip"]) + MergedUsageOf(cache["view"], cache["tip"])
    BY <1>0, <1>5, <2>2, <2>4, UsageMerge, Zenon
  <2>6. UsageOf(cache'["view"]) = IF s THEN UsageOf(cache["view"]) ELSE 0
    BY <1>7, <2>1, <2>4, Zenon
  <2>7. usage'["tip"] = UsageOf(cache'["tip"]) /\ usage'["view"] = UsageOf(cache'["view"])
    BY <1>0, <2>3, <2>4, <2>5, <2>6, Zenon
  <2> QED BY <2>7, Zenon DEF UsageExact, Layer
<1>9. ASSUME NEW s \in BOOLEAN, WriteTipToDB(s)
      PROVE  UsageExact'
  <2>1. cache'["tip"] = KeptEntries("tip", s) /\ cache'["view"] = cache["view"]
    BY <1>0, <1>9, Zenon DEF WriteTipToDB, Layer
  <2>2. usage'["tip"] = (IF s THEN usage["tip"] ELSE 0) /\ usage'["view"] = usage["view"]
    BY <1>0, <1>9, Zenon DEF WriteTipToDB, Layer
  <2>3. UsageOf(cache'["tip"]) = IF s THEN UsageOf(cache["tip"]) ELSE 0
    BY <1>7, <2>1, Zenon DEF Layer
  <2> QED BY <1>0, <2>1, <2>2, <2>3, Zenon DEF UsageExact, Layer
<1>10. ASSUME NEW l \in Layer, NEW o \in Outpoint, Uncache(l, o)
       PROVE  UsageExact'
  <2>1. /\ Absent \in Entry \cup {Absent} /\ EntryUsage(Absent) = 0
        /\ usage[l] \in Int /\ EntryUsage(cache[l][o]) \in Int
    BY <1>0, UsageChange, EntryUsageType DEF EntryUsage
  <2>2. /\ usage'[l] = usage[l] - EntryUsage(cache[l][o]) + EntryUsage(Absent)
        /\ \A k \in Layer \ {l} : usage'[k] = usage[k]
    BY <1>0, <1>10, <2>1 DEF Uncache
  <2>3. cache' = [cache EXCEPT ![l][o] = Absent]
    BY <1>10, Zenon DEF Uncache
  <2>4. /\ cache' = [m EXCEPT ![l][o] = Absent]
        /\ usage'[l] = u[l] - EntryUsage(m[l][o]) + EntryUsage(Absent)
        /\ \A k \in Layer \ {l} : usage'[k] = u[k]
    BY <1>m, <2>2, <2>3, Zenon
  <2> QED BY <1>m, <2>1, <2>4, UsageEntry, Zenon
<1>11. CASE CloseView
  <2>1. cache'["view"] = EmptyCache /\ cache'["tip"] = cache["tip"]
    BY <1>0, <1>11, Zenon DEF CloseView, Layer
  <2>2. usage'["view"] = 0 /\ usage'["tip"] = usage["tip"]
    BY <1>0, <1>11, Zenon DEF CloseView, Layer
  <2> QED BY <1>0, <2>1, <2>2, UsageEmpty, Zenon DEF UsageExact, Layer
<1>12. CASE OpenView \/ UNCHANGED vars \/ (\E b \in Block : SetBestBlock(b))
              \/ (\E l \in Layer : GetBestBlock(l))
  <2>1. cache' = cache /\ usage' = usage
    BY <1>12, Zenon DEF OpenView, SetBestBlock, GetBestBlock, vars
  <2> QED BY <2>1, Zenon DEF UsageExact
<1> QED
  BY <1>1, <1>2, <1>3, <1>4, <1>8, <1>9, <1>10, <1>11, <1>12, Zenon DEF Next

\* cachedCoinsUsage of every cache is the size of its entries after every call,
\* for any finite set of outpoints: whatever was fetched, overwritten, spent,
\* merged into the parent, kept by Sync or uncached is counted exactly once.
THEOREM UsageCorrect == Spec => []UsageExact
<1>1. Init => UsageExact
  BY UsageEmpty, Zenon DEF Init, UsageExact, Layer
<1> QED
  BY <1>1, Consistent, UsageStep, PTL DEF Spec
=============================================================================
