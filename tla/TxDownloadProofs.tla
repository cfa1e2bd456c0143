-------------------------- MODULE TxDownloadProofs --------------------------
(***************************************************************************)
(* Proofs about TxDownload and TxOrphanage, for any peers, transactions    *)
(* and blocks.                                                             *)
(*                                                                         *)
(* The inductive invariant has, besides the properties, Unheard: what the  *)
(* tracker follows is neither an orphan nor rejected, and the node has it  *)
(* only by ways it is not told of at once.  BlockConnected adds to the     *)
(* filter before the tracker forgets; Unheard says that in between the     *)
(* transactions concerned are those of the block being delivered (Staged). *)
(*                                                                         *)
(* The loops over orphans and parents are recursive functions on an        *)
(* interval; IndexRecursion gives their values step by step.               *)
(***************************************************************************)
EXTENDS TxDownload, WellFoundedInduction, TLAPS

-----------------------------------------------------------------------------
\* Induction and recursion along an interval of numbers.

Less == {p \in Nat \X Nat : p[1] < p[2]}

\* A set of natural numbers with a member has a least one.
LEMMA LeastNumber ==
  ASSUME NEW T \in SUBSET Nat, T # {}
  PROVE  \E x \in T : \A y \in T : x <= y
<1>1. OpToRel(<, Nat) = Less
  BY DEF OpToRel, Less
<1>2. IsWellFoundedOn(Less, Nat)
  BY <1>1, NatLessThanWellFounded, Zenon
<1>3. PICK x \in T : \A y \in T : ~(<<y, x>> \in Less)
  BY <1>2, WFMin, Zenon
<1>4. ASSUME NEW y \in T PROVE x <= y
  <2>1. x \in Nat /\ y \in Nat /\ <<y, x>> \in Nat \X Nat
    OBVIOUS
  <2>2. ~(y < x)
    BY <1>3, <2>1 DEF Less
  <2> QED BY <2>1, <2>2
<1> QED BY <1>4

\* Induction up to n, for a set of numbers.
LEMMA UpTo ==
  ASSUME NEW n \in Nat, NEW T \in SUBSET (0..n), 0 \in T,
         \A i \in 1..n : i - 1 \in T => i \in T
  PROVE  T = 0..n
<1> DEFINE U == (0..n) \ T
<1> SUFFICES ASSUME U # {} PROVE FALSE
  BY Zenon
<1>1. U \in SUBSET Nat
  OBVIOUS
<1>2. PICK m \in U : \A k \in U : m <= k
  <2> HIDE DEF U
  <2> QED BY <1>1, LeastNumber, Zenon
<1>3. m \in 1..n /\ m - 1 \in 0..n
  BY <1>2
<1>4. m - 1 \in T
  BY <1>2, <1>3
<1> QED BY <1>2, <1>3, <1>4

\* f is x at 0, and F makes its value at a number of the one before.
Iterates(f, n, S, x, F) ==
  /\ f \in [0..n -> S]
  /\ f[0] = x
  /\ \A i \in 1..n : f[i] = F[i][f[i - 1]]

LEMMA IndexRecursion ==
  ASSUME NEW n \in Nat, NEW S, NEW x \in S, NEW F \in [1..n -> [S -> S]]
  PROVE  \E f : Iterates(f, n, S, x, F)
<1> DEFINE T == {k \in 0..n : \E f : Iterates(f, k, S, x, F)}
<1>1. 0 \in T
  <2>1. Iterates([i \in 0..0 |-> x], 0, S, x, F)
    BY DEF Iterates
  <2> QED BY <2>1
<1>2. ASSUME NEW k \in 1..n, k - 1 \in T PROVE k \in T
  <2>1. PICK f : Iterates(f, k - 1, S, x, F)
    BY <1>2
  <2> DEFINE g == [i \in 0..k |-> IF i = k THEN F[k][f[k - 1]] ELSE f[i]]
  <2>2. f[k - 1] \in S /\ F[k] \in [S -> S]
    BY <2>1 DEF Iterates
  <2>3. F[k][f[k - 1]] \in S
    BY <2>2
  <2>4. g \in [0..k -> S]
    BY <2>1, <2>3 DEF Iterates
  <2>5. g[0] = x
    BY <2>1 DEF Iterates
  <2>6. ASSUME NEW i \in 1..k PROVE g[i] = F[i][g[i - 1]]
    <3>1. i - 1 \in 0..k /\ i - 1 # k /\ g[i - 1] = f[i - 1]
      OBVIOUS
    <3>2. CASE i = k
      BY <3>1, <3>2
    <3>3. CASE i # k
      <4>1. i \in 1..(k - 1)
        BY <3>3
      <4> QED BY <3>1, <3>3, <4>1, <2>1 DEF Iterates
    <3> QED BY <3>2, <3>3
  <2>7. Iterates(g, k, S, x, F)
    <3> HIDE DEF g
    <3> QED BY <2>4, <2>5, <2>6 DEF Iterates
  <2> QED BY <2>7
<1>3. T = 0..n
  <2> HIDE DEF T
  <2>1. T \in SUBSET (0..n)
    BY DEF T
  <2> QED BY <1>1, <1>2, <2>1, UpTo, Zenon
<1>4. n \in T
  <2> HIDE DEF T
  <2> QED BY <1>3
<1> QED BY <1>4
-----------------------------------------------------------------------------
\* The orphanage.

Good(o) == o \in Orphanages /\ IndexesAgree(o)

\* o1 is o without the orphans of xs.
Reduced(o, o1, xs) ==
  /\ Good(o1)
  /\ Orphans(o1) = Orphans(o) \ xs
  /\ o1.work = o.work
  /\ \A x \in Tx : o1.peer[x] = IF x \in xs THEN 0 ELSE o.peer[x]
  /\ Len(o1.list) <= Len(o.list)

LEMMA ListLength == ASSUME NEW o, Good(o) PROVE o.list \in Seq(Tx) /\ Len(o.list) \in Nat
BY DEF Good, Orphanages

LEMMA EraseOne ==
  ASSUME NEW o, Good(o), NEW x \in Tx
  PROVE  /\ Reduced(o, EraseTx(o, x), {x})
         /\ x \in Orphans(o) => Len(EraseTx(o, x).list) = Len(o.list) - 1
         /\ x \notin Orphans(o) => EraseTx(o, x) = o
<1>1. /\ o.peer \in [Tx -> Peer \cup {0}] /\ o.pos \in [Tx -> Nat] /\ o.list \in Seq(Tx)
      /\ o.wtxids \in SUBSET Tx /\ o.spenders \in [Outpoint -> SUBSET Tx]
      /\ o.work \in [Peer -> SUBSET Tx]
  BY DEF Good, Orphanages
<1>2. /\ \A y \in Orphans(o) : o.pos[y] \in DOMAIN o.list /\ o.list[o.pos[y]] = y
      /\ \A i \in DOMAIN o.list : o.pos[o.list[i]] = i
      /\ o.wtxids = Orphans(o)
      /\ \A i \in Outpoint : o.spenders[i] = {y \in Orphans(o) : i \in Inputs[y]}
      /\ \A y \in Tx : o.peer[y] # 0 <=> y \in Orphans(o)
  BY DEF Good, IndexesAgree, Orphans
<1>3. CASE x \notin Orphans(o)
  <2>1. EraseTx(o, x) = o
    BY <1>3 DEF EraseTx, Orphans
  <2> QED BY <1>1, <1>2, <1>3, <2>1 DEF Reduced
<1>4. CASE x \in Orphans(o)
  <2> DEFINE old == o.pos[x]
             n == Len(o.list)
             last == o.list[n]
             e == EraseTx(o, x)
             pos == [o.pos EXCEPT ![last] = old, ![x] = 0]
             list == SubSeq([o.list EXCEPT ![old] = last], 1, n - 1)
             spenders == [i \in Outpoint |-> IF i \in Inputs[x] THEN o.spenders[i] \ {x}
                                             ELSE o.spenders[i]]
  <2>1. e = [o EXCEPT !.peer[x] = 0, !.pos = pos, !.list = list, !.wtxids = @ \ {x},
                      !.spenders = spenders]
    BY <1>4 DEF EraseTx, Orphans
  <2>2. /\ e.peer = [o.peer EXCEPT ![x] = 0] /\ e.pos = pos /\ e.list = list
        /\ e.wtxids = o.wtxids \ {x} /\ e.spenders = spenders /\ e.work = o.work
    <3> HIDE DEF e, pos, list, spenders
    <3> QED BY <2>1 DEF Good, Orphanages
  <2>3. old \in 1..n /\ n \in Nat /\ n \in 1..n /\ o.list[old] = x /\ last \in Tx
    BY <1>1, <1>2, <1>4
  <2>4. list \in Seq(Tx) /\ Len(list) = n - 1 /\ DOMAIN list = 1..(n - 1)
        /\ \A i \in 1..(n - 1) : list[i] = IF i = old THEN last ELSE o.list[i]
    <3>1. PICK l : l = [o.list EXCEPT ![old] = last]
      OBVIOUS
    <3>2. l \in Seq(Tx) /\ Len(l) = n /\ \A i \in 1..n : l[i] = IF i = old THEN last ELSE o.list[i]
      BY <1>1, <2>3, <3>1
    <3>3. list = SubSeq(l, 1, n - 1)
      BY <3>1
    <3> HIDE DEF list
    <3> QED BY <2>3, <3>2, <3>3
  <2>5. pos \in [Tx -> Nat]
        /\ \A y \in Tx : pos[y] = IF y = x THEN 0 ELSE IF y = last THEN old ELSE o.pos[y]
    BY <1>1, <2>3
  <2>6. ASSUME NEW y \in Tx PROVE pos[y] # 0 <=> y \in Orphans(o) \ {x}
    <3>1. o.pos[last] = n /\ last \in Orphans(o)
      BY <1>2, <2>3 DEF Orphans, IsOrphan
    <3>2. o.pos[y] # 0 <=> y \in Orphans(o)
      BY DEF Orphans, IsOrphan
    <3> HIDE DEF pos, last
    <3> QED BY <2>3, <2>5, <3>1, <3>2
  <2> HIDE DEF e, pos, list, spenders
  <2>7. Orphans(e) = Orphans(o) \ {x}
    BY <2>2, <2>6 DEF Orphans, IsOrphan
  <2>8. \A y \in Tx : e.peer[y] = IF y = x THEN 0 ELSE o.peer[y]
    BY <1>1, <2>2
  <2>9. e \in Orphanages
    <3>1. e.peer \in [Tx -> Peer \cup {0}] /\ e.wtxids \in SUBSET Tx
          /\ e.spenders \in [Outpoint -> SUBSET Tx]
      BY <1>1, <2>2 DEF spenders
    <3>2. e = [peer |-> e.peer, pos |-> e.pos, list |-> e.list, wtxids |-> e.wtxids,
               spenders |-> e.spenders, work |-> e.work]
      BY <2>1 DEF Good, Orphanages
    <3> QED BY <1>1, <2>2, <2>4, <2>5, <3>1, <3>2 DEF Orphanages
  <2>10. \A y \in Orphans(e) : e.pos[y] \in DOMAIN e.list /\ e.list[e.pos[y]] = y
    <3> SUFFICES ASSUME NEW y \in Orphans(o), y # x
                 PROVE  pos[y] \in 1..(n - 1) /\ list[pos[y]] = y
      BY <2>2, <2>4, <2>7
    <3>1. y \in Tx /\ o.pos[y] \in 1..n /\ o.list[o.pos[y]] = y /\ o.pos[last] = n
      BY <1>1, <1>2, <2>3 DEF Orphans
    <3>2. o.pos[x] = old
      OBVIOUS
    <3> HIDE DEF old, last, n
    <3>3. CASE y = last
      BY <2>3, <2>4, <2>5, <3>1, <3>2, <3>3
    <3>4. CASE y # last
      <4>1. o.pos[y] # old /\ o.pos[y] # n
        BY <2>3, <3>1, <3>2, <3>4 DEF last
      <4> QED BY <2>3, <2>4, <2>5, <3>1, <3>2, <3>4, <4>1
    <3> QED BY <3>3, <3>4
  <2>11. \A i \in DOMAIN e.list : e.pos[e.list[i]] = i
    <3> SUFFICES ASSUME NEW i \in 1..(n - 1) PROVE pos[list[i]] = i
      BY <2>2, <2>4
    <3>1. i \in DOMAIN o.list /\ n \in DOMAIN o.list /\ o.pos[last] = n /\ o.pos[o.list[i]] = i
          /\ o.list[i] \in Tx
      BY <1>1, <1>2, <2>3
    <3>2. o.pos[x] = old
      OBVIOUS
    <3> HIDE DEF old, last, n
    <3>3. CASE i = old
      BY <2>3, <2>4, <2>5, <3>1, <3>2, <3>3
    <3>4. CASE i # old
      BY <2>3, <2>4, <2>5, <3>1, <3>2, <3>4
    <3> QED BY <3>3, <3>4
  <2>12. \A i \in Outpoint : e.spenders[i] = {y \in Orphans(e) : i \in Inputs[y]}
    BY <1>1, <1>2, <2>2, <2>7 DEF spenders
  <2>13. \A y \in Tx : e.peer[y] # 0 <=> IsOrphan(e, y)
    <3>1. \A y \in Tx : IsOrphan(e, y) <=> y \in Orphans(e)
      BY DEF Orphans
    <3> QED BY <1>2, <2>7, <2>8, <3>1
  <2>14. IndexesAgree(e)
    BY <1>2, <2>2, <2>7, <2>10, <2>11, <2>12, <2>13 DEF IndexesAgree
  <2> QED
    BY <1>1, <1>4, <2>2, <2>4, <2>7, <2>8, <2>9, <2>14 DEF Reduced, Good, e
<1> QED BY <1>3, <1>4

LEMMA ReducedTwice ==
  ASSUME NEW o, Good(o), NEW q, NEW r, NEW xs, NEW ys, Reduced(o, q, xs), Reduced(q, r, ys)
  PROVE  Reduced(o, r, xs \cup ys)
<1>1. Len(o.list) \in Nat /\ Len(q.list) \in Nat /\ Len(r.list) \in Nat
  BY ListLength, Zenon DEF Reduced
<1> QED BY <1>1 DEF Reduced

Before(s, i, xs) == {x \in xs : \E j \in 1..i : s[j] = x}

\* a records the orphanages that EraseEach goes through.
Erasing(a, o, s, xs) ==
  /\ a[0] = o
  /\ \A i \in 1..Len(s) :
       a[i] = IF s[i] \in xs THEN EraseTx(a[i - 1], s[i]) ELSE a[i - 1]
  /\ EraseEach(o, s, xs) = a[Len(s)]

\* The recursive definition in EraseEach has a solution.
LEMMA EraseEachRec ==
  ASSUME NEW o, Good(o), NEW s \in Seq(Outpoint), NEW xs \in SUBSET Tx
  PROVE  \E a : Erasing(a, o, s, xs)
<1> DEFINE n == Len(s)
           S == {q \in Orphanages : Good(q)}
           Step(q, i) == IF s[i] \in xs THEN EraseTx(q, s[i]) ELSE q
           E(g) == [i \in 0..n |->
                      IF i = 0 THEN o
                      ELSE IF s[i] \in xs THEN EraseTx(g[i - 1], s[i]) ELSE g[i - 1]]
           F == [i \in 1..n |-> [q \in S |-> Step(q, i)]]
<1>1. n \in Nat /\ o \in S
  BY DEF Good
<1>2. F \in [1..n -> [S -> S]]
  <2>1. ASSUME NEW i \in 1..n, NEW q \in S PROVE Step(q, i) \in S
    <3>1. CASE s[i] \in xs
      <4>1. s[i] \in Tx /\ Good(q)
        BY <3>1
      <4>2. Good(EraseTx(q, s[i]))
        BY <4>1, EraseOne, Zenon DEF Reduced
      <4> QED BY <3>1, <4>2 DEF Good
    <3> QED BY <3>1
  <2> HIDE DEF S, Step, n
  <2> QED BY <2>1, Zenon
<1>3. \A i \in 1..n : \A q \in S : F[i][q] = Step(q, i)
  BY Zenon
<1> HIDE DEF n, F, S
<1>4. PICK f : Iterates(f, n, S, o, F)
  BY <1>1, <1>2, IndexRecursion, Zenon
<1>5. \A i \in 0..n : i # 0 => i \in 1..n
  BY <1>1
<1>6. \A i \in 1..n : i - 1 \in 0..n /\ i \in 0..n /\ i # 0
  BY <1>1
<1>7. f = E(f)
  <2>1. \A i \in 0..n : f[i] = E(f)[i]
    BY <1>3, <1>4, <1>5, <1>6, Zenon DEF Iterates
  <2> QED BY <1>4, <2>1, Zenon DEF Iterates
<1>8. \E g : g = E(g)
  <2> HIDE DEF E
  <2> QED BY <1>7, Zenon
<1>9. PICK a : a = CHOOSE g : g = E(g)
  OBVIOUS
<1>10. a = E(a)
  <2> HIDE DEF E
  <2> QED BY <1>8, <1>9, Zenon
<1>11. 0 \in 0..n
  BY <1>1
<1>12. a[0] = o
  BY <1>10, <1>11, Zenon
<1>13. \A i \in 1..n : a[i] = IF s[i] \in xs THEN EraseTx(a[i - 1], s[i]) ELSE a[i - 1]
  BY <1>10, <1>6, Zenon
<1>14. EraseEach(o, s, xs) = a[n]
  BY <1>9, Zenon DEF EraseEach, n
<1> QED BY <1>12, <1>13, <1>14, Zenon DEF Erasing, n

\* What has been erased after i entries.
LEMMA EraseEachReduces ==
  ASSUME NEW o, Good(o), NEW s \in Seq(Outpoint), NEW xs \in SUBSET Tx,
         NEW a, Erasing(a, o, s, xs)
  PROVE  \A i \in 0..Len(s) : Reduced(o, a[i], Before(s, i, xs))
<1> DEFINE n == Len(s)
           T == {i \in 0..n : Reduced(o, a[i], Before(s, i, xs))}
<1>1. n \in Nat
  OBVIOUS
<1>2. 0 \in T
  <2>1. Before(s, 0, xs) = {}
    BY DEF Before
  <2>2. Reduced(o, o, {})
    BY ListLength DEF Reduced
  <2>3. Reduced(o, a[0], Before(s, 0, xs))
    BY <2>1, <2>2, Zenon DEF Erasing
  <2> QED BY <2>3
<1>3. ASSUME NEW i \in 1..n, i - 1 \in T PROVE i \in T
  <2>1. PICK q : q = a[i - 1]
    OBVIOUS
  <2>2. Reduced(o, q, Before(s, i - 1, xs)) /\ Good(q)
    BY <1>3, <2>1 DEF Reduced
  <2>3. a[i] = IF s[i] \in xs THEN EraseTx(q, s[i]) ELSE q
    BY <2>1 DEF Erasing
  <2>4. CASE s[i] \in xs
    <3>1. Reduced(q, a[i], {s[i]})
      BY <2>2, <2>3, <2>4, EraseOne
    <3>2. Before(s, i, xs) = Before(s, i - 1, xs) \cup {s[i]}
      BY <2>4 DEF Before
    <3> QED BY <2>2, <3>1, <3>2, ReducedTwice
  <2>5. CASE s[i] \notin xs
    <3>1. Before(s, i, xs) = Before(s, i - 1, xs)
      BY <2>5 DEF Before
    <3> QED BY <2>2, <2>3, <2>5, <3>1
  <2> QED BY <2>4, <2>5
<1>4. T = 0..n
  <2> HIDE DEF T
  <2>1. T \in SUBSET (0..n)
    BY DEF T
  <2> QED BY <1>1, <1>2, <1>3, <2>1, UpTo, Zenon
<1> QED BY <1>4

LEMMA EraseAllReduces ==
  ASSUME NEW o, Good(o), NEW xs \in SUBSET Tx
  PROVE  Reduced(o, EraseAll(o, xs), xs)
<1>1. Txids \in Seq(Outpoint) /\ Len(Txids) \in Nat
  BY OrphanageAssumption DEF Outpoint
<1>2. PICK a : Erasing(a, o, Txids, xs)
  BY <1>1, EraseEachRec, Zenon
<1>3. Reduced(o, a[Len(Txids)], Before(Txids, Len(Txids), xs))
  BY <1>1, <1>2, EraseEachReduces
<1>4. Before(Txids, Len(Txids), xs) = xs
  <2>1. \A x \in xs : \E j \in 1..Len(Txids) : Txids[j] = x
    BY <1>1, OrphanageAssumption
  <2> QED BY <2>1 DEF Before
<1> QED BY <1>2, <1>3, <1>4 DEF EraseAll, Erasing

\* LimitOrphans leaves at most MaxOrphans of the orphans.
LEMMA Limited ==
  ASSUME NEW o, Good(o), NEW expired \in SUBSET Tx, NEW o1 \in LimitOrphans(o, expired)
  PROVE  /\ \E xs \in SUBSET Tx : Reduced(o, o1, xs)
         /\ Len(o1.list) <= MaxOrphans
<1>1. PICK q : q = EraseAll(o, expired)
  OBVIOUS
<1>2. Reduced(o, q, expired) /\ Good(q)
  BY <1>1, EraseAllReduces DEF Reduced
<1>3. PICK v \in Victims(q) : o1 = EraseEach(q, v, Tx)
  BY <1>1 DEF LimitOrphans
<1> DEFINE m == Len(q.list)
           n == IF m > MaxOrphans THEN m - MaxOrphans ELSE 0
<1>4. q.list \in Seq(Tx) /\ m \in Nat /\ MaxOrphans \in Nat /\ n \in Nat
  BY <1>2, OrphanageAssumption DEF Good, Orphanages
<1>5. v \in [1..n -> Orphans(q)] /\ \A i, j \in 1..n : v[i] = v[j] => i = j
  BY <1>3 DEF Victims
<1> HIDE DEF n
<1>6. v \in Seq(Outpoint) /\ Len(v) = n
  BY <1>4, <1>5 DEF Orphans, Outpoint
<1>7. PICK a : Erasing(a, q, v, Tx)
  BY <1>2, <1>6, EraseEachRec, Zenon
<1>8. \A i \in 0..n : Reduced(q, a[i], Before(v, i, Tx))
  BY <1>2, <1>6, <1>7, EraseEachReduces, Zenon
<1> DEFINE T == {i \in 0..n : Len(a[i].list) = m - i}
<1>9. 0 \in T
  BY <1>4, <1>7 DEF Erasing
<1>10. ASSUME NEW i \in 1..n, i - 1 \in T PROVE i \in T
  <2>1. PICK r : r = a[i - 1]
    OBVIOUS
  <2>2. Reduced(q, r, Before(v, i - 1, Tx)) /\ Good(r) /\ Len(r.list) = m - (i - 1)
    BY <1>4, <1>8, <1>10, <2>1 DEF Reduced
  <2>3. v[i] \in Orphans(q) /\ v[i] \in Tx
    BY <1>5 DEF Orphans
  <2>4. v[i] \notin Before(v, i - 1, Tx)
    BY <1>4, <1>5 DEF Before
  <2>5. v[i] \in Orphans(r)
    BY <2>2, <2>3, <2>4 DEF Reduced
  <2>6. a[i] = EraseTx(r, v[i])
    BY <1>6, <1>7, <2>1, <2>3 DEF Erasing
  <2>7. Len(a[i].list) = Len(r.list) - 1
    BY <2>2, <2>3, <2>5, <2>6, EraseOne
  <2> QED BY <1>4, <2>2, <2>7
<1>11. T = 0..n
  <2> HIDE DEF T
  <2>1. T \in SUBSET (0..n)
    BY DEF T
  <2> QED BY <1>4, <1>9, <1>10, <2>1, UpTo, Zenon
<1>12. n \in 0..n /\ o1 = a[n]
  BY <1>3, <1>4, <1>6, <1>7 DEF Erasing
<1>13. Len(o1.list) = m - n
  BY <1>11, <1>12
<1>14. Reduced(q, o1, Before(v, n, Tx)) /\ Before(v, n, Tx) \in SUBSET Tx
  BY <1>8, <1>12 DEF Before
<1>15. Reduced(o, o1, expired \cup Before(v, n, Tx))
  BY <1>2, <1>14, ReducedTwice
<1>16. expired \cup Before(v, n, Tx) \in SUBSET Tx
  BY <1>14
<1>17. Len(o1.list) <= MaxOrphans
  BY <1>4, <1>13 DEF n
<1> QED BY <1>15, <1>16, <1>17

LEMMA Added ==
  ASSUME NEW o, Good(o), NEW x \in Tx, NEW p \in Peer
  PROVE  /\ Good(AddTx(o, x, p))
         /\ AddTx(o, x, p).work = o.work
         /\ Orphans(AddTx(o, x, p)) \subseteq Orphans(o) \cup {x}
         /\ \A y \in Tx : AddTx(o, x, p).peer[y] = o.peer[y] \/ (y = x /\ AddTx(o, x, p).peer[y] = p)
<1>1. /\ o.peer \in [Tx -> Peer \cup {0}] /\ o.pos \in [Tx -> Nat] /\ o.list \in Seq(Tx)
      /\ o.wtxids \in SUBSET Tx /\ o.spenders \in [Outpoint -> SUBSET Tx]
      /\ o.work \in [Peer -> SUBSET Tx]
  BY DEF Good, Orphanages
<1>2. /\ \A y \in Orphans(o) : o.pos[y] \in DOMAIN o.list /\ o.list[o.pos[y]] = y
      /\ \A i \in DOMAIN o.list : o.pos[o.list[i]] = i
      /\ o.wtxids = Orphans(o)
      /\ \A i \in Outpoint : o.spenders[i] = {y \in Orphans(o) : i \in Inputs[y]}
      /\ \A y \in Tx : o.peer[y] # 0 <=> y \in Orphans(o)
  BY DEF Good, IndexesAgree, Orphans
<1>3. CASE IsOrphan(o, x) \/ x \in TooBig
  BY <1>3 DEF AddTx
<1>4. CASE ~(IsOrphan(o, x) \/ x \in TooBig)
  <2> DEFINE e == AddTx(o, x, p)
             pos == [o.pos EXCEPT ![x] = Len(o.list) + 1]
             list == Append(o.list, x)
             spenders == [i \in Outpoint |-> IF i \in Inputs[x] THEN o.spenders[i] \cup {x}
                                             ELSE o.spenders[i]]
  <2>1. e = [o EXCEPT !.peer[x] = p, !.pos = pos, !.list = list, !.wtxids = @ \cup {x},
                      !.spenders = spenders]
    BY <1>4 DEF AddTx
  <2>2. /\ e.peer = [o.peer EXCEPT ![x] = p] /\ e.pos = pos /\ e.list = list
        /\ e.wtxids = o.wtxids \cup {x} /\ e.spenders = spenders /\ e.work = o.work
    <3> HIDE DEF e, pos, list, spenders
    <3> QED BY <2>1 DEF Good, Orphanages
  <2>3. x \notin Orphans(o)
    BY <1>4 DEF Orphans
  <2>4. list \in Seq(Tx) /\ DOMAIN list = 1..(Len(o.list) + 1) /\ Len(o.list) \in Nat
        /\ DOMAIN o.list = 1..Len(o.list)
        /\ list[Len(o.list) + 1] = x
        /\ \A i \in 1..Len(o.list) : list[i] = o.list[i]
    BY <1>1
  <2>5. pos \in [Tx -> Nat]
        /\ \A y \in Tx : pos[y] = IF y = x THEN Len(o.list) + 1 ELSE o.pos[y]
    BY <1>1
  <2> HIDE DEF e, pos, list, spenders
  <2>6. Orphans(e) = Orphans(o) \cup {x}
    BY <1>1, <2>2, <2>5 DEF Orphans, IsOrphan
  <2>7. \A y \in Tx : e.peer[y] = IF y = x THEN p ELSE o.peer[y]
    BY <1>1, <2>2
  <2>8. e \in Orphanages
    <3>1. e.peer \in [Tx -> Peer \cup {0}] /\ e.wtxids \in SUBSET Tx
          /\ e.spenders \in [Outpoint -> SUBSET Tx]
      BY <1>1, <2>2 DEF spenders
    <3>2. e = [peer |-> e.peer, pos |-> e.pos, list |-> e.list, wtxids |-> e.wtxids,
               spenders |-> e.spenders, work |-> e.work]
      BY <2>1 DEF Good, Orphanages
    <3> QED BY <1>1, <2>2, <2>4, <2>5, <3>1, <3>2 DEF Orphanages
  <2>9. \A y \in Orphans(e) : e.pos[y] \in DOMAIN e.list /\ e.list[e.pos[y]] = y
    <3> SUFFICES ASSUME NEW y \in Orphans(e)
                 PROVE  pos[y] \in 1..(Len(o.list) + 1) /\ list[pos[y]] = y
      BY <2>2, <2>4
    <3>1. CASE y = x
      BY <2>4, <2>5, <3>1
    <3>2. CASE y # x
      <4>1. y \in Orphans(o) /\ y \in Tx /\ pos[y] = o.pos[y]
        BY <2>5, <2>6, <3>2 DEF Orphans
      <4> QED BY <1>2, <2>4, <4>1
    <3> QED BY <3>1, <3>2
  <2>10. \A i \in DOMAIN e.list : e.pos[e.list[i]] = i
    <3> SUFFICES ASSUME NEW i \in 1..(Len(o.list) + 1) PROVE pos[list[i]] = i
      BY <2>2, <2>4
    <3>1. CASE i = Len(o.list) + 1
      BY <2>4, <2>5, <3>1
    <3>2. CASE i # Len(o.list) + 1
      <4>0. i \in 1..Len(o.list) /\ i \in DOMAIN o.list
        BY <2>4, <3>2
      <4>1. o.list[i] \in Tx /\ list[i] = o.list[i] /\ o.pos[o.list[i]] = i /\ i # 0
        BY <1>1, <1>2, <2>4, <4>0
      <4>2. o.list[i] \in Orphans(o)
        BY <4>1 DEF Orphans, IsOrphan
      <4> QED BY <2>3, <2>5, <4>1, <4>2
    <3> QED BY <3>1, <3>2
  <2>11. \A i \in Outpoint : e.spenders[i] = {y \in Orphans(e) : i \in Inputs[y]}
    BY <1>1, <1>2, <2>2, <2>6 DEF spenders
  <2>12. \A y \in Tx : e.peer[y] # 0 <=> IsOrphan(e, y)
    <3>1. \A y \in Tx : IsOrphan(e, y) <=> y \in Orphans(e)
      BY DEF Orphans
    <3>2. p # 0
      BY OrphanageAssumption
    <3> QED BY <1>2, <2>6, <2>7, <3>1, <3>2
  <2>13. IndexesAgree(e)
    BY <1>2, <2>2, <2>6, <2>9, <2>10, <2>11, <2>12 DEF IndexesAgree
  <2> QED BY <2>2, <2>6, <2>7, <2>8, <2>13 DEF Good, e
<1> QED BY <1>3, <1>4

\* o1 is o but for the work sets, which are w.
Reworked(o, o1, w) ==
  /\ Good(o1)
  /\ Orphans(o1) = Orphans(o)
  /\ o1.peer = o.peer /\ o1.list = o.list /\ o1.work = w

LEMMA WorkSet ==
  ASSUME NEW o, Good(o), NEW w \in [Peer -> SUBSET Tx]
  PROVE  Reworked(o, [o EXCEPT !.work = w], w)
<1> DEFINE e == [o EXCEPT !.work = w]
<1>1. /\ e.peer = o.peer /\ e.pos = o.pos /\ e.list = o.list /\ e.wtxids = o.wtxids
      /\ e.spenders = o.spenders /\ e.work = w /\ e \in Orphanages
  BY DEF Good, Orphanages
<1> HIDE DEF e
<1>2. Orphans(e) = Orphans(o) /\ \A x : IsOrphan(e, x) = IsOrphan(o, x)
  BY <1>1 DEF Orphans, IsOrphan
<1>3. IndexesAgree(e)
  BY <1>1, <1>2 DEF Good, IndexesAgree
<1> QED BY <1>1, <1>2, <1>3 DEF Good, Reworked, e

\* The orphans that spend x.
Children(o, x) == {c \in Orphans(o) : x \in Inputs[c]}

\* o1 is o with the children of x put to work.
PutToWork(o, o1, x) ==
  /\ Reworked(o, o1, o1.work)
  /\ \A p \in Peer, c \in Tx :
       c \in o1.work[p] <=> c \in o.work[p] \/ (c \in Children(o, x) /\ o.peer[c] = p)

LEMMA ChildrenWork ==
  ASSUME NEW o, Good(o), NEW x \in Tx
  PROVE  PutToWork(o, AddChildrenToWorkSet(o, x), x)
<1> DEFINE w == [p \in Peer |-> o.work[p] \cup {c \in o.spenders[x] : o.peer[c] = p}]
<1>1. AddChildrenToWorkSet(o, x) = [o EXCEPT !.work = w]
  BY DEF AddChildrenToWorkSet
<1>2. o.spenders[x] = Children(o, x) /\ o.work \in [Peer -> SUBSET Tx] /\ Children(o, x) \subseteq Tx
  BY DEF Good, IndexesAgree, Orphanages, Children, Outpoint, Orphans
<1>3. w \in [Peer -> SUBSET Tx]
  BY <1>2
<1>4. Reworked(o, [o EXCEPT !.work = w], w)
  BY <1>3, WorkSet, Zenon
<1>5. [o EXCEPT !.work = w].work = w
  BY <1>4, Zenon DEF Reworked
<1>6. \A p \in Peer, c \in Tx :
        c \in w[p] <=> c \in o.work[p] \/ (c \in Children(o, x) /\ o.peer[c] = p)
  BY <1>2
<1> HIDE DEF w
<1> QED BY <1>1, <1>4, <1>5, <1>6, Zenon DEF PutToWork

\* o1 is o with xs taken from the work set of p.
TakenFrom(o, o1, p, xs) ==
  /\ Reworked(o, o1, o1.work)
  /\ \A q \in Peer, x \in Tx : x \in o1.work[q] <=> x \in o.work[q] /\ ~(q = p /\ x \in xs)

LEMMA TakenWork ==
  ASSUME NEW o, Good(o), NEW p \in Peer, NEW xs
  PROVE  TakenFrom(o, Taken(o, p, xs), p, xs)
<1> DEFINE w == [o.work EXCEPT ![p] = @ \ xs]
<1>1. o.work \in [Peer -> SUBSET Tx]
  BY DEF Good, Orphanages
<1>2. Taken(o, p, xs) = [o EXCEPT !.work = w]
  BY DEF Taken
<1>3. /\ w \in [Peer -> SUBSET Tx]
      /\ \A q \in Peer, x \in Tx : x \in w[q] <=> x \in o.work[q] /\ ~(q = p /\ x \in xs)
  BY <1>1
<1>4. Reworked(o, [o EXCEPT !.work = w], w)
  BY <1>3, WorkSet, Zenon
<1>5. [o EXCEPT !.work = w].work = w
  BY <1>4, Zenon DEF Reworked
<1> HIDE DEF w
<1> QED BY <1>2, <1>3, <1>4, <1>5, Zenon DEF TakenFrom

\* o1 is o without the orphans of p.
WithoutPeer(o, o1, p) ==
  /\ Good(o1) /\ Len(o1.list) <= Len(o.list)
  /\ \A x \in Tx : /\ x \in Orphans(o1) <=> x \in Orphans(o) /\ o.peer[x] # p
                   /\ o1.peer[x] = IF x \in Orphans(o) /\ o.peer[x] = p THEN 0 ELSE o.peer[x]
  /\ \A q \in Peer : o1.work[q] = IF q = p THEN {} ELSE o.work[q]

LEMMA PeerErased ==
  ASSUME NEW o, Good(o), NEW p \in Peer
  PROVE  WithoutPeer(o, EraseForPeer(o, p), p)
<1> DEFINE w == [o.work EXCEPT ![p] = {}]
           xs == {x \in Orphans(o) : o.peer[x] = p}
<1>1. o.work \in [Peer -> SUBSET Tx]
  BY DEF Good, Orphanages
<1>2. w \in [Peer -> SUBSET Tx] /\ \A q \in Peer : w[q] = IF q = p THEN {} ELSE o.work[q]
  BY <1>1
<1>3. PICK e : e = [o EXCEPT !.work = w]
  OBVIOUS
<1>4. Reworked(o, e, w)
  BY <1>2, <1>3, WorkSet, Zenon
<1>5. EraseForPeer(o, p) = EraseAll(e, xs)
  BY <1>3 DEF EraseForPeer
<1>6. xs \in SUBSET Tx /\ Good(e)
  BY <1>4, Zenon DEF Orphans, Reworked
<1> HIDE DEF w, xs
<1>7. Reduced(e, EraseAll(e, xs), xs)
  BY <1>6, EraseAllReduces, Zenon
<1> QED BY <1>2, <1>4, <1>5, <1>7 DEF Reduced, Reworked, WithoutPeer, xs

-----------------------------------------------------------------------------
\* The tracker.

Anns == [Hash -> [Peer -> Announcement]]

\* Every announcement of b is one of a.
Fewer(a, b) ==
  /\ b \in Anns
  /\ \A h \in Hash, p \in Peer : b[h][p] # "none" => a[h][p] # "none"

LEMMA FewerTwice ==
  ASSUME NEW a, NEW b, NEW c, Fewer(a, b), Fewer(b, c)
  PROVE  Fewer(a, c)
BY Zenon DEF Fewer

LEMMA HashType ==
  /\ \A x \in Outpoint : Txid(x) \in Hash /\ Txid(x).tx = x
  /\ \A x \in Tx : /\ Txid(x) \in Hash /\ Wtxid(x) \in Hash /\ Hashes(x) \subseteq Hash
                   /\ \A h \in Hash : h \in Hashes(x) <=> h.tx = x
  /\ \A h \in Hash : h.tx \in Outpoint
<1>1. Witness \subseteq Tx /\ Tx \subseteq Outpoint
  BY TxDownloadAssumption DEF Outpoint
<1>2. \A x \in Outpoint : Txid(x) \in Hash /\ Txid(x).tx = x
  BY DEF Txid, Hash
<1>3. ASSUME NEW x \in Tx, x \in Witness PROVE Wtxid(x) = [tx |-> x, wtxid |-> TRUE]
  <2>1. (x \in Witness) = TRUE
    BY <1>3
  <2> QED BY <2>1, Zenon DEF Wtxid
<1>4. ASSUME NEW x \in Tx, x \notin Witness PROVE Wtxid(x) = Txid(x)
  <2>1. (x \in Witness) = FALSE
    BY <1>4
  <2> QED BY <2>1, Zenon DEF Wtxid, Txid
<1>5. ASSUME NEW x \in Tx PROVE Wtxid(x) \in Hash /\ Wtxid(x).tx = x
  BY <1>1, <1>2, <1>3, <1>4 DEF Hash
<1>6. ASSUME NEW h \in Hash
      PROVE  (h.tx \in Outpoint /\ h = Txid(h.tx)) \/ (h.tx \in Witness /\ h = [tx |-> h.tx, wtxid |-> TRUE])
  BY DEF Hash, Txid
<1>7. ASSUME NEW x \in Tx, NEW h \in Hash PROVE h \in Hashes(x) <=> h.tx = x
  <2>1. ASSUME h \in Hashes(x) PROVE h.tx = x
    BY <1>1, <1>2, <1>5, <2>1 DEF Hashes
  <2>2. ASSUME h.tx = x PROVE h \in Hashes(x)
    BY <1>3, <1>6, <2>2 DEF Hashes
  <2> QED BY <2>1, <2>2
<1>8. \A x \in Tx : Txid(x) \in Hash /\ Wtxid(x) \in Hash /\ Hashes(x) \subseteq Hash
  BY <1>1, <1>2, <1>5 DEF Hashes
<1>9. \A h \in Hash : h.tx \in Outpoint
  BY <1>1, <1>6
<1> QED BY <1>2, <1>7, <1>8, <1>9, Zenon

LEMMA Tidied ==
  ASSUME NEW row \in [Peer -> Announcement]
  PROVE  /\ Tidy(row) \in [Peer -> Announcement]
         /\ \A p \in Peer : Tidy(row)[p] # "none" => row[p] # "none"
BY DEF Tidy, Announcement

LEMMA Responses ==
  ASSUME NEW a \in Anns, NEW p \in Peer, NEW h \in Hash
  PROVE  Fewer(a, ReceivedResponse(a, p, h))
<1>1. CASE a[h][p] = "none"
  BY <1>1 DEF ReceivedResponse, Fewer
<1>2. CASE a[h][p] # "none"
  <2>1. PICK row : row = [a[h] EXCEPT ![p] = "completed"]
    OBVIOUS
  <2>2. row \in [Peer -> Announcement]
        /\ \A q \in Peer : row[q] # "none" => a[h][q] # "none"
    BY <1>2, <2>1 DEF Anns, Announcement
  <2>3. ReceivedResponse(a, p, h) = [a EXCEPT ![h] = Tidy(row)]
    BY <1>2, <2>1 DEF ReceivedResponse
  <2>4. Tidy(row) \in [Peer -> Announcement]
        /\ \A q \in Peer : Tidy(row)[q] # "none" => a[h][q] # "none"
    BY <2>2, Tidied
  <2> QED BY <2>3, <2>4 DEF Fewer, Anns
<1> QED BY <1>1, <1>2

\* Only announcements of a are in b, and none of hs.
Forgets(a, b, hs) == Fewer(a, b) /\ \A h \in hs, p \in Peer : b[h][p] = "none"

LEMMA Forgotten ==
  ASSUME NEW a \in Anns, NEW hs \in SUBSET Hash
  PROVE  Forgets(a, ForgetTxHashes(a, hs), hs)
BY DEF Forgets, Fewer, Anns, ForgetTxHashes, Announcement

LEMMA Disconnected ==
  ASSUME NEW a \in Anns, NEW p \in Peer
  PROVE  /\ Fewer(a, DisconnectedPeer(a, p))
         /\ \A h \in Hash : DisconnectedPeer(a, p)[h][p] = "none"
<1>1. ASSUME NEW h \in Hash
      PROVE  LET row == [a[h] EXCEPT ![p] = "none"]
             IN  /\ Tidy(row) \in [Peer -> Announcement]
                 /\ \A q \in Peer : Tidy(row)[q] # "none" => a[h][q] # "none" /\ q # p
  <2>1. PICK row : row = [a[h] EXCEPT ![p] = "none"]
    OBVIOUS
  <2>2. row \in [Peer -> Announcement]
        /\ \A q \in Peer : row[q] # "none" => a[h][q] # "none" /\ q # p
    BY <2>1 DEF Anns, Announcement
  <2>3. Tidy(row) \in [Peer -> Announcement]
        /\ \A q \in Peer : Tidy(row)[q] # "none" => a[h][q] # "none" /\ q # p
    BY <2>2, Tidied
  <2> QED BY <2>1, <2>3, Zenon
<1> QED BY <1>1, Zenon DEF Fewer, Anns, DisconnectedPeer

LEMMA Expiries ==
  ASSUME NEW a \in Anns, NEW expired, \A r \in expired : a[r[1]][r[2]] = "requested"
  PROVE  Fewer(a, Expire(a, expired))
<1>1. ASSUME NEW h \in Hash
      PROVE  LET row == [p \in Peer |-> IF <<h, p>> \in expired THEN "completed" ELSE a[h][p]]
             IN  /\ Tidy(row) \in [Peer -> Announcement]
                 /\ \A q \in Peer : Tidy(row)[q] # "none" => a[h][q] # "none"
  <2>1. PICK row : row = [p \in Peer |-> IF <<h, p>> \in expired THEN "completed" ELSE a[h][p]]
    OBVIOUS
  <2>2. \A p \in Peer : <<h, p>> \in expired => a[h][p] = "requested"
    OBVIOUS
  <2>3. row \in [Peer -> Announcement]
        /\ \A q \in Peer : row[q] # "none" => a[h][q] # "none"
    BY <2>1, <2>2 DEF Anns, Announcement
  <2>4. Tidy(row) \in [Peer -> Announcement]
        /\ \A q \in Peer : Tidy(row)[q] # "none" => a[h][q] # "none"
    BY <2>3, Tidied
  <2> QED BY <2>1, <2>4, Zenon
<1> QED BY <1>1, Zenon DEF Fewer, Anns, Expire

LEMMA Requests ==
  ASSUME NEW a \in Anns, NEW p \in Peer, NEW hs \in SUBSET Hash,
         \A h \in hs : a[h][p] = "candidate"
  PROVE  Fewer(a, RequestedTx(a, p, hs))
BY DEF Fewer, Anns, RequestedTx, Announcement

\* b has the announcements of a and some that p has made of hs.
Grown(a, b, p, hs) ==
  /\ b \in Anns
  /\ \A h \in Hash, q \in Peer : b[h][q] # "none" => a[h][q] # "none" \/ (q = p /\ h \in hs)

LEMMA GrownTwice ==
  ASSUME NEW a, NEW b, NEW c, NEW p, NEW hs, Grown(a, b, p, hs), Grown(b, c, p, hs)
  PROVE  Grown(a, c, p, hs)
BY Zenon DEF Grown

LEMMA Announcements ==
  ASSUME NEW a \in Anns, NEW p \in Peer, NEW h \in Hash
  PROVE  Grown(a, AddTxAnnouncement(a, p, h), p, {h})
<1>1. [a EXCEPT ![h][p] = "candidate"] \in Anns
  BY DEF Anns, Announcement
<1>2. Grown(a, [a EXCEPT ![h][p] = "candidate"], p, {h})
  BY <1>1 DEF Grown, Anns
<1>3. Grown(a, a, p, {h})
  BY DEF Grown
<1> QED BY <1>2, <1>3, Zenon DEF AddTxAnnouncement

Lacking == {h \in Hash : ~AlreadyHave(h)}

\* Parents are announced only if the node lacks them.
LEMMA ParentsAnnounced ==
  ASSUME NEW a \in Anns, NEW p \in Peer, NEW parents
  PROVE  Grown(a, AnnounceParents(a, p, parents), p, Lacking)
<1> DEFINE n == Len(Txids)
           S == {b \in Anns : Grown(a, b, p, Lacking)}
           Step(b, i) == IF Txids[i] \notin parents \/ AlreadyHave(Txid(Txids[i])) THEN b
                         ELSE AddTxAnnouncement(b, p, Txid(Txids[i]))
           E(g) == [i \in 0..n |->
                      IF i = 0 THEN a
                      ELSE IF Txids[i] \notin parents \/ AlreadyHave(Txid(Txids[i])) THEN g[i - 1]
                      ELSE AddTxAnnouncement(g[i - 1], p, Txid(Txids[i]))]
           F == [i \in 1..n |-> [b \in S |-> Step(b, i)]]
<1>1. n \in Nat /\ \A i \in 1..n : Txids[i] \in Outpoint
  BY OrphanageAssumption DEF Outpoint
<1>2. a \in S
  BY DEF Grown
<1>3. ASSUME NEW i \in 1..n, NEW b \in S PROVE Step(b, i) \in S
  <2> DEFINE h == Txid(Txids[i])
  <2>1. h \in Hash
    BY <1>1, HashType, Zenon
  <2> HIDE DEF h
  <2>2. CASE Txids[i] \in parents /\ ~AlreadyHave(h)
    <3>1. Grown(b, AddTxAnnouncement(b, p, h), p, {h})
      BY <2>1, Announcements, Zenon
    <3>2. Grown(b, AddTxAnnouncement(b, p, h), p, Lacking)
      BY <2>1, <2>2, <3>1, Zenon DEF Grown, Lacking
    <3>3. Grown(a, AddTxAnnouncement(b, p, h), p, Lacking)
      BY <3>2, GrownTwice, Zenon
    <3>4. AddTxAnnouncement(b, p, h) \in S
      BY <3>3, Zenon DEF Grown
    <3> QED BY <2>2, <3>4, Zenon DEF h
  <2>3. CASE ~(Txids[i] \in parents /\ ~AlreadyHave(h))
    BY <2>3, Zenon DEF h
  <2> QED BY <2>2, <2>3, Zenon
<1>4. F \in [1..n -> [S -> S]]
  <2> HIDE DEF S, Step, n
  <2> QED BY <1>3, Zenon
<1>5. \A i \in 1..n : \A b \in S : F[i][b] = Step(b, i)
  BY Zenon
<1> HIDE DEF n, F, S
<1>6. PICK f : Iterates(f, n, S, a, F)
  BY <1>1, <1>2, <1>4, IndexRecursion, Zenon
<1>7. \A i \in 0..n : i # 0 => i \in 1..n
  BY <1>1
<1>8. \A i \in 1..n : i - 1 \in 0..n /\ i \in 0..n /\ i # 0
  BY <1>1
<1>9. f = E(f)
  <2>1. \A i \in 0..n : f[i] = E(f)[i]
    BY <1>5, <1>6, <1>7, <1>8, Zenon DEF Iterates
  <2> QED BY <1>6, <2>1, Zenon DEF Iterates
<1>10. \E g : g = E(g)
  <2> HIDE DEF E
  <2> QED BY <1>9, Zenon
<1>11. PICK g : g = CHOOSE k : k = E(k)
  OBVIOUS
<1>12. g = E(g)
  <2> HIDE DEF E
  <2> QED BY <1>10, <1>11, Zenon
<1>13. 0 \in 0..n /\ n \in 0..n
  BY <1>1
<1>14. g[0] = a
  BY <1>12, <1>13, Zenon
<1>15. \A i \in 1..n : g[i] = Step(g[i - 1], i)
  BY <1>8, <1>12, Zenon
<1> DEFINE T == {i \in 0..n : g[i] \in S}
<1>16. 0 \in T
  BY <1>2, <1>13, <1>14, Zenon
<1>17. ASSUME NEW i \in 1..n, i - 1 \in T PROVE i \in T
  <2>1. g[i - 1] \in S
    BY <1>17, Zenon
  <2> HIDE DEF Step
  <2>2. g[i] \in S
    BY <1>3, <1>15, <2>1, Zenon
  <2> QED BY <1>8, <2>2, Zenon
<1>18. T = 0..n
  <2> HIDE DEF T
  <2>1. T \in SUBSET (0..n)
    BY Zenon DEF T
  <2> QED BY <1>1, <1>16, <1>17, <2>1, UpTo, Zenon
<1>19. g[n] \in S
  BY <1>13, <1>18, Zenon
<1>20. AnnounceParents(a, p, parents) = g[n]
  BY <1>11, Zenon DEF AnnounceParents, n
<1> QED BY <1>19, <1>20, Zenon DEF S
-----------------------------------------------------------------------------
\* The inductive invariant.

IsAnnounced(h) == \E p \in Peer : ann[h][p] # "none"

\* What is announced is no orphan and not rejected; the node has it only in a
\* block whose event is being delivered, or in the pool and not by relay.
Unheard ==
  \A h \in Hash : IsAnnounced(h) =>
    /\ h.tx \notin Orphans(orphanage)
    /\ h \notin rejects
    /\ h.tx \in recent => stage = "filtered" /\ h.tx \in Block
    /\ h.tx \in pool => h.tx \in unrelayed

Staged == stage # "none" => Delivering("connected")

IInv ==
  /\ TypeOK
  /\ OrphanageOK
  /\ GonePeersForgotten
  /\ NoOrphanOverlooked
  /\ Unheard
  /\ Staged

LEMMA EmptyGood == Good(EmptyOrphanage) /\ Orphans(EmptyOrphanage) = {}
<1>1. EmptyOrphanage \in Orphanages
  BY DEF EmptyOrphanage, Orphanages
<1>2. Orphans(EmptyOrphanage) = {}
  BY DEF EmptyOrphanage, Orphans, IsOrphan
<1>3. \A x \in Tx : ~IsOrphan(EmptyOrphanage, x)
  BY DEF EmptyOrphanage, IsOrphan
<1>4. IndexesAgree(EmptyOrphanage)
  <2>1. PICK e : e = EmptyOrphanage
    OBVIOUS
  <2>2. /\ e.list = <<>> /\ e.wtxids = {} /\ \A i \in Outpoint : e.spenders[i] = {}
        /\ \A x \in Tx : e.peer[x] = 0
    BY <2>1 DEF EmptyOrphanage
  <2>3. Orphans(e) = {} /\ \A x \in Tx : ~IsOrphan(e, x)
    BY <1>2, <1>3, <2>1, Zenon
  <2>4. IndexesAgree(e)
    BY <2>2, <2>3 DEF IndexesAgree
  <2> QED BY <2>1, <2>4, Zenon
<1> QED BY <1>1, <1>2, <1>4 DEF Good

LEMMA InitInv == Init => IInv
<1> SUFFICES ASSUME Init PROVE IInv
  OBVIOUS
<1>1. Len(Blocks) \in Nat
  BY TxDownloadAssumption
<1>2. TypeOK
  BY <1>1, EmptyGood DEF Init, TypeOK, Announcement, Good
<1>3. OrphanageOK
  BY EmptyGood, OrphanageAssumption DEF Init, OrphanageOK, Good, EmptyOrphanage
<1>4. GonePeersForgotten
  BY Zenon DEF Init, GonePeersForgotten
<1>5. NoOrphanOverlooked
  BY EmptyGood DEF Init, NoOrphanOverlooked
<1>6. Unheard
  BY DEF Init, Unheard, IsAnnounced
<1>7. Staged
  BY DEF Init, Staged
<1> QED BY <1>2, <1>3, <1>4, <1>5, <1>6, <1>7 DEF IInv

\* The orphan y has its inputs, and by relay.
Ready(y) == InputsAvailable(y) /\ Inputs[y] \cap missed = {}

\* The pool changed other than by relay: no orphan becomes ready.
LEMMA PoolLater ==
  ASSUME TypeOK, NEW txs \in SUBSET Tx, NEW n, SetPool(txs, n, FALSE), height' = n
  PROVE  /\ pool' \subseteq Tx /\ unrelayed' \subseteq pool' /\ missed' \subseteq Outpoint
         /\ \A y \in Tx : Ready(y)' => Ready(y)
         /\ \A x \in pool' : x \in unrelayed' \/ (x \in pool /\ x \notin unrelayed)
<1>1. /\ pool' = txs
      /\ missed' = AvailableIn(txs, n) \cap (missed \cup (Outpoint \ Available))
      /\ unrelayed' = (unrelayed \cap txs) \cup (txs \ pool)
  BY Zenon DEF SetPool
<1>2. Available' = AvailableIn(txs, n)
  BY <1>1, Zenon DEF Available
<1>3. \A y \in Tx : Inputs[y] \subseteq Outpoint
  BY OrphanageAssumption DEF Outpoint
<1>4. AvailableIn(txs, n) \subseteq Outpoint
  BY Zenon DEF AvailableIn
<1>5. ASSUME NEW y \in Tx, Ready(y)' PROVE Ready(y)
  <2>1. Inputs[y] \subseteq AvailableIn(txs, n) /\ Inputs[y] \cap missed' = {}
    BY <1>2, <1>5, Zenon DEF Ready, InputsAvailable
  <2>2. Inputs[y] \subseteq Available /\ Inputs[y] \cap missed = {}
    BY <1>1, <1>3, <2>1
  <2> QED BY <2>2 DEF Ready, InputsAvailable
<1> QED BY <1>1, <1>4, <1>5

\* Relay or expiry changed the pool: an orphan becomes ready only by xs.
LEMMA PoolRelayed ==
  ASSUME TypeOK, NEW xs \in SUBSET Tx, NEW txs \in SUBSET (pool \cup xs),
         SetPool(txs, height, TRUE), height' = height
  PROVE  /\ pool' \subseteq pool \cup xs /\ pool' \subseteq Tx
         /\ unrelayed' \subseteq pool' /\ missed' \subseteq Outpoint
         /\ unrelayed \cap pool' \subseteq unrelayed'
         /\ \A y \in Tx : Ready(y)' => Ready(y) \/ Inputs[y] \cap xs # {}
<1>1. /\ pool' = txs
      /\ missed' = AvailableIn(txs, height) \cap missed
      /\ unrelayed' = unrelayed \cap txs
  BY DEF SetPool
<1>2. Available' = AvailableIn(txs, height)
  BY <1>1, Zenon DEF Available
<1>3. AvailableIn(txs, height) \subseteq Available \cup xs
  BY DEF AvailableIn, Available
<1>4. AvailableIn(txs, height) \subseteq Outpoint
  BY Zenon DEF AvailableIn
<1>5. ASSUME NEW y \in Tx, Ready(y)', Inputs[y] \cap xs = {} PROVE Ready(y)
  <2>1. Inputs[y] \subseteq AvailableIn(txs, height) /\ Inputs[y] \cap missed' = {}
    BY <1>2, <1>5, Zenon DEF Ready, InputsAvailable
  <2>2. Inputs[y] \subseteq Available /\ Inputs[y] \cap missed = {}
    BY <1>1, <1>3, <1>5, <2>1
  <2> QED BY <2>2 DEF Ready, InputsAvailable
<1> QED BY <1>1, <1>4, <1>5 DEF TypeOK

LEMMA WithoutSubset == \A txs : Without(txs) \subseteq pool
BY DEF Without

\* What it means that the node does not have a transaction.
LEMMA NotHad ==
  ASSUME TypeOK, OrphanageOK, NEW h \in Hash, ~AlreadyHave(h)
  PROVE  /\ h.tx \notin Orphans(orphanage) /\ h.tx \notin recent
         /\ h \notin Rejects /\ h.tx \notin pool
<1>1. h.tx \notin recent /\ h \notin Rejects /\ h.tx \notin pool
  BY Zenon DEF AlreadyHave
<1>2. ASSUME h.tx \in Orphans(orphanage) PROVE FALSE
  <2>1. h.tx \in Tx /\ h.tx # Base /\ IsOrphan(orphanage, h.tx)
    BY <1>2, OrphanageAssumption DEF Orphans
  <2>2. h.tx \in orphanage.wtxids
    BY <1>2, Zenon DEF OrphanageOK, IndexesAgree
  <2>3. HaveTx(orphanage, h.tx, h.wtxid)
    BY <2>1, <2>2, Zenon DEF HaveTx
  <2> QED BY <2>1, <2>3, Zenon DEF AlreadyHave
<1> QED BY <1>1, <1>2, Zenon

LEMMA RejectsSubset == Rejects \subseteq rejects
BY DEF Rejects

\* A transaction is not available to AcceptToMemoryPool: its inputs are missing.
LEMMA Missing ==
  ASSUME NEW x \in Tx, "MISSING" \in Verdicts(x)
  PROVE  ~InputsAvailable(x)
<1>1. "MISSING" \notin Policy[x]
  BY TxDownloadAssumption
<1> QED BY <1>1 DEF Verdicts

LEMMA OrphanageGood == TypeOK /\ OrphanageOK => Good(orphanage) /\ Len(orphanage.list) <= MaxOrphans
BY DEF TypeOK, OrphanageOK, Good

\* Announcements of this step are of what the node lacked.
Heard == \A h \in Hash, p \in Peer : ann'[h][p] # "none" =>
           ann[h][p] # "none" \/ (p \in connected /\ h \in Lacking)

LEMMA UnheardStep ==
  ASSUME IInv, Heard,
         UNCHANGED <<recent, stage>>, stage = "filtered" => Block' = Block,
         \A h \in Hash : IsAnnounced(h)' =>
           /\ h.tx \notin Orphans(orphanage') /\ h \notin rejects'
           /\ h.tx \in pool' => h.tx \in unrelayed' \/ (h.tx \in pool /\ h.tx \notin unrelayed)
  PROVE  Unheard'
<1> SUFFICES ASSUME NEW h \in Hash, IsAnnounced(h)'
             PROVE  /\ h.tx \notin Orphans(orphanage')
                    /\ h \notin rejects'
                    /\ h.tx \in recent' => stage' = "filtered" /\ h.tx \in Block'
                    /\ h.tx \in pool' => h.tx \in unrelayed'
  BY Zenon DEF Unheard
<1>1. IsAnnounced(h) \/ h \in Lacking
  BY Zenon DEF Heard, IsAnnounced
<1>2. h \in Lacking => h.tx \notin recent /\ h.tx \notin pool
  BY NotHad, Zenon DEF IInv, Lacking
<1>3. IsAnnounced(h) => /\ h.tx \in recent => stage = "filtered" /\ h.tx \in Block
                        /\ h.tx \in pool => h.tx \in unrelayed
  BY Zenon DEF IInv, Unheard
<1> QED BY <1>1, <1>2, <1>3, Zenon

\* The tracker and the filter of rejections change, nothing else.
LEMMA TrackerStep ==
  ASSUME IInv, Heard,
         UNCHANGED <<connected, orphanage, pool, height, recent, events, stage, missed, unrelayed>>,
         ann' \in Anns, rejects' \in SUBSET Hash, rejectsTip' \in 0..Len(Blocks),
         \A h \in Hash : IsAnnounced(h)' => h \notin rejects'
  PROVE  IInv'
<1> USE DEF IInv
<1>1. TypeOK'
  BY DEF TypeOK, Anns
<1>2. OrphanageOK'
  BY Zenon DEF OrphanageOK
<1>3. GonePeersForgotten'
  BY Zenon DEF GonePeersForgotten, Heard
<1>4. NoOrphanOverlooked'
  BY Zenon DEF NoOrphanOverlooked, InputsAvailable, Available
<1>5. Unheard'
  <2>1. Block' = Block
    BY Zenon DEF Block
  <2>2. ASSUME NEW h \in Hash, IsAnnounced(h)' PROVE h.tx \notin Orphans(orphanage')
    <3>1. IsAnnounced(h) \/ h \in Lacking
      BY <2>2, Zenon DEF Heard, IsAnnounced
    <3>2. h \in Lacking => h.tx \notin Orphans(orphanage)
      BY NotHad, Zenon DEF Lacking
    <3> QED BY <3>1, <3>2, Zenon DEF Unheard
  <2>3. ASSUME NEW h \in Hash, IsAnnounced(h)', h.tx \in pool'
        PROVE  h.tx \in unrelayed' \/ (h.tx \in pool /\ h.tx \notin unrelayed)
    BY <2>3, Zenon
  <2> HIDE DEF IInv
  <2> QED BY <2>1, <2>2, <2>3, UnheardStep, Zenon
<1>6. Staged'
  BY Zenon DEF Staged, Delivering
<1> QED BY <1>1, <1>2, <1>3, <1>4, <1>5, <1>6, Zenon

\* A step that only takes announcements away.
LEMMA FewerHeard == ASSUME Fewer(ann, ann') PROVE Heard /\ ann' \in Anns
BY Zenon DEF Fewer, Heard

LEMMA AnnsType == TypeOK => ann \in Anns
BY Zenon DEF TypeOK, Anns

LEMMA SetRejectsType ==
  ASSUME TypeOK, NEW hs \in SUBSET Hash, SetRejects(hs)
  PROVE  rejects' = hs /\ rejects' \in SUBSET Hash /\ rejectsTip' \in 0..Len(Blocks)
BY DEF TypeOK, SetRejects

LEMMA InvStep ==
  ASSUME IInv, NEW p \in Peer, NEW h \in Hash, Inv(p, h)
  PROVE  IInv'
<1>1. ann \in Anns /\ p \in connected /\ Rejects \in SUBSET Hash
  BY AnnsType, RejectsSubset DEF IInv, Inv, MessageFrom, TypeOK
<1>2. rejects' = Rejects /\ rejects' \in SUBSET Hash /\ rejectsTip' \in 0..Len(Blocks)
  BY <1>1, SetRejectsType DEF Inv, IInv
<1>3. UNCHANGED <<connected, orphanage, pool, height, recent, events, stage, missed, unrelayed>>
  BY Zenon DEF Inv
<1>4. ann' = IF AlreadyHave(h) THEN ann ELSE AddTxAnnouncement(ann, p, h)
  BY Zenon DEF Inv
<1>5. Grown(ann, ann', p, Lacking)
  <2>1. CASE AlreadyHave(h)
    BY <1>1, <1>4, <2>1, Zenon DEF Grown
  <2>2. CASE ~AlreadyHave(h)
    <3>1. Grown(ann, ann', p, {h})
      BY <1>1, <1>4, <2>2, Announcements, Zenon
    <3> QED BY <2>2, <3>1, Zenon DEF Grown, Lacking
  <2> QED BY <2>1, <2>2
<1>6. Heard /\ ann' \in Anns
  BY <1>1, <1>5, Zenon DEF Grown, Heard
<1>7. ASSUME NEW g \in Hash, IsAnnounced(g)' PROVE g \notin rejects'
  <2>1. IsAnnounced(g) \/ g \in Lacking
    BY <1>6, <1>7, Zenon DEF Heard, IsAnnounced
  <2>2. g \in Lacking => g \notin Rejects
    BY NotHad, Zenon DEF IInv, Lacking
  <2>3. IsAnnounced(g) => g \notin rejects
    BY Zenon DEF IInv, Unheard
  <2> QED BY <1>2, <2>1, <2>2, <2>3, RejectsSubset
<1> QED BY <1>2, <1>3, <1>6, <1>7, TrackerStep, Zenon

\* The tracker loses announcements, those of hs among them, which are rejected.
LEMMA ForgetStep ==
  ASSUME IInv,
         UNCHANGED <<connected, orphanage, pool, height, recent, events, stage, missed, unrelayed>>,
         NEW hs \in SUBSET Hash, Forgets(ann, ann', hs),
         rejects' \subseteq rejects \cup hs, rejectsTip' \in 0..Len(Blocks)
  PROVE  IInv'
<1>1. Heard /\ ann' \in Anns
  BY FewerHeard, Zenon DEF Forgets
<1>2. rejects' \in SUBSET Hash
  BY DEF IInv, TypeOK
<1>3. ASSUME NEW h \in Hash, IsAnnounced(h)' PROVE h \notin rejects'
  <2>1. IsAnnounced(h) /\ h \notin hs
    BY <1>3, Zenon DEF IsAnnounced, Fewer, Forgets
  <2>2. h \notin rejects
    BY <2>1, Zenon DEF IInv, Unheard
  <2> QED BY <2>1, <2>2
<1> QED BY <1>1, <1>2, <1>3, TrackerStep, Zenon

LEMMA FewerStep ==
  ASSUME IInv, Fewer(ann, ann'),
         UNCHANGED <<connected, orphanage, pool, height, recent, events, stage, missed, unrelayed>>,
         rejects' \subseteq rejects, rejectsTip' \in 0..Len(Blocks)
  PROVE  IInv'
<1>1. PICK hs \in SUBSET Hash : hs = {}
  OBVIOUS
<1>2. Forgets(ann, ann', hs) /\ rejects' \subseteq rejects \cup hs
  BY <1>1, Zenon DEF Forgets
<1> QED BY <1>2, ForgetStep, Zenon

LEMMA NotFoundStep ==
  ASSUME IInv, NEW p \in Peer, NEW h \in Hash, NotFound(p, h)
  PROVE  IInv'
<1>1. Fewer(ann, ann')
  BY AnnsType, Responses, Zenon DEF IInv, NotFound
<1>2. UNCHANGED <<connected, orphanage, pool, height, recent, events, stage, missed, unrelayed>>
      /\ UNCHANGED <<rejects, rejectsTip>>
  BY Zenon DEF NotFound
<1>3. rejects' \subseteq rejects /\ rejectsTip' \in 0..Len(Blocks)
  BY <1>2 DEF IInv, TypeOK
<1> QED BY <1>1, <1>2, <1>3, FewerStep, Zenon

LEMMA RespondedFewer ==
  ASSUME TypeOK, NEW p \in Peer, NEW x \in Tx
  PROVE  Fewer(ann, Responded(p, x)) /\ Responded(p, x) \in Anns
<1>1. ann \in Anns /\ Txid(x) \in Hash /\ Wtxid(x) \in Hash
  BY AnnsType, HashType, Zenon
<1>2. PICK a : a = ReceivedResponse(ann, p, Txid(x))
  OBVIOUS
<1>3. Fewer(ann, a)
  BY <1>1, <1>2, Responses, Zenon
<1>4. Fewer(a, ReceivedResponse(a, p, Wtxid(x)))
  BY <1>1, <1>3, Responses, Zenon DEF Fewer
<1>5. Fewer(ann, ReceivedResponse(a, p, Wtxid(x)))
  BY <1>3, <1>4, FewerTwice, Zenon
<1> QED BY <1>2, <1>5, Zenon DEF Responded, Fewer

LEMMA TxKnownStep ==
  ASSUME IInv, NEW p \in Peer, NEW x \in Tx, TxKnown(p, x)
  PROVE  IInv'
<1>1. Fewer(ann, ann')
  BY RespondedFewer, Zenon DEF IInv, TxKnown
<1>2. UNCHANGED <<connected, orphanage, pool, height, recent, events, stage, missed, unrelayed>>
      /\ SetRejects(Rejects)
  BY Zenon DEF TxKnown
<1>3. rejects' \subseteq rejects /\ rejectsTip' \in 0..Len(Blocks)
  BY <1>2, RejectsSubset DEF IInv, TypeOK, SetRejects
<1> QED BY <1>1, <1>2, <1>3, FewerStep, Zenon

\* The tracker is answered and then forgets hs.
LEMMA AnsweredForgotten ==
  ASSUME TypeOK, NEW p \in Peer, NEW x \in Tx, NEW hs \in SUBSET Hash
  PROVE  Forgets(ann, ForgetTxHashes(Responded(p, x), hs), hs)
<1>1. PICK r : r = Responded(p, x)
  OBVIOUS
<1>2. Fewer(ann, r) /\ r \in Anns
  BY <1>1, RespondedFewer, Zenon
<1>3. Forgets(r, ForgetTxHashes(r, hs), hs)
  BY <1>2, Forgotten, Zenon
<1>4. Fewer(ann, ForgetTxHashes(r, hs))
  BY <1>2, <1>3, FewerTwice, Zenon DEF Forgets
<1> QED BY <1>1, <1>3, <1>4, Zenon DEF Forgets

LEMMA TxParentRejectedStep ==
  ASSUME IInv, NEW p \in Peer, NEW x \in Tx, TxParentRejected(p, x)
  PROVE  IInv'
<1>1. Hashes(x) \in SUBSET Hash
  BY HashType, Zenon
<1>2. UNCHANGED <<connected, orphanage, pool, height, recent, events, stage, missed, unrelayed>>
      /\ SetRejects(Rejects \cup Hashes(x)) /\ ann' = ForgetTxHashes(Responded(p, x), Hashes(x))
  BY Zenon DEF TxParentRejected
<1>3. Forgets(ann, ann', Hashes(x))
  BY <1>1, <1>2, AnsweredForgotten, Zenon DEF IInv
<1>4. rejects' \subseteq rejects \cup Hashes(x) /\ rejectsTip' \in 0..Len(Blocks)
  BY <1>2, RejectsSubset DEF IInv, TypeOK, SetRejects
<1> QED BY <1>1, <1>2, <1>3, <1>4, ForgetStep, Zenon

LEMMA RejectedHashes == \A x \in Tx : \A v : Rejected(x, v) \subseteq Hashes(x)
BY DEF Rejected, Hashes

LEMMA TxRejectedStep ==
  ASSUME IInv, NEW p \in Peer, NEW x \in Tx, TxRejected(p, x)
  PROVE  IInv'
<1>1. PICK v \in Verdicts(x) \ {"VALID", "MISSING"} :
         /\ ann' = ForgetTxHashes(Responded(p, x), Rejected(x, v))
         /\ SetRejects(Rejects \cup Rejected(x, v))
  BY Zenon DEF TxRejected
<1>2. UNCHANGED <<connected, orphanage, pool, height, recent, events, stage, missed, unrelayed>>
  BY Zenon DEF TxRejected
<1>3. PICK hs \in SUBSET Hash : hs = Rejected(x, v)
  BY HashType, RejectedHashes
<1>4. Forgets(ann, ann', hs)
  BY <1>1, <1>3, AnsweredForgotten, Zenon DEF IInv
<1>5. rejects' \subseteq rejects \cup hs /\ rejectsTip' \in 0..Len(Blocks)
  BY <1>1, <1>3, RejectsSubset DEF IInv, TypeOK, SetRejects
<1> QED BY <1>2, <1>4, <1>5, ForgetStep, Zenon

LEMMA SendStep ==
  ASSUME IInv, NEW p \in Peer, SendMessages(p)
  PROVE  IInv'
<1>1. PICK expired \in SUBSET {r \in Hash \X Peer : ann[r[1]][r[2]] = "requested"} :
         LET a == Expire(ann, expired)
             due == {h \in Hash : /\ a[h][p] = "candidate"
                                  /\ \A q \in Peer : a[h][q] # "requested"}
         IN  \E hs \in SUBSET due :
               LET have == {h \in hs : AlreadyHave(h)}
               IN  /\ expired # {} \/ hs # {}
                   /\ ann' = ForgetTxHashes(RequestedTx(a, p, hs \ have), have)
                   /\ IF hs = {} THEN UNCHANGED <<rejects, rejectsTip>>
                      ELSE SetRejects(Rejects)
  BY Zenon DEF SendMessages
<1> DEFINE a == Expire(ann, expired)
           due == {h \in Hash : /\ a[h][p] = "candidate"
                                /\ \A q \in Peer : a[h][q] # "requested"}
           Had(hs) == {h \in hs : AlreadyHave(h)}
<1>3. PICK hs \in SUBSET due :
         /\ ann' = ForgetTxHashes(RequestedTx(a, p, hs \ Had(hs)), Had(hs))
         /\ IF hs = {} THEN UNCHANGED <<rejects, rejectsTip>> ELSE SetRejects(Rejects)
  BY <1>1, Zenon
<1> DEFINE have == Had(hs)
<1> HIDE DEF a
<1>4. UNCHANGED <<connected, orphanage, pool, height, recent, events, stage, missed, unrelayed>>
  BY Zenon DEF SendMessages
<1>5. Fewer(ann, a)
  <2>1. ann \in Anns /\ \A r \in expired : ann[r[1]][r[2]] = "requested"
    BY AnnsType DEF IInv
  <2> QED BY <2>1, Expiries, Zenon DEF a
<1>6. PICK b : b = RequestedTx(a, p, hs \ have)
  OBVIOUS
<1>7. Fewer(a, b)
  <2>1. PICK ks \in SUBSET Hash : ks = hs \ have /\ \A h \in ks : a[h][p] = "candidate"
    OBVIOUS
  <2>2. a \in Anns
    BY <1>5, Zenon DEF Fewer
  <2> QED BY <1>6, <2>1, <2>2, Requests, Zenon
<1>8. Fewer(b, ann')
  <2>1. b \in Anns
    BY <1>7, Zenon DEF Fewer
  <2>2. have \in SUBSET Hash
    OBVIOUS
  <2> QED BY <1>3, <1>6, <2>1, <2>2, Forgotten, Zenon DEF Forgets
<1>9. Fewer(ann, ann')
  BY <1>5, <1>7, <1>8, FewerTwice, Zenon
<1>10. rejects' \subseteq rejects /\ rejectsTip' \in 0..Len(Blocks)
  BY <1>3, RejectsSubset DEF IInv, TypeOK, SetRejects
<1> QED BY <1>4, <1>9, <1>10, FewerStep, Zenon

\* The orphanage keeps some of its orphans.
Shrinks ==
  /\ Good(orphanage') /\ Len(orphanage'.list) <= Len(orphanage.list)
  /\ Orphans(orphanage') \subseteq Orphans(orphanage)
  /\ \A x \in Tx : orphanage'.peer[x] \in {0, orphanage.peer[x]}
  /\ \A x \in Orphans(orphanage') : orphanage'.peer[x] = orphanage.peer[x]

LEMMA PeerOf ==
  ASSUME NEW o, Good(o), NEW x \in Orphans(o)
  PROVE  x \in Tx /\ o.peer[x] \in Peer
<1>1. x \in Tx /\ o.peer[x] # 0
  BY DEF Good, IndexesAgree, Orphans
<1>2. o.peer[x] \in Peer \cup {0}
  BY <1>1 DEF Good, Orphanages
<1> QED BY <1>1, <1>2

LEMMA ReducedShrinks ==
  ASSUME NEW xs, Reduced(orphanage, orphanage', xs)
  PROVE  Shrinks /\ orphanage'.work = orphanage.work
<1>1. Good(orphanage') /\ Orphans(orphanage') = Orphans(orphanage) \ xs
  BY Zenon DEF Reduced
<1>2. \A x \in Tx : orphanage'.peer[x] = IF x \in xs THEN 0 ELSE orphanage.peer[x]
  BY Zenon DEF Reduced
<1>3. \A x \in Orphans(orphanage') : x \in Tx /\ x \notin xs
  BY <1>1 DEF Orphans
<1> QED BY <1>1, <1>2, <1>3 DEF Shrinks, Reduced

\* Types and OrphanageOK, when the orphanage shrinks.
LEMMA ShrinksOK ==
  ASSUME TypeOK, OrphanageOK, Shrinks
  PROVE  OrphanageOK' /\ orphanage' \in Orphanages
<1>1. Len(orphanage.list) \in Nat /\ Len(orphanage'.list) \in Nat /\ MaxOrphans \in Nat
  BY OrphanageGood, ListLength, OrphanageAssumption DEF Shrinks
<1> QED BY <1>1 DEF Shrinks, OrphanageOK, Good

\* GonePeersForgotten, when nothing is added for a peer that is not connected.
LEMMA GoneStep ==
  ASSUME IInv,
         \A p \in Peer \ connected' :
           /\ p \in connected \/ \A h \in Hash : ann'[h][p] # "none" => ann[h][p] # "none"
           /\ p \in connected \/ \A x \in Tx : orphanage'.peer[x] = p => orphanage.peer[x] = p
           /\ p \in connected \/ orphanage'.work[p] \subseteq orphanage.work[p]
           /\ p \in connected => /\ \A h \in Hash : ann'[h][p] = "none"
                                 /\ \A x \in Tx : orphanage'.peer[x] # p
                                 /\ orphanage'.work[p] = {}
  PROVE  GonePeersForgotten'
<1> SUFFICES ASSUME NEW p \in Peer \ connected', p \notin connected
             PROVE  /\ \A h \in Hash : ann'[h][p] = "none"
                    /\ \A x \in Tx : orphanage'.peer[x] # p
                    /\ orphanage'.work[p] = {}
  BY Zenon DEF GonePeersForgotten
<1>1. /\ \A h \in Hash : ann[h][p] = "none"
      /\ \A x \in Tx : orphanage.peer[x] # p
      /\ orphanage.work[p] = {}
  BY Zenon DEF IInv, GonePeersForgotten
<1> QED BY <1>1

\* Orphans that are ready stay in a work set.
LEMMA NoticedStep ==
  ASSUME IInv,
         \A x \in Orphans(orphanage') :
           Ready(x)' => /\ x \in Orphans(orphanage) /\ orphanage'.peer[x] = orphanage.peer[x]
                        /\ \/ x \in orphanage'.work[orphanage.peer[x]]
                           \/ /\ Ready(x)
                              /\ x \in orphanage.work[orphanage.peer[x]] =>
                                   x \in orphanage'.work[orphanage.peer[x]]
  PROVE  NoOrphanOverlooked'
<1> SUFFICES ASSUME NEW x \in Orphans(orphanage'), Ready(x)'
             PROVE  x \in orphanage'.work[orphanage'.peer[x]]
  BY Zenon DEF NoOrphanOverlooked, Ready
<1>1. Ready(x) => x \in orphanage.work[orphanage.peer[x]]
  BY Zenon DEF IInv, NoOrphanOverlooked, Ready
<1> QED BY <1>1, Zenon

LEMMA ReadySame ==
  ASSUME UNCHANGED <<pool, height, missed>>, NEW x
  PROVE  Ready(x)' <=> Ready(x)
BY Zenon DEF Ready, InputsAvailable, Available

\* Unheard, when the orphanage shrinks and the tracker stays.
LEMMA OrphanUnheard ==
  ASSUME IInv, Shrinks, UNCHANGED <<ann, pool, recent, stage, events, unrelayed>>,
         \A h \in rejects' : h \in rejects \/ h.tx \in Orphans(orphanage)
  PROVE  Unheard'
<1>1. Heard /\ Block' = Block
  BY Zenon DEF Heard, Block
<1>2. ASSUME NEW h \in Hash, IsAnnounced(h)'
      PROVE  /\ h.tx \notin Orphans(orphanage') /\ h \notin rejects'
             /\ h.tx \in pool' => h.tx \in unrelayed' \/ (h.tx \in pool /\ h.tx \notin unrelayed)
  <2>1. IsAnnounced(h)
    BY <1>2, Zenon DEF IsAnnounced
  <2>2. h.tx \notin Orphans(orphanage) /\ h \notin rejects
    BY <2>1, Zenon DEF IInv, Unheard
  <2> QED BY <2>2 DEF Shrinks
<1> QED BY <1>1, <1>2, UnheardStep, Zenon

LEMMA DroppedStep ==
  ASSUME IInv, NEW p \in Peer, OrphansDropped(p)
  PROVE  IInv'
<1>1. UNCHANGED <<connected, ann, pool, height, rejects, rejectsTip, recent, events, stage, missed,
                  unrelayed>>
  BY Zenon DEF OrphansDropped
<1>2. orphanage' = Taken(orphanage, p, orphanage.work[p]) /\ orphanage.work[p] = Droppable(p)
  BY Zenon DEF OrphansDropped
<1>3. Good(orphanage)
  BY OrphanageGood DEF IInv
<1>4. TakenFrom(orphanage, orphanage', p, orphanage.work[p])
  BY <1>2, <1>3, TakenWork, Zenon
<1>5. Shrinks
  BY <1>3, <1>4, ListLength DEF TakenFrom, Reworked, Shrinks
<1>6. TypeOK' /\ OrphanageOK'
  BY <1>1, <1>5, ShrinksOK DEF IInv, TypeOK
<1>7. GonePeersForgotten'
  <2>1. ASSUME NEW q \in Peer \ connected'
        PROVE  /\ q \notin connected
               /\ \A h \in Hash : ann'[h][q] # "none" => ann[h][q] # "none"
               /\ \A x \in Tx : orphanage'.peer[x] = q => orphanage.peer[x] = q
               /\ orphanage'.work[q] \subseteq orphanage.work[q]
    <3>1. \A r \in Peer : orphanage.work[r] \subseteq Tx /\ orphanage'.work[r] \subseteq Tx
      BY <1>3, <1>5 DEF Shrinks, Good, Orphanages
    <3> QED BY <1>1, <1>4, <3>1 DEF TakenFrom, Reworked
  <2> QED BY <2>1, GoneStep, Zenon
<1>8. NoOrphanOverlooked'
  <2>1. ASSUME NEW x \in Orphans(orphanage'), Ready(x)'
        PROVE  /\ x \in Orphans(orphanage) /\ orphanage'.peer[x] = orphanage.peer[x]
               /\ Ready(x)
               /\ x \in orphanage.work[orphanage.peer[x]] => x \in orphanage'.work[orphanage.peer[x]]
    <3>1. x \in Orphans(orphanage) /\ orphanage'.peer[x] = orphanage.peer[x] /\ x \in Tx
          /\ IsOrphan(orphanage, x)
      BY <1>4 DEF TakenFrom, Reworked, Orphans
    <3>2. Ready(x)
      BY <1>1, <2>1, ReadySame, Zenon
    <3>3. x \notin Droppable(p)
      BY <3>1, <3>2, Missing, Zenon DEF Droppable, Ready
    <3>4. orphanage.peer[x] \in Peer
      BY <1>3, <3>1, PeerOf, Zenon
    <3> QED BY <1>2, <1>4, <3>1, <3>2, <3>3, <3>4 DEF TakenFrom
  <2> QED BY <2>1, NoticedStep, Zenon
<1>9. Unheard'
  BY <1>1, <1>5, OrphanUnheard, Zenon
<1>10. Staged'
  BY <1>1, Zenon DEF IInv, Staged, Delivering
<1> QED BY <1>6, <1>7, <1>8, <1>9, <1>10, Zenon DEF IInv

LEMMA OrphanRejectedStep ==
  ASSUME IInv, NEW p \in Peer, NEW x \in Tx, OrphanRejected(p, x)
  PROVE  IInv'
<1>1. UNCHANGED <<connected, ann, pool, height, rejectsTip, recent, events, stage, missed, unrelayed>>
      /\ x \in Orphans(orphanage)
  BY Zenon DEF OrphanRejected, Orphans
<1>2. PICK v : rejects' = rejects \cup Rejected(x, v)
  BY Zenon DEF OrphanRejected
<1>3. PICK dropped \in SUBSET (Droppable(p) \ {x}) :
         orphanage' = EraseTx(Taken(orphanage, p, dropped \cup {x}), x)
  BY Zenon DEF OrphanRejected
<1>4. Good(orphanage)
  BY OrphanageGood DEF IInv
<1>5. PICK o : o = Taken(orphanage, p, dropped \cup {x})
  OBVIOUS
<1>6. TakenFrom(orphanage, o, p, dropped \cup {x})
  BY <1>4, <1>5, TakenWork, Zenon
<1>7. Reduced(o, orphanage', {x})
  BY <1>3, <1>5, <1>6, EraseOne, Zenon DEF TakenFrom, Reworked
<1>8. Shrinks /\ orphanage'.work = o.work /\ Orphans(orphanage') = Orphans(orphanage) \ {x}
  <2>1. \A y \in Orphans(orphanage) : y \in Tx
    BY DEF Orphans
  <2> QED BY <1>6, <1>7, <2>1 DEF TakenFrom, Reworked, Reduced, Shrinks
<1>9. Rejected(x, v) \subseteq Hash /\ \A h \in Rejected(x, v) : h.tx = x
  BY RejectedHashes, HashType
<1>10. TypeOK' /\ OrphanageOK'
  BY <1>1, <1>2, <1>8, <1>9, ShrinksOK DEF IInv, TypeOK
<1>11. GonePeersForgotten'
  <2>1. ASSUME NEW q \in Peer \ connected'
        PROVE  /\ q \notin connected
               /\ \A h \in Hash : ann'[h][q] # "none" => ann[h][q] # "none"
               /\ \A y \in Tx : orphanage'.peer[y] = q => orphanage.peer[y] = q
               /\ orphanage'.work[q] \subseteq orphanage.work[q]
    <3>1. q # 0
      BY OrphanageAssumption
    <3>2. \A r \in Peer : orphanage.work[r] \subseteq Tx /\ orphanage'.work[r] \subseteq Tx
      BY <1>4, <1>8 DEF Shrinks, Good, Orphanages
    <3> QED BY <1>1, <1>6, <1>8, <3>1, <3>2 DEF TakenFrom, Shrinks
  <2> QED BY <2>1, GoneStep, Zenon
<1>12. NoOrphanOverlooked'
  <2>1. ASSUME NEW y \in Orphans(orphanage'), Ready(y)'
        PROVE  /\ y \in Orphans(orphanage) /\ orphanage'.peer[y] = orphanage.peer[y]
               /\ Ready(y)
               /\ y \in orphanage.work[orphanage.peer[y]] => y \in orphanage'.work[orphanage.peer[y]]
    <3>1. y \in Orphans(orphanage) /\ orphanage'.peer[y] = orphanage.peer[y] /\ y \in Tx
          /\ IsOrphan(orphanage, y) /\ y # x
      BY <1>8 DEF Shrinks, Orphans
    <3>2. Ready(y)
      BY <1>1, <2>1, ReadySame, Zenon
    <3>3. y \notin Droppable(p)
      BY <3>1, <3>2, Missing, Zenon DEF Droppable, Ready
    <3>4. orphanage.peer[y] \in Peer
      BY <1>4, <3>1, PeerOf, Zenon
    <3>5. y \notin dropped \cup {x}
      BY <3>1, <3>3
    <3> QED BY <1>6, <1>8, <3>1, <3>2, <3>4, <3>5 DEF TakenFrom
  <2> QED BY <2>1, NoticedStep, Zenon
<1>13. Unheard'
  <2>1. \A h \in rejects' : h \in rejects \/ h.tx \in Orphans(orphanage)
    BY <1>1, <1>2, <1>9
  <2> QED BY <1>1, <1>8, <2>1, OrphanUnheard, Zenon
<1>14. Staged'
  BY <1>1, Zenon DEF IInv, Staged, Delivering
<1> QED BY <1>10, <1>11, <1>12, <1>13, <1>14, Zenon DEF IInv

LEMMA InitializeStep ==
  ASSUME IInv, NEW p \in Peer, InitializeNode(p)
  PROVE  IInv'
<1>1. /\ UNCHANGED <<ann, orphanage, pool, height, rejects, rejectsTip, recent, events, stage, missed,
                     unrelayed>>
      /\ connected' = connected \cup {p}
  BY Zenon DEF InitializeNode
<1>2. TypeOK' /\ OrphanageOK'
  BY <1>1 DEF IInv, TypeOK, OrphanageOK
<1>3. GonePeersForgotten'
  BY <1>1 DEF IInv, GonePeersForgotten
<1>4. NoOrphanOverlooked'
  BY <1>1, Zenon DEF IInv, NoOrphanOverlooked, InputsAvailable, Available
<1>5. Unheard' /\ Staged'
  BY <1>1, Zenon DEF IInv, Unheard, IsAnnounced, Block, Staged, Delivering
<1> QED BY <1>2, <1>3, <1>4, <1>5, Zenon DEF IInv

LEMMA FinalizeStep ==
  ASSUME IInv, NEW p \in Peer, FinalizeNode(p)
  PROVE  IInv'
<1>1. /\ UNCHANGED <<pool, height, rejects, rejectsTip, recent, events, stage, missed, unrelayed>>
      /\ connected' = connected \ {p} /\ orphanage' = EraseForPeer(orphanage, p)
      /\ ann' = DisconnectedPeer(ann, p)
  BY Zenon DEF FinalizeNode
<1>2. Good(orphanage)
  BY OrphanageGood DEF IInv
<1>3. /\ Good(orphanage') /\ Len(orphanage'.list) <= Len(orphanage.list)
      /\ \A x \in Tx : /\ x \in Orphans(orphanage') <=> x \in Orphans(orphanage) /\ orphanage.peer[x] # p
                       /\ orphanage'.peer[x] = IF x \in Orphans(orphanage) /\ orphanage.peer[x] = p
                                               THEN 0 ELSE orphanage.peer[x]
      /\ \A q \in Peer : orphanage'.work[q] = IF q = p THEN {} ELSE orphanage.work[q]
  <2>1. WithoutPeer(orphanage, orphanage', p)
    BY <1>1, <1>2, PeerErased, Zenon
  <2> QED BY <2>1, Zenon DEF WithoutPeer
<1>4. Fewer(ann, ann') /\ \A h \in Hash : ann'[h][p] = "none"
  BY <1>1, AnnsType, Disconnected, Zenon DEF IInv
<1>5. Shrinks
  <2>1. \A x \in Orphans(orphanage') : x \in Tx
    BY DEF Orphans
  <2>2. Orphans(orphanage') \subseteq Orphans(orphanage)
    BY <1>3, <2>1
  <2>3. \A x \in Tx : orphanage'.peer[x] \in {0, orphanage.peer[x]}
    BY <1>3
  <2>4. \A x \in Orphans(orphanage') : orphanage'.peer[x] = orphanage.peer[x]
    BY <1>3, <2>1
  <2> QED BY <1>3, <2>2, <2>3, <2>4, Zenon DEF Shrinks
<1>6. TypeOK' /\ OrphanageOK'
  BY <1>1, <1>4, <1>5, ShrinksOK DEF IInv, TypeOK, Fewer, Anns
<1>7. GonePeersForgotten'
  <2>1. \A x \in Tx : orphanage'.peer[x] # p
    <3> SUFFICES ASSUME NEW x \in Tx, orphanage.peer[x] = p PROVE x \in Orphans(orphanage)
      BY <1>3, OrphanageAssumption
    <3> QED BY <1>2, OrphanageAssumption DEF Good, IndexesAgree, Orphans
  <2>2. ASSUME NEW q \in Peer \ connected'
        PROVE  /\ q \in connected \/ \A h \in Hash : ann'[h][q] # "none" => ann[h][q] # "none"
               /\ q \in connected \/ \A x \in Tx : orphanage'.peer[x] = q => orphanage.peer[x] = q
               /\ q \in connected \/ orphanage'.work[q] \subseteq orphanage.work[q]
               /\ q \in connected => /\ \A h \in Hash : ann'[h][q] = "none"
                                     /\ \A x \in Tx : orphanage'.peer[x] # q
                                     /\ orphanage'.work[q] = {}
    <3>1. q \in connected => q = p
      BY <1>1, <2>2
    <3>2. \A h \in Hash : ann'[h][q] # "none" => ann[h][q] # "none"
      BY <1>4 DEF Fewer
    <3>3. \A x \in Tx : orphanage'.peer[x] = q => orphanage.peer[x] = q
      BY <1>3, OrphanageAssumption
    <3>4. orphanage'.work[q] \subseteq orphanage.work[q] /\ orphanage'.work[p] = {}
      BY <1>3
    <3> QED BY <1>4, <2>1, <3>1, <3>2, <3>3, <3>4, Zenon
  <2> QED BY <2>2, GoneStep, Zenon
<1>8. NoOrphanOverlooked'
  <2>1. ASSUME NEW x \in Orphans(orphanage'), Ready(x)'
        PROVE  /\ x \in Orphans(orphanage) /\ orphanage'.peer[x] = orphanage.peer[x]
               /\ Ready(x)
               /\ x \in orphanage.work[orphanage.peer[x]] => x \in orphanage'.work[orphanage.peer[x]]
    <3>1. x \in Orphans(orphanage) /\ orphanage'.peer[x] = orphanage.peer[x]
      BY <1>5 DEF Shrinks
    <3>2. Ready(x)
      BY <1>1, <2>1, ReadySame, Zenon
    <3>3. x \in Tx /\ orphanage.peer[x] \in Peer /\ orphanage.peer[x] # p
      BY <1>2, <1>3, <3>1, PeerOf, Zenon
    <3> QED BY <1>3, <3>1, <3>2, <3>3
  <2> QED BY <2>1, NoticedStep, Zenon
<1>9. Unheard'
  <2>1. Heard /\ Block' = Block
    BY <1>1, <1>4, FewerHeard, Zenon DEF Block
  <2>2. ASSUME NEW h \in Hash, IsAnnounced(h)'
        PROVE  /\ h.tx \notin Orphans(orphanage') /\ h \notin rejects'
               /\ h.tx \in pool' => h.tx \in unrelayed' \/ (h.tx \in pool /\ h.tx \notin unrelayed)
    <3>1. IsAnnounced(h)
      BY <1>4, <2>2, Zenon DEF IsAnnounced, Fewer
    <3>2. h.tx \notin Orphans(orphanage) /\ h \notin rejects
      BY <3>1, Zenon DEF IInv, Unheard
    <3> QED BY <1>1, <1>5, <3>2 DEF Shrinks
  <2> QED BY <1>1, <2>1, <2>2, UnheardStep, Zenon
<1>10. Staged'
  BY <1>1, Zenon DEF IInv, Staged, Delivering
<1> QED BY <1>6, <1>7, <1>8, <1>9, <1>10, Zenon DEF IInv

\* The pool changes and no orphan gets ready by it.
LEMMA PoolStep ==
  ASSUME IInv, UNCHANGED <<connected, ann, orphanage, rejects, rejectsTip, recent, stage>>,
         height' \in 0..Len(Blocks), events' \in Seq(Event), Staged',
         stage = "filtered" => Block' = Block,
         pool' \subseteq Tx, unrelayed' \subseteq pool', missed' \subseteq Outpoint,
         \A y \in Tx : Ready(y)' => Ready(y),
         \A x \in pool' : x \in unrelayed' \/ (x \in pool /\ x \notin unrelayed)
  PROVE  IInv'
<1>1. TypeOK' /\ OrphanageOK'
  BY DEF IInv, TypeOK, OrphanageOK
<1>2. GonePeersForgotten'
  BY Zenon DEF IInv, GonePeersForgotten
<1>3. NoOrphanOverlooked'
  <2>1. \A x \in Orphans(orphanage) : x \in Tx
    BY DEF Orphans
  <2> QED BY <2>1, NoticedStep, Zenon
<1>4. Unheard'
  <2>1. Heard
    BY Zenon DEF Heard
  <2>2. ASSUME NEW h \in Hash, IsAnnounced(h)'
        PROVE  /\ h.tx \notin Orphans(orphanage') /\ h \notin rejects'
               /\ h.tx \in pool' => h.tx \in unrelayed' \/ (h.tx \in pool /\ h.tx \notin unrelayed)
    <3>1. IsAnnounced(h)
      BY <2>2, Zenon DEF IsAnnounced
    <3>2. h.tx \notin Orphans(orphanage) /\ h \notin rejects
      BY <3>1, Zenon DEF IInv, Unheard
    <3> QED BY <3>2, Zenon
  <2> QED BY <2>1, <2>2, UnheardStep, Zenon
<1> QED BY <1>1, <1>2, <1>3, <1>4, Zenon DEF IInv

LEMMA BroadcastStep ==
  ASSUME IInv, NEW x \in Tx, BroadcastTransaction(x)
  PROVE  IInv'
<1>1. UNCHANGED <<connected, ann, orphanage, height, rejects, rejectsTip, recent, events, stage>>
  BY Zenon DEF BroadcastTransaction
<1>2. PICK txs \in SUBSET Tx : SetPool(txs, height, FALSE)
  <2>1. Without(Conflicts({x})) \cup {x} \in SUBSET Tx
    BY WithoutSubset DEF IInv, TypeOK
  <2> QED BY <2>1, Zenon DEF BroadcastTransaction
<1>3. /\ pool' \subseteq Tx /\ unrelayed' \subseteq pool' /\ missed' \subseteq Outpoint
      /\ \A y \in Tx : Ready(y)' => Ready(y)
      /\ \A y \in pool' : y \in unrelayed' \/ (y \in pool /\ y \notin unrelayed)
  BY <1>1, <1>2, PoolLater, Zenon DEF IInv
<1>4. height' \in 0..Len(Blocks) /\ events' \in Seq(Event) /\ Staged' /\ Block' = Block
  BY <1>1, Zenon DEF IInv, TypeOK, Staged, Delivering, Block
<1> QED BY <1>1, <1>3, <1>4, PoolStep, Zenon

LEMMA LeaveStep ==
  ASSUME IInv, NEW x \in Tx, LeavePool(x)
  PROVE  IInv'
<1>1. UNCHANGED <<connected, ann, orphanage, height, rejects, rejectsTip, recent, events, stage>>
  BY Zenon DEF LeavePool
<1>2. PICK xs \in SUBSET Tx : xs = {}
  OBVIOUS
<1>3. PICK txs \in SUBSET (pool \cup xs) : SetPool(txs, height, TRUE)
  <2>1. Without({x}) \in SUBSET (pool \cup xs)
    BY WithoutSubset
  <2> QED BY <2>1, Zenon DEF LeavePool
<1>4. /\ pool' \subseteq pool \cup xs /\ pool' \subseteq Tx
      /\ unrelayed' \subseteq pool' /\ missed' \subseteq Outpoint
      /\ unrelayed \cap pool' \subseteq unrelayed'
      /\ \A y \in Tx : Ready(y)' => Ready(y) \/ Inputs[y] \cap xs # {}
  BY <1>1, <1>3, PoolRelayed, Zenon DEF IInv
<1>5. /\ \A y \in Tx : Ready(y)' => Ready(y)
      /\ \A y \in pool' : y \in unrelayed' \/ (y \in pool /\ y \notin unrelayed)
  BY <1>2, <1>4, Zenon
<1>6. height' \in 0..Len(Blocks) /\ events' \in Seq(Event) /\ Staged' /\ Block' = Block
  BY <1>1, Zenon DEF IInv, TypeOK, Staged, Delivering, Block
<1> QED BY <1>1, <1>4, <1>5, <1>6, PoolStep, Zenon

\* An event is queued behind the one that is being delivered.
LEMMA Queued ==
  ASSUME IInv, NEW e \in Event, events' = Append(events, e), stage' = stage
  PROVE  events' \in Seq(Event) /\ Staged' /\ (stage = "filtered" => Block' = Block)
<1>1. events \in Seq(Event) /\ (stage # "none" => Delivering("connected"))
  BY DEF IInv, TypeOK, Staged
<1>2. events' \in Seq(Event) /\ events' # <<>>
      /\ (events # <<>> => Head(events') = Head(events))
  BY <1>1
<1>3. Staged'
  BY <1>1, <1>2 DEF Staged, Delivering
<1>4. stage = "filtered" => Block' = Block
  BY <1>1, <1>2 DEF Delivering, Block
<1> QED BY <1>2, <1>3, <1>4

LEMMA ConnectTipStep ==
  ASSUME IInv, ConnectTip
  PROVE  IInv'
<1>1. /\ UNCHANGED <<connected, ann, orphanage, rejects, rejectsTip, recent, stage>>
      /\ height < Len(Blocks) /\ height' = height + 1
      /\ events' = Append(events, [type |-> "connected", block |-> height + 1])
  BY Zenon DEF ConnectTip
<1>2. height \in 0..Len(Blocks) /\ Len(Blocks) \in Nat /\ DOMAIN Blocks = 1..Len(Blocks)
  BY TxDownloadAssumption DEF IInv, TypeOK
<1>3. height' \in 0..Len(Blocks) /\ [type |-> "connected", block |-> height + 1] \in Event
  BY <1>1, <1>2 DEF Event
<1>4. PICK txs \in SUBSET Tx : SetPool(txs, height + 1, FALSE)
  <2>1. Without(Conflicts(Blocks[height + 1])) \ Blocks[height + 1] \in SUBSET Tx
    BY WithoutSubset DEF IInv, TypeOK
  <2> QED BY <2>1, Zenon DEF ConnectTip
<1>5. /\ pool' \subseteq Tx /\ unrelayed' \subseteq pool' /\ missed' \subseteq Outpoint
      /\ \A y \in Tx : Ready(y)' => Ready(y)
      /\ \A y \in pool' : y \in unrelayed' \/ (y \in pool /\ y \notin unrelayed)
  BY <1>1, <1>4, PoolLater, Zenon DEF IInv
<1>6. events' \in Seq(Event) /\ Staged' /\ (stage = "filtered" => Block' = Block)
  BY <1>1, <1>3, Queued, Zenon
<1> QED BY <1>1, <1>3, <1>5, <1>6, PoolStep, Zenon

LEMMA DisconnectTipStep ==
  ASSUME IInv, DisconnectTip
  PROVE  IInv'
<1>1. /\ UNCHANGED <<connected, ann, orphanage, rejects, rejectsTip, recent, stage>>
      /\ height > 0 /\ height' = height - 1
      /\ events' = Append(events, [type |-> "disconnected", block |-> height])
  BY Zenon DEF DisconnectTip
<1>2. height \in 0..Len(Blocks) /\ Len(Blocks) \in Nat /\ DOMAIN Blocks = 1..Len(Blocks)
  BY TxDownloadAssumption DEF IInv, TypeOK
<1>3. height' \in 0..Len(Blocks) /\ [type |-> "disconnected", block |-> height] \in Event
      /\ height \in DOMAIN Blocks
  BY <1>1, <1>2 DEF Event
<1>4. PICK txs \in SUBSET Tx : SetPool(txs, height - 1, FALSE)
  <2>1. PICK again \in SUBSET Blocks[height] :
          SetPool((pool \cup again) \ WithDescendants(Blocks[height] \ again, pool \cup again),
                  height - 1, FALSE)
    BY Zenon DEF DisconnectTip
  <2>2. Blocks[height] \subseteq Tx
    BY <1>3, TxDownloadAssumption
  <2>3. (pool \cup again) \ WithDescendants(Blocks[height] \ again, pool \cup again) \in SUBSET Tx
    BY <2>2 DEF IInv, TypeOK
  <2> QED BY <2>1, <2>3, Zenon
<1>5. /\ pool' \subseteq Tx /\ unrelayed' \subseteq pool' /\ missed' \subseteq Outpoint
      /\ \A y \in Tx : Ready(y)' => Ready(y)
      /\ \A y \in pool' : y \in unrelayed' \/ (y \in pool /\ y \notin unrelayed)
  BY <1>1, <1>4, PoolLater, Zenon DEF IInv
<1>6. events' \in Seq(Event) /\ Staged' /\ (stage = "filtered" => Block' = Block)
  BY <1>1, <1>3, Queued, Zenon
<1> QED BY <1>1, <1>3, <1>5, <1>6, PoolStep, Zenon

LEMMA BlockType == ASSUME TypeOK, events # <<>> PROVE Block \subseteq Tx
<1>1. Head(events) \in Event
  BY DEF TypeOK
<1> QED BY <1>1, TxDownloadAssumption DEF Event, Block

LEMMA ErasedForBlock ==
  ASSUME NEW o, Good(o), NEW txs \in SUBSET Tx
  PROVE  \E xs \in SUBSET Tx : Reduced(o, EraseForBlock(o, txs), xs)
<1> DEFINE xs == UNION {o.spenders[i] : i \in UNION {Inputs[x] : x \in txs}}
<1>1. \A i \in Outpoint : o.spenders[i] \subseteq Tx
  BY DEF Good, Orphanages
<1>2. UNION {Inputs[x] : x \in txs} \subseteq Outpoint
  BY OrphanageAssumption DEF Outpoint
<1>3. xs \in SUBSET Tx
  BY <1>1, <1>2
<1>4. EraseForBlock(o, txs) = EraseAll(o, xs)
  BY Zenon DEF EraseForBlock
<1> HIDE DEF xs
<1> QED BY <1>3, <1>4, EraseAllReduces, Zenon

LEMMA BlockEraseStep ==
  ASSUME IInv, BlockConnectedErase
  PROVE  IInv'
<1>1. /\ UNCHANGED <<connected, ann, pool, height, rejects, rejectsTip, recent, events, missed,
                     unrelayed>>
      /\ Delivering("connected") /\ stage = "none" /\ stage' = "erased"
      /\ orphanage' = EraseForBlock(orphanage, Block)
  BY Zenon DEF BlockConnectedErase
<1>2. Good(orphanage)
  BY OrphanageGood DEF IInv
<1>3. Block \subseteq Tx
  BY <1>1, BlockType, Zenon DEF IInv, Delivering
<1>4. PICK xs \in SUBSET Tx : Reduced(orphanage, orphanage', xs)
  BY <1>1, <1>2, <1>3, ErasedForBlock, Zenon
<1>5. Shrinks /\ orphanage'.work = orphanage.work
  BY <1>4, ReducedShrinks, Zenon
<1>6. TypeOK' /\ OrphanageOK'
  BY <1>1, <1>5, ShrinksOK DEF IInv, TypeOK
<1>7. GonePeersForgotten'
  <2>1. ASSUME NEW q \in Peer \ connected'
        PROVE  /\ q \notin connected
               /\ \A h \in Hash : ann'[h][q] # "none" => ann[h][q] # "none"
               /\ \A x \in Tx : orphanage'.peer[x] = q => orphanage.peer[x] = q
               /\ orphanage'.work[q] \subseteq orphanage.work[q]
    BY <1>1, <1>5, OrphanageAssumption DEF Shrinks
  <2> QED BY <2>1, GoneStep, Zenon
<1>8. NoOrphanOverlooked'
  <2>1. ASSUME NEW x \in Orphans(orphanage'), Ready(x)'
        PROVE  /\ x \in Orphans(orphanage) /\ orphanage'.peer[x] = orphanage.peer[x]
               /\ Ready(x)
    BY <1>1, <1>5, <2>1, ReadySame DEF Shrinks
  <2> QED BY <1>5, <2>1, NoticedStep, Zenon
<1>9. Unheard'
  <2> SUFFICES ASSUME NEW h \in Hash, IsAnnounced(h)'
               PROVE  /\ h.tx \notin Orphans(orphanage') /\ h \notin rejects'
                      /\ h.tx \notin recent' /\ (h.tx \in pool' => h.tx \in unrelayed')
    BY Zenon DEF Unheard
  <2>1. IsAnnounced(h)
    BY <1>1, Zenon DEF IsAnnounced
  <2>2. /\ h.tx \notin Orphans(orphanage) /\ h \notin rejects
        /\ h.tx \in recent => stage = "filtered"
        /\ h.tx \in pool => h.tx \in unrelayed
    BY <2>1, Zenon DEF IInv, Unheard
  <2> QED BY <1>1, <1>5, <2>2 DEF Shrinks
<1>10. Staged'
  BY <1>1, Zenon DEF Staged, Delivering
<1> QED BY <1>6, <1>7, <1>8, <1>9, <1>10, Zenon DEF IInv

LEMMA BlockFilterStep ==
  ASSUME IInv, BlockConnectedFilter
  PROVE  IInv'
<1>1. /\ UNCHANGED <<connected, ann, orphanage, pool, height, rejects, rejectsTip, events, missed,
                     unrelayed>>
      /\ Delivering("connected") /\ stage = "erased" /\ stage' = "filtered"
      /\ recent' = recent \cup Block
  BY Zenon DEF BlockConnectedFilter
<1>2. Block \subseteq Tx
  BY <1>1, BlockType, Zenon DEF IInv, Delivering
<1>3. TypeOK' /\ OrphanageOK'
  BY <1>1, <1>2 DEF IInv, TypeOK, OrphanageOK
<1>4. GonePeersForgotten' /\ NoOrphanOverlooked'
  BY <1>1, Zenon DEF IInv, GonePeersForgotten, NoOrphanOverlooked, InputsAvailable, Available
<1>5. Unheard'
  <2> SUFFICES ASSUME NEW h \in Hash, IsAnnounced(h)'
               PROVE  /\ h.tx \notin Orphans(orphanage') /\ h \notin rejects'
                      /\ h.tx \in recent' => h.tx \in Block'
                      /\ h.tx \in pool' => h.tx \in unrelayed'
    BY <1>1, Zenon DEF Unheard
  <2>1. IsAnnounced(h) /\ Block' = Block
    BY <1>1, Zenon DEF IsAnnounced, Block
  <2>2. /\ h.tx \notin Orphans(orphanage) /\ h \notin rejects
        /\ h.tx \in recent => stage = "filtered"
        /\ h.tx \in pool => h.tx \in unrelayed
    BY <2>1, Zenon DEF IInv, Unheard
  <2> QED BY <1>1, <2>1, <2>2
<1>6. Staged'
  BY <1>1, Zenon DEF Staged, Delivering
<1> QED BY <1>3, <1>4, <1>5, <1>6, Zenon DEF IInv

LEMMA BlockForgetStep ==
  ASSUME IInv, BlockConnectedForget
  PROVE  IInv'
<1> DEFINE hs == UNION {Hashes(x) : x \in Block}
<1>1. /\ UNCHANGED <<connected, orphanage, pool, height, rejects, rejectsTip, recent, missed, unrelayed>>
      /\ Delivering("connected") /\ stage = "filtered" /\ stage' = "none"
      /\ ann' = ForgetTxHashes(ann, hs) /\ events' = Tail(events)
  BY Zenon DEF BlockConnectedForget
<1>2. Block \subseteq Tx
  BY <1>1, BlockType, Zenon DEF IInv, Delivering
<1>3. hs \in SUBSET Hash /\ \A h \in Hash : h.tx \in Block => h \in hs
  BY <1>2, HashType
<1> HIDE DEF hs
<1>4. Forgets(ann, ann', hs)
  BY <1>1, <1>3, AnnsType, Forgotten, Zenon DEF IInv
<1>5. TypeOK' /\ OrphanageOK'
  <2>1. events' \in Seq(Event)
    BY <1>1 DEF IInv, TypeOK, Delivering
  <2> QED BY <1>1, <1>4, <2>1 DEF IInv, TypeOK, OrphanageOK, Forgets, Fewer, Anns
<1>6. GonePeersForgotten' /\ NoOrphanOverlooked'
  <2>1. \A q \in Peer \ connected' :
          q \notin connected /\ \A h \in Hash : ann'[h][q] # "none" => ann[h][q] # "none"
    BY <1>1, <1>4 DEF Forgets, Fewer
  <2>2. GonePeersForgotten'
    BY <1>1, <2>1, GoneStep
  <2>3. NoOrphanOverlooked'
    BY <1>1, Zenon DEF IInv, NoOrphanOverlooked, InputsAvailable, Available
  <2> QED BY <2>2, <2>3
<1>7. Unheard'
  <2> SUFFICES ASSUME NEW h \in Hash, IsAnnounced(h)'
               PROVE  /\ h.tx \notin Orphans(orphanage') /\ h \notin rejects'
                      /\ h.tx \notin recent' /\ (h.tx \in pool' => h.tx \in unrelayed')
    BY Zenon DEF Unheard
  <2>1. IsAnnounced(h) /\ h \notin hs
    BY <1>4, Zenon DEF IsAnnounced, Forgets, Fewer
  <2>2. /\ h.tx \notin Orphans(orphanage) /\ h \notin rejects
        /\ h.tx \in recent => h.tx \in Block
        /\ h.tx \in pool => h.tx \in unrelayed
    BY <2>1, Zenon DEF IInv, Unheard
  <2> QED BY <1>1, <1>3, <2>1, <2>2, Zenon
<1>8. Staged'
  BY <1>1, Zenon DEF Staged
<1> QED BY <1>5, <1>6, <1>7, <1>8, Zenon DEF IInv

LEMMA BlockDisconnectedStep ==
  ASSUME IInv, BlockDisconnected
  PROVE  IInv'
<1>1. /\ UNCHANGED <<connected, ann, orphanage, pool, height, rejects, rejectsTip, stage, missed,
                     unrelayed>>
      /\ Delivering("disconnected") /\ recent' = {} /\ events' = Tail(events)
  BY Zenon DEF BlockDisconnected
<1>2. stage = "none"
  BY <1>1 DEF IInv, Staged, Delivering
<1>3. TypeOK' /\ OrphanageOK'
  <2>1. events' \in Seq(Event)
    BY <1>1 DEF IInv, TypeOK, Delivering
  <2> QED BY <1>1, <2>1 DEF IInv, TypeOK, OrphanageOK
<1>4. GonePeersForgotten' /\ NoOrphanOverlooked'
  BY <1>1, Zenon DEF IInv, GonePeersForgotten, NoOrphanOverlooked, InputsAvailable, Available
<1>5. Unheard'
  <2> SUFFICES ASSUME NEW h \in Hash, IsAnnounced(h)'
               PROVE  /\ h.tx \notin Orphans(orphanage') /\ h \notin rejects'
                      /\ h.tx \notin recent' /\ (h.tx \in pool' => h.tx \in unrelayed')
    BY Zenon DEF Unheard
  <2>1. IsAnnounced(h)
    BY <1>1, Zenon DEF IsAnnounced
  <2>2. /\ h.tx \notin Orphans(orphanage) /\ h \notin rejects
        /\ h.tx \in pool => h.tx \in unrelayed
    BY <2>1, Zenon DEF IInv, Unheard
  <2> QED BY <1>1, <2>2
<1>6. Staged'
  BY <1>1, <1>2, Zenon DEF Staged
<1> QED BY <1>3, <1>4, <1>5, <1>6, Zenon DEF IInv

\* The pool after the acceptance of a transaction that was relayed.
LEMMA AcceptedPool ==
  ASSUME TypeOK, NEW x \in Tx, SetPool(Without(Conflicts({x})) \cup {x}, height, TRUE),
         height' = height
  PROVE  /\ pool' \subseteq pool \cup {x} /\ pool' \subseteq Tx
         /\ unrelayed' \subseteq pool' /\ missed' \subseteq Outpoint
         /\ unrelayed \cap pool' \subseteq unrelayed'
         /\ \A y \in Tx : Ready(y)' => Ready(y) \/ x \in Inputs[y]
<1>1. PICK xs \in SUBSET Tx : xs = {x}
  OBVIOUS
<1>2. PICK txs \in SUBSET (pool \cup xs) : SetPool(txs, height, TRUE)
  <2>1. Without(Conflicts({x})) \cup {x} \in SUBSET (pool \cup xs)
    BY <1>1, WithoutSubset
  <2> QED BY <2>1, Zenon
<1>3. /\ pool' \subseteq pool \cup xs /\ pool' \subseteq Tx
      /\ unrelayed' \subseteq pool' /\ missed' \subseteq Outpoint
      /\ unrelayed \cap pool' \subseteq unrelayed'
      /\ \A y \in Tx : Ready(y)' => Ready(y) \/ Inputs[y] \cap xs # {}
  BY <1>2, PoolRelayed, Zenon
<1> QED BY <1>1, <1>3

LEMMA TxAcceptedStep ==
  ASSUME IInv, NEW p \in Peer, NEW x \in Tx, TxAccepted(p, x)
  PROVE  IInv'
<1>1. /\ UNCHANGED <<connected, height, recent, events, stage>>
      /\ SetPool(Without(Conflicts({x})) \cup {x}, height, TRUE)
      /\ ann' = ForgetTxHashes(Responded(p, x), Hashes(x))
      /\ orphanage' = AddChildrenToWorkSet(orphanage, x)
      /\ SetRejects(Rejects)
  BY Zenon DEF TxAccepted
<1>2. Good(orphanage)
  BY OrphanageGood DEF IInv
<1>3. /\ pool' \subseteq pool \cup {x} /\ pool' \subseteq Tx
      /\ unrelayed' \subseteq pool' /\ missed' \subseteq Outpoint
      /\ unrelayed \cap pool' \subseteq unrelayed'
      /\ \A y \in Tx : Ready(y)' => Ready(y) \/ x \in Inputs[y]
  BY <1>1, AcceptedPool, Zenon DEF IInv
<1>4. Hashes(x) \in SUBSET Hash /\ \A h \in Hash : h.tx = x => h \in Hashes(x)
  BY HashType, Zenon
<1>5. Forgets(ann, ann', Hashes(x))
  BY <1>1, <1>4, AnsweredForgotten, Zenon DEF IInv
<1>6. PutToWork(orphanage, orphanage', x)
  BY <1>1, <1>2, ChildrenWork, Zenon
<1>7. Good(orphanage') /\ Orphans(orphanage') = Orphans(orphanage)
      /\ orphanage'.peer = orphanage.peer /\ orphanage'.list = orphanage.list
  BY <1>6, Zenon DEF PutToWork, Reworked
<1>8. rejects' \subseteq rejects /\ rejectsTip' \in 0..Len(Blocks)
  BY <1>1, RejectsSubset DEF IInv, TypeOK, SetRejects
<1>9. TypeOK' /\ OrphanageOK'
  BY <1>1, <1>3, <1>5, <1>7, <1>8 DEF IInv, TypeOK, OrphanageOK, Good, Forgets, Fewer, Anns
<1>10. GonePeersForgotten'
  <2> SUFFICES ASSUME NEW q \in Peer \ connected
               PROVE  /\ \A h \in Hash : ann'[h][q] = "none"
                      /\ \A y \in Tx : orphanage'.peer[y] # q
                      /\ orphanage'.work[q] = {}
    BY <1>1, Zenon DEF GonePeersForgotten
  <2>1. /\ \A h \in Hash : ann[h][q] = "none"
        /\ \A y \in Tx : orphanage.peer[y] # q
        /\ orphanage.work[q] = {}
    BY Zenon DEF IInv, GonePeersForgotten
  <2>2. \A h \in Hash : ann'[h][q] = "none"
    BY <1>5, <2>1, Zenon DEF Forgets, Fewer
  <2>3. orphanage'.work[q] \subseteq Tx
    BY <1>7 DEF Good, Orphanages
  <2>4. \A y \in Tx : y \notin orphanage'.work[q]
    BY <1>6, <2>1 DEF PutToWork
  <2> QED BY <1>7, <2>1, <2>2, <2>3, <2>4
<1>11. NoOrphanOverlooked'
  <2>1. ASSUME NEW y \in Orphans(orphanage'), Ready(y)'
        PROVE  /\ y \in Orphans(orphanage) /\ orphanage'.peer[y] = orphanage.peer[y]
               /\ \/ y \in orphanage'.work[orphanage.peer[y]]
                  \/ /\ Ready(y)
                     /\ y \in orphanage.work[orphanage.peer[y]] =>
                          y \in orphanage'.work[orphanage.peer[y]]
    <3>1. y \in Orphans(orphanage) /\ y \in Tx /\ orphanage.peer[y] \in Peer
      BY <1>2, <1>7, PeerOf, Zenon
    <3>2. Ready(y) \/ y \in Children(orphanage, x)
      BY <1>3, <2>1, <3>1, Zenon DEF Children
    <3> QED BY <1>6, <1>7, <3>1, <3>2, Zenon DEF PutToWork
  <2> QED BY <2>1, NoticedStep, Zenon
<1>12. Unheard'
  <2>1. Heard /\ Block' = Block
    BY <1>1, <1>5, FewerHeard, Zenon DEF Block, Forgets
  <2>2. ASSUME NEW h \in Hash, IsAnnounced(h)'
        PROVE  /\ h.tx \notin Orphans(orphanage') /\ h \notin rejects'
               /\ h.tx \in pool' => h.tx \in unrelayed' \/ (h.tx \in pool /\ h.tx \notin unrelayed)
    <3>1. IsAnnounced(h) /\ h.tx # x
      BY <1>4, <1>5, <2>2, Zenon DEF IsAnnounced, Forgets, Fewer
    <3>2. h.tx \notin Orphans(orphanage) /\ h \notin rejects
      BY <3>1, Zenon DEF IInv, Unheard
    <3> QED BY <1>3, <1>7, <1>8, <3>1, <3>2
  <2> QED BY <1>1, <2>1, <2>2, UnheardStep, Zenon
<1>13. Staged'
  BY <1>1, Zenon DEF IInv, Staged, Delivering
<1> QED BY <1>9, <1>10, <1>11, <1>12, <1>13, Zenon DEF IInv

LEMMA OrphanAcceptedStep ==
  ASSUME IInv, NEW p \in Peer, NEW x \in Tx, OrphanAccepted(p, x)
  PROVE  IInv'
<1>1. /\ UNCHANGED <<connected, ann, height, rejects, rejectsTip, recent, events, stage>>
      /\ SetPool(Without(Conflicts({x})) \cup {x}, height, TRUE)
      /\ x \in Orphans(orphanage)
  BY Zenon DEF OrphanAccepted, Orphans
<1>2. PICK dropped \in SUBSET (Droppable(p) \ {x}) :
         orphanage' = EraseTx(AddChildrenToWorkSet(Taken(orphanage, p, dropped \cup {x}), x), x)
  BY Zenon DEF OrphanAccepted
<1>3. Good(orphanage)
  BY OrphanageGood DEF IInv
<1>4. PICK o : o = Taken(orphanage, p, dropped \cup {x})
  OBVIOUS
<1>5. PICK o2 : o2 = AddChildrenToWorkSet(o, x)
  OBVIOUS
<1>6. TakenFrom(orphanage, o, p, dropped \cup {x})
  BY <1>3, <1>4, TakenWork, Zenon
<1>7. Good(o) /\ PutToWork(o, o2, x)
  BY <1>5, <1>6, ChildrenWork, Zenon DEF TakenFrom, Reworked
<1>8. Reduced(o2, orphanage', {x})
  BY <1>2, <1>4, <1>5, <1>7, EraseOne, Zenon DEF PutToWork, Reworked
<1>9. /\ Orphans(o) = Orphans(orphanage) /\ o.peer = orphanage.peer /\ o.list = orphanage.list
      /\ Orphans(o2) = Orphans(orphanage) /\ o2.peer = orphanage.peer /\ o2.list = orphanage.list
  BY <1>6, <1>7 DEF TakenFrom, PutToWork, Reworked
<1>10. Shrinks /\ orphanage'.work = o2.work /\ Orphans(orphanage') = Orphans(orphanage) \ {x}
  <2>1. \A y \in Orphans(orphanage) : y \in Tx
    BY DEF Orphans
  <2> QED BY <1>8, <1>9, <2>1 DEF Reduced, Shrinks
<1>11. /\ pool' \subseteq pool \cup {x} /\ pool' \subseteq Tx
       /\ unrelayed' \subseteq pool' /\ missed' \subseteq Outpoint
       /\ unrelayed \cap pool' \subseteq unrelayed'
       /\ \A y \in Tx : Ready(y)' => Ready(y) \/ x \in Inputs[y]
  BY <1>1, AcceptedPool, Zenon DEF IInv
<1>12. TypeOK' /\ OrphanageOK'
  BY <1>1, <1>10, <1>11, ShrinksOK DEF IInv, TypeOK
<1>13. GonePeersForgotten'
  <2> SUFFICES ASSUME NEW q \in Peer \ connected
               PROVE  /\ \A h \in Hash : ann'[h][q] = "none"
                      /\ \A y \in Tx : orphanage'.peer[y] # q
                      /\ orphanage'.work[q] = {}
    BY <1>1, Zenon DEF GonePeersForgotten
  <2>1. /\ \A h \in Hash : ann[h][q] = "none"
        /\ \A y \in Tx : orphanage.peer[y] # q
        /\ orphanage.work[q] = {}
    BY Zenon DEF IInv, GonePeersForgotten
  <2>2. \A y \in Tx : orphanage'.peer[y] # q
    BY <1>10, <2>1, OrphanageAssumption DEF Shrinks
  <2>3. orphanage'.work[q] \subseteq Tx
    BY <1>10 DEF Shrinks, Good, Orphanages
  <2>4. \A y \in Tx : y \notin o.work[q]
    BY <1>6, <2>1 DEF TakenFrom
  <2>5. \A y \in Tx : y \notin o2.work[q]
    BY <1>7, <1>9, <2>1, <2>4 DEF PutToWork
  <2> QED BY <1>1, <1>10, <2>1, <2>2, <2>3, <2>5
<1>14. NoOrphanOverlooked'
  <2>1. ASSUME NEW y \in Orphans(orphanage'), Ready(y)'
        PROVE  /\ y \in Orphans(orphanage) /\ orphanage'.peer[y] = orphanage.peer[y]
               /\ \/ y \in orphanage'.work[orphanage.peer[y]]
                  \/ /\ Ready(y)
                     /\ y \in orphanage.work[orphanage.peer[y]] =>
                          y \in orphanage'.work[orphanage.peer[y]]
    <3>1. y \in Orphans(orphanage) /\ orphanage'.peer[y] = orphanage.peer[y] /\ y # x
      BY <1>10 DEF Shrinks
    <3>2. y \in Tx /\ orphanage.peer[y] \in Peer
      BY <1>3, <3>1, PeerOf, Zenon
    <3>3. CASE Ready(y)
      <4>1. y \notin Droppable(p)
        BY <3>1, <3>2, <3>3, Missing, Zenon DEF Droppable, Ready, Orphans
      <4>2. y \notin dropped \cup {x}
        BY <3>1, <4>1
      <4>3. y \in orphanage.work[orphanage.peer[y]] => y \in o.work[orphanage.peer[y]]
        BY <1>6, <3>2, <4>2, Zenon DEF TakenFrom
      <4>4. y \in o.work[orphanage.peer[y]] => y \in o2.work[orphanage.peer[y]]
        BY <1>7, <3>2, Zenon DEF PutToWork
      <4> QED BY <1>10, <3>1, <3>3, <4>3, <4>4, Zenon
    <3>4. CASE x \in Inputs[y]
      <4>1. y \in Children(o, x) /\ o.peer[y] = orphanage.peer[y]
        BY <1>9, <3>1, <3>4, Zenon DEF Children
      <4>2. y \in o2.work[orphanage.peer[y]]
        BY <1>7, <3>2, <4>1, Zenon DEF PutToWork
      <4> QED BY <1>10, <3>1, <4>2, Zenon
    <3> QED BY <1>11, <2>1, <3>2, <3>3, <3>4, Zenon
  <2> QED BY <2>1, NoticedStep, Zenon
<1>15. Unheard'
  <2>1. Heard /\ Block' = Block
    BY <1>1, Zenon DEF Block, Heard
  <2>2. ASSUME NEW h \in Hash, IsAnnounced(h)'
        PROVE  /\ h.tx \notin Orphans(orphanage') /\ h \notin rejects'
               /\ h.tx \in pool' => h.tx \in unrelayed' \/ (h.tx \in pool /\ h.tx \notin unrelayed)
    <3>1. IsAnnounced(h)
      BY <1>1, <2>2, Zenon DEF IsAnnounced
    <3>2. h.tx \notin Orphans(orphanage) /\ h \notin rejects
      BY <3>1, Zenon DEF IInv, Unheard
    <3>3. h.tx # x
      BY <1>1, <3>2
    <3> QED BY <1>1, <1>10, <1>11, <3>2, <3>3
  <2> QED BY <1>1, <2>1, <2>2, UnheardStep, Zenon
<1>16. Staged'
  BY <1>1, Zenon DEF IInv, Staged, Delivering
<1> QED BY <1>12, <1>13, <1>14, <1>15, <1>16, Zenon DEF IInv

LEMMA TxOrphanedStep ==
  ASSUME IInv, NEW p \in Peer, NEW x \in Tx, TxOrphaned(p, x)
  PROVE  IInv'
<1>1. /\ UNCHANGED <<connected, pool, height, recent, events, stage, missed, unrelayed>>
      /\ p \in connected /\ "MISSING" \in Verdicts(x)
      /\ ann' = ForgetTxHashes(AnnounceParents(Responded(p, x), p, Inputs[x]), Hashes(x))
      /\ SetRejects(Rejects)
  BY Zenon DEF TxOrphaned, MessageFrom
<1>2. PICK o : o = AddTx(orphanage, x, p)
  OBVIOUS
<1>3. PICK expired \in SUBSET Orphans(o) : orphanage' \in LimitOrphans(o, expired)
  BY <1>2, Zenon DEF TxOrphaned
<1>4. Good(orphanage)
  BY OrphanageGood DEF IInv
<1>5. /\ Good(o) /\ o.work = orphanage.work
      /\ Orphans(o) \subseteq Orphans(orphanage) \cup {x}
      /\ \A y \in Tx : o.peer[y] = orphanage.peer[y] \/ (y = x /\ o.peer[y] = p)
  BY <1>2, <1>4, Added, Zenon
<1>6. expired \in SUBSET Tx
  BY DEF Orphans
<1>7. (\E xs \in SUBSET Tx : Reduced(o, orphanage', xs)) /\ Len(orphanage'.list) <= MaxOrphans
  BY <1>3, <1>5, <1>6, Limited, Zenon
<1>8. PICK xs \in SUBSET Tx : Reduced(o, orphanage', xs)
  BY <1>7, Zenon
<1>9. /\ Good(orphanage') /\ orphanage'.work = orphanage.work
      /\ \A y \in Orphans(orphanage') : y \in Tx /\ (y # x => y \in Orphans(orphanage)
                                                     /\ orphanage'.peer[y] = orphanage.peer[y])
      /\ \A y \in Tx : orphanage'.peer[y] \in {0, p, orphanage.peer[y]}
  <2>1. \A y \in Orphans(orphanage') : y \in Tx
    BY DEF Orphans
  <2> QED BY <1>5, <1>8, <2>1 DEF Reduced
<1>10. PICK r : r = Responded(p, x)
  OBVIOUS
<1>11. PICK a : a = AnnounceParents(r, p, Inputs[x])
  OBVIOUS
<1>12. Fewer(ann, r) /\ r \in Anns
  BY <1>10, RespondedFewer, Zenon DEF IInv
<1>13. Grown(r, a, p, Lacking)
  BY <1>11, <1>12, ParentsAnnounced, Zenon
<1>14. Hashes(x) \in SUBSET Hash /\ \A h \in Hash : h.tx = x => h \in Hashes(x)
  BY HashType, Zenon
<1>15. Forgets(a, ann', Hashes(x))
  BY <1>1, <1>10, <1>11, <1>13, <1>14, Forgotten, Zenon DEF Grown
<1>16. \A h \in Hash, q \in Peer : ann'[h][q] # "none" =>
          (ann[h][q] # "none" \/ (q = p /\ h \in Lacking)) /\ h.tx # x
  BY <1>12, <1>13, <1>14, <1>15, Zenon DEF Fewer, Grown, Forgets
<1>17. rejects' = Rejects /\ rejects' \subseteq rejects /\ rejectsTip' \in 0..Len(Blocks)
  BY <1>1, RejectsSubset DEF IInv, TypeOK, SetRejects
<1>18. TypeOK' /\ OrphanageOK'
  <2>1. ann' \in Anns
    BY <1>15, Zenon DEF Forgets, Fewer
  <2> QED BY <1>1, <1>7, <1>9, <1>17, <2>1 DEF IInv, TypeOK, OrphanageOK, Good, Anns
<1>19. GonePeersForgotten'
  <2>1. ASSUME NEW q \in Peer \ connected'
        PROVE  /\ q \notin connected
               /\ \A h \in Hash : ann'[h][q] # "none" => ann[h][q] # "none"
               /\ \A y \in Tx : orphanage'.peer[y] = q => orphanage.peer[y] = q
               /\ orphanage'.work[q] \subseteq orphanage.work[q]
    <3>1. q \notin connected /\ q # p /\ q # 0
      BY <1>1, OrphanageAssumption
    <3> QED BY <1>9, <1>16, <3>1
  <2> QED BY <2>1, GoneStep, Zenon
<1>20. NoOrphanOverlooked'
  <2>1. ASSUME NEW y \in Orphans(orphanage'), Ready(y)'
        PROVE  /\ y \in Orphans(orphanage) /\ orphanage'.peer[y] = orphanage.peer[y]
               /\ Ready(y)
    <3>1. Ready(y)
      BY <1>1, <2>1, ReadySame, Zenon
    <3>2. y # x
      BY <1>1, <3>1, Missing, Zenon DEF Ready
    <3> QED BY <1>9, <3>1, <3>2, Zenon
  <2> QED BY <1>9, <2>1, NoticedStep, Zenon
<1>21. Unheard'
  <2>1. Heard /\ Block' = Block
    BY <1>1, <1>16, Zenon DEF Block, Heard
  <2>2. ASSUME NEW h \in Hash, IsAnnounced(h)'
        PROVE  /\ h.tx \notin Orphans(orphanage') /\ h \notin rejects'
               /\ h.tx \in pool' => h.tx \in unrelayed' \/ (h.tx \in pool /\ h.tx \notin unrelayed)
    <3>1. (IsAnnounced(h) \/ h \in Lacking) /\ h.tx # x
      BY <1>16, <2>2, Zenon DEF IsAnnounced
    <3>2. h.tx \notin Orphans(orphanage) /\ h \notin Rejects
      <4>1. CASE IsAnnounced(h)
        <5>1. h.tx \notin Orphans(orphanage) /\ h \notin rejects
          BY <4>1, Zenon DEF IInv, Unheard
        <5> QED BY <5>1, RejectsSubset
      <4>2. CASE h \in Lacking
        <5>1. ~AlreadyHave(h)
          BY <4>2 DEF Lacking
        <5> QED BY <5>1, NotHad, Zenon DEF IInv
      <4> QED BY <3>1, <4>1, <4>2
    <3> QED BY <1>1, <1>9, <1>17, <3>1, <3>2
  <2> QED BY <1>1, <2>1, <2>2, UnheardStep, Zenon
<1>22. Staged'
  BY <1>1, Zenon DEF IInv, Staged, Delivering
<1> QED BY <1>18, <1>19, <1>20, <1>21, <1>22, Zenon DEF IInv

LEMMA StepInv == IInv /\ [Next]_vars => IInv'
<1> SUFFICES ASSUME IInv, [Next]_vars PROVE IInv'
  OBVIOUS
<1>1. ASSUME NEW p \in Peer,
             InitializeNode(p) \/ FinalizeNode(p) \/ SendMessages(p) \/ OrphansDropped(p)
      PROVE  IInv'
  BY <1>1, InitializeStep, FinalizeStep, SendStep, DroppedStep, Zenon
<1>2. ASSUME NEW p \in Peer, NEW h \in Hash, Inv(p, h) \/ NotFound(p, h)
      PROVE  IInv'
  BY <1>2, InvStep, NotFoundStep, Zenon
<1>3. ASSUME NEW p \in Peer, NEW x \in Tx,
             \/ TxKnown(p, x) \/ TxAccepted(p, x) \/ TxOrphaned(p, x)
             \/ TxParentRejected(p, x) \/ TxRejected(p, x)
      PROVE  IInv'
  BY <1>3, TxKnownStep, TxAcceptedStep, TxOrphanedStep, TxParentRejectedStep, TxRejectedStep, Zenon
<1>4. ASSUME NEW p \in Peer, NEW x \in Tx, OrphanAccepted(p, x) \/ OrphanRejected(p, x)
      PROVE  IInv'
  BY <1>4, OrphanAcceptedStep, OrphanRejectedStep, Zenon
<1>5. ASSUME ConnectTip \/ DisconnectTip \/ \E x \in Tx : BroadcastTransaction(x) \/ LeavePool(x)
      PROVE  IInv'
  BY <1>5, ConnectTipStep, DisconnectTipStep, BroadcastStep, LeaveStep, Zenon
<1>6. ASSUME BlockConnectedErase \/ BlockConnectedFilter \/ BlockConnectedForget \/ BlockDisconnected
      PROVE  IInv'
  BY <1>6, BlockEraseStep, BlockFilterStep, BlockForgetStep, BlockDisconnectedStep, Zenon
<1>7. CASE UNCHANGED vars
  <2>1. UNCHANGED <<connected, ann, orphanage, pool, height, rejects, rejectsTip, recent, events, stage,
                    missed, unrelayed>>
    BY <1>7, Zenon DEF vars
  <2>2. Fewer(ann, ann')
    BY <2>1, AnnsType, Zenon DEF IInv, Fewer
  <2>3. rejects' \subseteq rejects /\ rejectsTip' \in 0..Len(Blocks)
    BY <2>1 DEF IInv, TypeOK
  <2> QED BY <2>1, <2>2, <2>3, FewerStep, Zenon
<1> QED BY <1>1, <1>2, <1>3, <1>4, <1>5, <1>6, <1>7, Zenon DEF Next

LEMMA Invariance == Spec => []IInv
<1>1. Init => IInv
  BY InitInv
<1>2. IInv /\ [Next]_vars => IInv'
  BY StepInv
<1> QED BY <1>1, <1>2, PTL DEF Spec

\* The types of the state of transaction download.
THEOREM TypeCorrect == Spec => []TypeOK
<1>1. IInv => TypeOK
  BY Zenon DEF IInv
<1> QED BY <1>1, Invariance, PTL

\* Nothing is kept for a peer that has left, in the tracker or the orphanage
\* (FinalizeNode), however long the handlers and the scheduler thread went on.
THEOREM GonePeersCorrect == Spec => []GonePeersForgotten
<1>1. IInv => GonePeersForgotten
  BY Zenon DEF IInv
<1> QED BY <1>1, Invariance, PTL

\* The indexes of TxOrphanage agree and it keeps to -maxorphantx.
THEOREM OrphanageCorrect == Spec => []OrphanageOK
<1>1. IInv => OrphanageOK
  BY Zenon DEF IInv
<1> QED BY <1>1, Invariance, PTL

\* ProcessOrphanTx gets to see every orphan whose inputs have arrived by relay.
THEOREM NoOrphanOverlookedCorrect == Spec => []NoOrphanOverlooked
<1>1. IInv => NoOrphanOverlooked
  BY Zenon DEF IInv
<1> QED BY <1>1, Invariance, PTL

\* What is announced is wanted: the tracker has been told of every transaction
\* the node has, unless it came in other ways than by relay or in a block whose
\* event is still to be delivered.
THEOREM AnnouncedIsWantedCorrect == Spec => []AnnouncedIsWanted
<1>1. IInv => AnnouncedIsWanted
  <2> SUFFICES ASSUME IInv, NEW h \in Hash, IsAnnounced(h), AlreadyHave(h)
               PROVE  h.tx \in unrelayed \/ h.tx \in PendingBlocks
    BY Zenon DEF AnnouncedIsWanted, IsAnnounced
  <2>1. /\ h.tx \notin Orphans(orphanage) /\ h \notin rejects
        /\ h.tx \in recent => stage = "filtered" /\ h.tx \in Block
        /\ h.tx \in pool => h.tx \in unrelayed
    BY Zenon DEF IInv, Unheard
  <2>2. CASE h.tx \in recent
    <3>1. Delivering("connected") /\ h.tx \in Block
      BY <2>1, <2>2 DEF IInv, Staged
    <3>2. 1 \in DOMAIN events /\ events[1] = Head(events)
      BY <3>1 DEF Delivering, IInv, TypeOK
    <3> QED BY <3>1, <3>2 DEF Delivering, Block, PendingBlocks
  <2>3. CASE h.tx \in pool
    BY <2>1, <2>3
  <2>4. CASE h.tx # Base /\ HaveTx(orphanage, h.tx, h.wtxid)
    <3>1. h.tx \in Tx /\ orphanage.wtxids = Orphans(orphanage)
      BY <2>4, HashType DEF Outpoint, IInv, OrphanageOK, IndexesAgree
    <3>2. h.tx \in Orphans(orphanage)
      BY <2>4, <3>1 DEF HaveTx, Orphans
    <3> QED BY <2>1, <3>2
  <2>5. CASE h \in Rejects
    BY <2>1, <2>5, RejectsSubset
  <2> QED BY <2>2, <2>3, <2>4, <2>5, Zenon DEF AlreadyHave
<1> QED BY <1>1, Invariance, PTL

=============================================================================
