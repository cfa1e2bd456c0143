------------------------- MODULE CoinsReplayProofs -------------------------
(***************************************************************************)
(* Proofs about CoinsReplay, for any tree of blocks, any transactions that *)
(* are valid in it and any number of crashes.                              *)
(*                                                                         *)
(* A block decides the coins it touches, whatever they were before, and    *)
(* leaves the others alone; undoing it likewise.  So rolling back and      *)
(* forward keeps every coin either at the value it is meant to get or at   *)
(* the value it has at the block reached (Between), and at the end the two *)
(* are the same.                                                           *)
(***************************************************************************)
EXTENDS CoinsReplay, WellFoundedInduction, TLAPS

-----------------------------------------------------------------------------
\* Recursion along a tree, and along an interval of numbers.

\* N is a tree with root r, and Up leads from a node to its parent.
Tree(N, r, Up) ==
  /\ r \in N /\ Up \in [N \ {r} -> N]
  /\ \A T \in SUBSET N :
       r \in T /\ (\A n \in N \ {r} : Up[n] \in T => n \in T) => T = N

\* f is x at the root, and F makes its value at a node of that at the parent.
Solves(f, N, r, Up, S, x, F) ==
  /\ f \in [N -> S]
  /\ f[r] = x
  /\ \A n \in N \ {r} : f[n] = F[n][f[Up[n]]]

\* A function given at the root of a tree and, below it, by its value at the
\* parent exists: the least relation with these pairs is one.
LEMMA Recursion ==
  ASSUME NEW N, NEW r, NEW Up, Tree(N, r, Up),
         NEW S, NEW x \in S, NEW F \in [N \ {r} -> [S -> S]]
  PROVE  \E f : Solves(f, N, r, Up, S, x, F)
<1> USE DEF Tree
<1> DEFINE Closed(R) ==
             /\ <<r, x>> \in R
             /\ \A n \in N \ {r} : \A s \in S :
                  <<Up[n], s>> \in R => <<n, F[n][s]>> \in R
           Least == {p \in N \X S : \A R \in SUBSET (N \X S) : Closed(R) => p \in R}
           One(n) == \E s \in S : /\ <<n, s>> \in Least
                                  /\ \A t \in S : <<n, t>> \in Least => t = s
           T == {n \in N : One(n)}
<1>1. Least \in SUBSET (N \X S) /\ Closed(Least)
  <2>1. <<r, x>> \in Least
    BY Zenon
  <2>2. ASSUME NEW n \in N \ {r}, NEW s \in S, <<Up[n], s>> \in Least
        PROVE  <<n, F[n][s]>> \in Least
    <3>1. n \in N /\ F[n][s] \in S
      OBVIOUS
    <3>2. ASSUME NEW R \in SUBSET (N \X S), Closed(R) PROVE <<n, F[n][s]>> \in R
      BY <2>2, <3>2, Zenon
    <3> QED BY <3>1, <3>2, Zenon
  <2> QED BY <2>1, <2>2, Zenon
<1>2. \A R \in SUBSET (N \X S) : Closed(R) => Least \subseteq R
  BY Zenon
<1>3. One(r)
  <2>1. ASSUME NEW t \in S, <<r, t>> \in Least, t # x PROVE FALSE
    <3> DEFINE R == Least \ {<<r, t>>}
    <3>1. R \in SUBSET (N \X S)
      BY <1>1, Zenon
    <3>2. <<r, x>> \in R
      BY <2>1, <1>1
    <3>3. \A n \in N \ {r} : \A s \in S : <<Up[n], s>> \in R => <<n, F[n][s]>> \in R
      <4> HIDE DEF Least
      <4> QED BY <1>1
    <3>4. Closed(R)
      BY <3>2, <3>3, Zenon
    <3>5. Least \subseteq R
      <4> HIDE DEF R, Least, Closed
      <4> QED BY <3>1, <3>4, <1>2, Zenon
    <3> HIDE DEF Least
    <3> QED BY <2>1, <3>5, Zenon
  <2> HIDE DEF Least
  <2> QED BY <1>1, <2>1, Zenon
<1>4. ASSUME NEW n \in N \ {r}, One(Up[n]) PROVE One(n)
  <2> HIDE DEF Least
  <2>1. PICK s \in S : /\ <<Up[n], s>> \in Least
                       /\ \A t \in S : <<Up[n], t>> \in Least => t = s
    BY <1>4, Zenon
  <2> DEFINE y == F[n][s]
  <2>2. y \in S /\ <<n, y>> \in Least
    BY <2>1, <1>1
  <2>3. ASSUME NEW t \in S, <<n, t>> \in Least, t # y PROVE FALSE
    <3> DEFINE R == Least \ {<<n, t>>}
    <3>1. R \in SUBSET (N \X S)
      BY <1>1, Zenon
    <3>2. <<r, x>> \in R
      BY <1>1
    <3>3. ASSUME NEW m \in N \ {r}, NEW u \in S, <<Up[m], u>> \in R
          PROVE  <<m, F[m][u]>> \in R
      <4>1. <<m, F[m][u]>> \in Least
        BY <1>1, <3>3, Zenon
      <4>2. ASSUME <<m, F[m][u]>> = <<n, t>> PROVE FALSE
        <5>1. m = n /\ F[m][u] = t
          BY <4>2
        <5>2. <<Up[n], u>> \in Least
          BY <5>1, <3>3, Zenon
        <5>3. u = s
          BY <5>2, <2>1, Zenon
        <5> QED BY <5>1, <5>3, <2>3, Zenon
      <4> QED BY <4>1, <4>2, Zenon
    <3>4. Closed(R)
      BY <3>2, <3>3, Zenon
    <3>5. Least \subseteq R
      <4> HIDE DEF R, Closed
      <4> QED BY <3>1, <3>4, <1>2, Zenon
    <3> QED BY <2>3, <3>5, Zenon
  <2> HIDE DEF y
  <2> QED BY <2>2, <2>3, Zenon
<1>5. T = N
  <2> HIDE DEF One
  <2>1. T \in SUBSET N /\ r \in T
    BY <1>3, Zenon
  <2>2. \A n \in N \ {r} : Up[n] \in T => n \in T
    BY <1>4, Zenon
  <2> HIDE DEF T
  <2> QED BY <2>1, <2>2, Zenon
<1>6. \A n \in N : One(n)
  <2> HIDE DEF One
  <2> QED BY <1>5, Zenon
<1> DEFINE f == [n \in N |-> CHOOSE s \in S : <<n, s>> \in Least]
<1> HIDE DEF Least
<1>7. \A n \in N : f[n] \in S /\ <<n, f[n]>> \in Least
  BY <1>6, Zenon
<1>8. \A n \in N : \A s \in S : <<n, s>> \in Least => f[n] = s
  <2>1. \A n \in N : \A s, t \in S : <<n, s>> \in Least /\ <<n, t>> \in Least => s = t
    BY <1>6, Zenon
  <2> HIDE DEF f, One
  <2> QED BY <2>1, <1>7, Zenon
<1>9. f \in [N -> S]
  BY <1>7, Zenon
<1> HIDE DEF f, One
<1>10. f[r] = x
  BY <1>1, <1>8, Zenon
<1>11. ASSUME NEW n \in N \ {r} PROVE f[n] = F[n][f[Up[n]]]
  <2>1. Up[n] \in N /\ n \in N
    OBVIOUS
  <2>2. f[Up[n]] \in S /\ <<Up[n], f[Up[n]]>> \in Least
    BY <2>1, <1>7, Zenon
  <2>3. F[n][f[Up[n]]] \in S
    BY <2>2
  <2>4. <<n, F[n][f[Up[n]]]>> \in Least
    BY <2>2, <1>1, Zenon
  <2> QED BY <2>1, <2>3, <2>4, <1>8, Zenon
<1> QED BY <1>9, <1>10, <1>11, Zenon DEF Solves

Less == {p \in Nat \X Nat : p[1] < p[2]}

\* A set of natural numbers with a member has a least one.
LEMMA LeastNumber ==
  ASSUME NEW T \in SUBSET Nat, T # {}
  PROVE  \E x \in T : \A y \in T : x <= y
<1>1. OpToRel(<, Nat) = Less
  BY DEF OpToRel, Less
<1>2. IsWellFoundedOn(Less, Nat)
  BY <1>1, NatLessThanWellFounded, Zenon
<1>3. PICK x \in T : \A y \in T : ~(<<y, x>> \in Less)
  BY <1>2, WFMin, Zenon
<1>4. ASSUME NEW y \in T PROVE x <= y
  <2>1. x \in Nat /\ y \in Nat /\ <<y, x>> \in Nat \X Nat
    OBVIOUS
  <2>2. ~(y < x)
    BY <1>3, <2>1 DEF Less
  <2> QED BY <2>1, <2>2
<1> QED BY <1>4

\* Induction up to n, for a set of numbers.
LEMMA UpTo ==
  ASSUME NEW n \in Nat, NEW T \in SUBSET (0..n), 0 \in T,
         \A i \in 1..n : i - 1 \in T => i \in T
  PROVE  T = 0..n
<1> DEFINE U == (0..n) \ T
<1> SUFFICES ASSUME U # {} PROVE FALSE
  BY Zenon
<1>1. U \in SUBSET Nat
  OBVIOUS
<1>2. PICK m \in U : \A k \in U : m <= k
  <2> HIDE DEF U
  <2> QED BY <1>1, LeastNumber, Zenon
<1>3. m \in 1..n /\ m - 1 \in 0..n
  BY <1>2
<1>4. m - 1 \in T
  BY <1>2, <1>3
<1> QED BY <1>2, <1>3, <1>4

\* f is x at 0, and F makes its value at a number of the one before.
Iterates(f, n, S, x, F) ==
  /\ f \in [0..n -> S]
  /\ f[0] = x
  /\ \A i \in 1..n : f[i] = F[i][f[i - 1]]

LEMMA IndexRecursion ==
  ASSUME NEW n \in Nat, NEW S, NEW x \in S, NEW F \in [1..n -> [S -> S]]
  PROVE  \E f : Iterates(f, n, S, x, F)
<1> DEFINE N == 0..n
           Up == [i \in N \ {0} |-> i - 1]
<1>1. N \ {0} = 1..n /\ 0 \in N
  OBVIOUS
<1>2. Up \in [N \ {0} -> N] /\ \A i \in N \ {0} : Up[i] = i - 1
  OBVIOUS
<1>3. F \in [N \ {0} -> [S -> S]]
  BY <1>1, Zenon
<1> HIDE DEF Up
<1>4. ASSUME NEW T \in SUBSET N, 0 \in T, \A i \in N \ {0} : Up[i] \in T => i \in T
      PROVE  T = N
  <2>1. \A i \in 1..n : i - 1 \in T => i \in T
    BY <1>4, <1>1, <1>2, Zenon
  <2> QED BY <1>4, <2>1, UpTo, Zenon
<1>5. Tree(N, 0, Up)
  BY <1>1, <1>2, <1>4, Zenon DEF Tree
<1>6. PICK f : Solves(f, N, 0, Up, S, x, F)
  <2> HIDE DEF N
  <2> QED BY <1>3, <1>5, Recursion, Zenon
<1>7. \A i \in 1..n : f[i] = F[i][f[i - 1]]
  BY <1>6, <1>1, <1>2, Zenon DEF Solves
<1>8. Iterates(f, n, S, x, F)
  BY <1>6, <1>7, Zenon DEF Solves, Iterates
<1> QED BY <1>8, Zenon
-----------------------------------------------------------------------------
\* The tree of blocks.

LEMMA BlockTree == Tree(Block, Genesis, Parent)
BY TreeAssumption, Zenon DEF Tree

\* Induction along the tree, for a set of blocks.
LEMMA TreeInduction ==
  ASSUME NEW S \in SUBSET Block, Genesis \in S,
         \A b \in Block \ {Genesis} : Parent[b] \in S => b \in S
  PROVE  S = Block
BY TreeAssumption, Zenon

LEMMA ParentType ==
  Genesis \in Block /\ NoBlock \notin Block /\ \A b \in Block \ {Genesis} : Parent[b] \in Block
BY TreeAssumption, Zenon

\* What the definition of Ancestors says of a block and its parent.
LEMMA AncestorsRec ==
  /\ Ancestors[Genesis] = {Genesis}
  /\ \A b \in Block \ {Genesis} : Ancestors[b] = {b} \cup Ancestors[Parent[b]]
  /\ \A b \in Block : b \in Ancestors[b] /\ Ancestors[b] \subseteq Block /\ Genesis \in Ancestors[b]
<1> DEFINE E(g) == [b \in Block |-> IF b = Genesis THEN {b} ELSE {b} \cup g[Parent[b]]]
           F == [b \in Block \ {Genesis} |-> [s \in SUBSET Block |-> {b} \cup s]]
<1>1. {Genesis} \in SUBSET Block
  BY ParentType, Zenon
<1>2. F \in [Block \ {Genesis} -> [SUBSET Block -> SUBSET Block]]
  OBVIOUS
<1>3. \A b \in Block \ {Genesis} : \A s \in SUBSET Block : F[b][s] = {b} \cup s
  OBVIOUS
<1>4. PICK f : Solves(f, Block, Genesis, Parent, SUBSET Block, {Genesis}, F)
  <2> HIDE DEF F
  <2> QED BY <1>1, <1>2, BlockTree, Recursion, Zenon
<1> HIDE DEF F
<1>5. f = E(f)
  <2>1. f \in [Block -> SUBSET Block] /\ f[Genesis] = {Genesis}
    BY <1>4, Zenon DEF Solves
  <2>2. \A b \in Block \ {Genesis} : f[b] = {b} \cup f[Parent[b]]
    BY <1>4, <1>3, <2>1, ParentType, Zenon DEF Solves
  <2>3. \A b \in Block : f[b] = E(f)[b]
    BY <2>1, <2>2, Zenon
  <2> QED BY <2>1, <2>3, Zenon
<1>6. \E g : g = E(g)
  <2> HIDE DEF E
  <2> QED BY <1>5, Zenon
<1>7. (CHOOSE g : g = E(g)) = E(CHOOSE g : g = E(g))
  <2> HIDE DEF E
  <2> QED BY <1>6, Zenon
<1>8. Ancestors = E(Ancestors)
  BY <1>7, Zenon DEF Ancestors
<1>9. \A b \in Block : Ancestors[b] = IF b = Genesis THEN {b} ELSE {b} \cup Ancestors[Parent[b]]
  BY <1>8, Zenon
<1> DEFINE S == {b \in Block : Ancestors[b] \subseteq Block /\ Genesis \in Ancestors[b]}
<1>10. Genesis \in S
  BY <1>9, ParentType, Zenon
<1>11. \A b \in Block \ {Genesis} : Parent[b] \in S => b \in S
  BY <1>9, Zenon
<1>12. S = Block
  <2> HIDE DEF S
  <2>1. S \in SUBSET Block
    BY Zenon DEF S
  <2> QED BY <1>10, <1>11, <2>1, TreeInduction, Zenon
<1>13. \A b \in Block : Ancestors[b] \subseteq Block /\ Genesis \in Ancestors[b]
  BY <1>12, Zenon
<1>14. Ancestors[Genesis] = {Genesis}
  BY <1>9, ParentType, Zenon
<1>15. \A b \in Block \ {Genesis} : Ancestors[b] = {b} \cup Ancestors[Parent[b]]
  BY <1>9, Zenon
<1>16. \A b \in Block : b \in Ancestors[b]
  BY <1>14, <1>15, Zenon
<1> QED BY <1>13, <1>14, <1>15, <1>16, Zenon

\* nHeight counts from the genesis block.
LEMMA HeightRec ==
  /\ Height \in [Block -> Nat]
  /\ Height[Genesis] = 0
  /\ \A b \in Block \ {Genesis} : Height[b] = Height[Parent[b]] + 1
<1> DEFINE E(g) == [b \in Block |-> IF b = Genesis THEN 0 ELSE g[Parent[b]] + 1]
           F == [b \in Block \ {Genesis} |-> [s \in Nat |-> s + 1]]
<1>1. 0 \in Nat /\ F \in [Block \ {Genesis} -> [Nat -> Nat]]
  OBVIOUS
<1>2. \A b \in Block \ {Genesis} : \A s \in Nat : F[b][s] = s + 1
  OBVIOUS
<1>3. PICK f : Solves(f, Block, Genesis, Parent, Nat, 0, F)
  <2> HIDE DEF F
  <2> QED BY <1>1, BlockTree, Recursion, Zenon
<1> HIDE DEF F
<1>4. f = E(f)
  <2>1. f \in [Block -> Nat] /\ f[Genesis] = 0
    BY <1>3, Zenon DEF Solves
  <2>2. \A b \in Block \ {Genesis} : f[b] = f[Parent[b]] + 1
    BY <1>3, <1>2, <2>1, ParentType, Zenon DEF Solves
  <2>3. \A b \in Block : f[b] = E(f)[b]
    BY <2>1, <2>2, Zenon
  <2> QED BY <2>1, <2>3, Zenon
<1>5. \E g : g = E(g)
  <2> HIDE DEF E
  <2> QED BY <1>4, Zenon
<1>6. (CHOOSE g : g = E(g)) = E(CHOOSE g : g = E(g))
  <2> HIDE DEF E
  <2> QED BY <1>5, Zenon
<1>7. Height = E(Height)
  BY <1>6, Zenon DEF Height
<1>8. \A b \in Block : Height[b] = IF b = Genesis THEN 0 ELSE Height[Parent[b]] + 1
  BY <1>7, Zenon
<1> DEFINE S == {b \in Block : Height[b] \in Nat}
<1>9. Genesis \in S
  BY <1>8, ParentType
<1>10. ASSUME NEW b \in Block \ {Genesis}, Parent[b] \in S PROVE b \in S
  BY <1>10, <1>8
<1>11. S = Block
  <2> HIDE DEF S
  <2>1. S \in SUBSET Block
    BY Zenon DEF S
  <2> QED BY <1>9, <1>10, <2>1, TreeInduction, Zenon
<1>12. \A b \in Block : Height[b] \in Nat
  BY <1>11, Zenon
<1>13. Height \in [Block -> Nat]
  BY <1>7, <1>12, Zenon
<1> QED BY <1>13, <1>8, ParentType, Zenon

\* A block is the only one of its height in a branch.
LEMMA Lower ==
  ASSUME NEW b \in Block, NEW a \in Ancestors[b]
  PROVE  a \in Block /\ Height[a] <= Height[b] /\ (Height[a] = Height[b] => a = b)
<1> DEFINE S == {x \in Block : \A y \in Ancestors[x] :
                   y \in Block /\ Height[y] <= Height[x] /\ (Height[y] = Height[x] => y = x)}
<1>1. Genesis \in S
  <2>1. Ancestors[Genesis] = {Genesis} /\ Genesis \in Block
    BY AncestorsRec, ParentType, Zenon
  <2> QED BY <2>1, HeightRec
<1>2. ASSUME NEW x \in Block \ {Genesis}, Parent[x] \in S PROVE x \in S
  <2>1. /\ Ancestors[x] = {x} \cup Ancestors[Parent[x]] /\ Parent[x] \in Block
        /\ Height[x] = Height[Parent[x]] + 1 /\ Height[x] \in Nat /\ Height[Parent[x]] \in Nat
    BY AncestorsRec, HeightRec, ParentType, Zenon
  <2>2. ASSUME NEW y \in Ancestors[x]
        PROVE  y \in Block /\ Height[y] <= Height[x] /\ (Height[y] = Height[x] => y = x)
    <3>1. CASE y = x
      BY <3>1, <2>1
    <3>2. CASE y \in Ancestors[Parent[x]]
      <4>1. y \in Block /\ Height[y] <= Height[Parent[x]]
        BY <3>2, <1>2, Zenon
      <4>2. Height[y] \in Nat
        BY <4>1, HeightRec, Zenon
      <4> QED BY <2>1, <4>1, <4>2
    <3> QED BY <2>1, <3>1, <3>2, Zenon
  <2> QED BY <2>2, Zenon
<1>3. S = Block
  <2> HIDE DEF S
  <2>1. S \in SUBSET Block
    BY Zenon DEF S
  <2> QED BY <1>1, <1>2, <2>1, TreeInduction, Zenon
<1> QED BY <1>3

\* The parent of a block of a branch is one.
LEMMA ParentInBranch ==
  ASSUME NEW b \in Block, NEW a \in Ancestors[b], a # Genesis
  PROVE  Parent[a] \in Ancestors[b]
<1> DEFINE S == {x \in Block : \A y \in Ancestors[x] : y # Genesis => Parent[y] \in Ancestors[x]}
<1>1. Genesis \in S
  BY AncestorsRec, ParentType, Zenon
<1>2. ASSUME NEW x \in Block \ {Genesis}, Parent[x] \in S PROVE x \in S
  <2>1. Ancestors[x] = {x} \cup Ancestors[Parent[x]] /\ Parent[x] \in Ancestors[Parent[x]]
    BY AncestorsRec, ParentType, Zenon
  <2> QED BY <2>1, <1>2, Zenon
<1>3. S = Block
  <2> HIDE DEF S
  <2>1. S \in SUBSET Block
    BY Zenon DEF S
  <2> QED BY <1>1, <1>2, <2>1, TreeInduction, Zenon
<1> QED BY <1>3, Zenon

\* A branch has one block of a height.
LEMMA SameHeight ==
  ASSUME NEW b \in Block, NEW a \in Ancestors[b], NEW c \in Ancestors[b], Height[a] = Height[c]
  PROVE  a = c
<1> DEFINE S == {x \in Block : \A y, z \in Ancestors[x] : Height[y] = Height[z] => y = z}
<1>1. Genesis \in S
  BY AncestorsRec, ParentType, Zenon
<1>2. ASSUME NEW x \in Block \ {Genesis}, Parent[x] \in S PROVE x \in S
  <2>1. Ancestors[x] = {x} \cup Ancestors[Parent[x]] /\ x \in Block
    BY AncestorsRec, ParentType, Zenon
  <2>2. ASSUME NEW y \in Ancestors[x], NEW z \in Ancestors[x], Height[y] = Height[z]
        PROVE  y = z
    <3>1. CASE y = x \/ z = x
      BY <2>1, <2>2, <3>1, Lower, Zenon
    <3>2. CASE y # x /\ z # x
      BY <2>1, <2>2, <3>2, <1>2, Zenon
    <3> QED BY <3>1, <3>2, Zenon
  <2> QED BY <2>2, Zenon
<1>3. S = Block
  <2> HIDE DEF S
  <2>1. S \in SUBSET Block
    BY Zenon DEF S
  <2> QED BY <1>1, <1>2, <2>1, TreeInduction, Zenon
<1> QED BY <1>3, Zenon

\* A branch has a block of every height up to its own.
LEMMA EveryHeight ==
  ASSUME NEW b \in Block, NEW h \in Nat, h <= Height[b]
  PROVE  \E a \in Ancestors[b] : Height[a] = h
<1> DEFINE S == {x \in Block : \A k \in Nat :
                   k <= Height[x] => \E a \in Ancestors[x] : Height[a] = k}
<1>1. Genesis \in S
  <2>1. Genesis \in Ancestors[Genesis] /\ Genesis \in Block /\ Height[Genesis] = 0
    BY AncestorsRec, HeightRec, ParentType, Zenon
  <2> QED BY <2>1
<1>2. ASSUME NEW x \in Block \ {Genesis}, Parent[x] \in S PROVE x \in S
  <2>1. /\ Ancestors[x] = {x} \cup Ancestors[Parent[x]] /\ Parent[x] \in Block
        /\ Height[x] = Height[Parent[x]] + 1 /\ Height[Parent[x]] \in Nat
    BY AncestorsRec, HeightRec, ParentType, Zenon
  <2>2. ASSUME NEW k \in Nat, k <= Height[x] PROVE \E a \in Ancestors[x] : Height[a] = k
    <3>1. CASE k = Height[x]
      BY <2>1, <3>1, Zenon
    <3>2. CASE k # Height[x]
      <4>1. k <= Height[Parent[x]]
        BY <2>1, <2>2, <3>2
      <4> QED BY <2>1, <4>1, <1>2, Zenon
    <3> QED BY <3>1, <3>2, Zenon
  <2> QED BY <2>2, Zenon
<1>3. S = Block
  <2> HIDE DEF S
  <2>1. S \in SUBSET Block
    BY Zenon DEF S
  <2> QED BY <1>1, <1>2, <2>1, TreeInduction, Zenon
<1> QED BY <1>3, Zenon

\* GetAncestor finds the one block of a height, and its parent is the next.
LEMMA AncestorFound ==
  ASSUME NEW b \in Block
  PROVE  /\ \A a \in Ancestors[b] : GetAncestor(b, Height[a]) = a
         /\ \A h \in 0..Height[b] :
              GetAncestor(b, h) \in Ancestors[b] /\ Height[GetAncestor(b, h)] = h
         /\ \A h \in 1..Height[b] :
              /\ GetAncestor(b, h) \in Block \ {Genesis}
              /\ Parent[GetAncestor(b, h)] = GetAncestor(b, h - 1)
<1>1. \A h : (\E a \in Ancestors[b] : Height[a] = h) =>
             GetAncestor(b, h) \in Ancestors[b] /\ Height[GetAncestor(b, h)] = h
  BY Zenon DEF GetAncestor
<1>2. \A a \in Ancestors[b] : GetAncestor(b, Height[a]) = a
  BY <1>1, SameHeight, Zenon
<1>3. ASSUME NEW h \in 0..Height[b]
      PROVE  GetAncestor(b, h) \in Ancestors[b] /\ Height[GetAncestor(b, h)] = h
  <2>1. Height[b] \in Nat
    BY HeightRec, Zenon
  <2>2. h \in Nat /\ h <= Height[b]
    BY <2>1
  <2> QED BY <2>2, EveryHeight, <1>1, Zenon
<1>4. ASSUME NEW h \in 1..Height[b]
      PROVE  /\ GetAncestor(b, h) \in Block \ {Genesis}
             /\ Parent[GetAncestor(b, h)] = GetAncestor(b, h - 1)
  <2>1. PICK a : a = GetAncestor(b, h)
    BY Zenon
  <2>2. Height[b] \in Nat
    BY HeightRec, Zenon
  <2>3. h \in 0..Height[b] /\ h \in Nat /\ h # 0
    BY <2>2
  <2>4. a \in Ancestors[b] /\ Height[a] = h /\ a \in Block
    BY <1>3, <2>1, <2>3, Lower, Zenon
  <2>5. a # Genesis
    BY <2>3, <2>4, HeightRec, Zenon
  <2>6. Parent[a] \in Block /\ Parent[a] \in Ancestors[b]
    BY <2>4, <2>5, ParentType, ParentInBranch, Zenon
  <2>7. Height[a] = Height[Parent[a]] + 1 /\ Height[Parent[a]] \in Nat
    BY <2>4, <2>5, <2>6, HeightRec, Zenon
  <2>8. Height[Parent[a]] = h - 1
    BY <2>3, <2>4, <2>7
  <2>9. GetAncestor(b, h - 1) = Parent[a]
    BY <2>6, <2>8, <1>2, Zenon
  <2> QED BY <2>1, <2>4, <2>5, <2>9, Zenon
<1> QED BY <1>2, <1>3, <1>4, Zenon

\* Two branches have a last common block.
LEMMA ForkFound ==
  ASSUME NEW a \in Block, NEW b \in Block
  PROVE  LastCommonAncestor(a, b) \in Ancestors[a] \cap Ancestors[b]
<1> DEFINE Common == Ancestors[a] \cap Ancestors[b]
           S == {y \in Block : \A U \in SUBSET Ancestors[y] :
                   U # {} => \E c \in U : \A x \in U : Height[x] <= Height[c]}
<1>1. Genesis \in S
  <2>1. Ancestors[Genesis] = {Genesis} /\ Genesis \in Block /\ Height[Genesis] = 0
    BY AncestorsRec, HeightRec, ParentType, Zenon
  <2> QED BY <2>1
<1>2. ASSUME NEW y \in Block \ {Genesis}, Parent[y] \in S PROVE y \in S
  <2>1. Ancestors[y] = {y} \cup Ancestors[Parent[y]] /\ Parent[y] \in Block
    BY AncestorsRec, ParentType, Zenon
  <2>2. ASSUME NEW U \in SUBSET Ancestors[y], U # {}
        PROVE  \E c \in U : \A x \in U : Height[x] <= Height[c]
    <3>1. CASE y \in U
      BY <3>1, Lower, Zenon
    <3>2. CASE y \notin U
      <4>1. U \in SUBSET Ancestors[Parent[y]]
        BY <2>1, <3>2, Zenon
      <4> QED BY <2>2, <4>1, <1>2, Zenon
    <3> QED BY <3>1, <3>2, Zenon
  <2> QED BY <2>2, Zenon
<1>3. S = Block
  <2> HIDE DEF S
  <2>1. S \in SUBSET Block
    BY Zenon DEF S
  <2> QED BY <1>1, <1>2, <2>1, TreeInduction, Zenon
<1>4. Common \in SUBSET Ancestors[a] /\ Common # {}
  BY AncestorsRec, Zenon
<1>5. \E c \in Common : \A x \in Common : Height[x] <= Height[c]
  <2> HIDE DEF Common
  <2> QED BY <1>3, <1>4, Zenon
<1> QED BY <1>5, Zenon DEF LastCommonAncestor

-----------------------------------------------------------------------------
\* Connecting a block.

Touches(b, i, o) == o \in Txs[b][i].ins \/ o \in Txs[b][i].outs
Touched(b, o) == \E i \in 1..Len(Txs[b]) : Touches(b, i, o)

\* What transaction i of block b makes of a coin.
Made(b, i, o, coin) ==
  IF o \in Txs[b][i].outs THEN Height[b] ELSE IF o \in Txs[b][i].ins THEN Spent ELSE coin

LEMMA CoinTypes ==
  /\ NoCoins \in CoinMap
  /\ \A b \in Block : Height[b] \in {Height[a] : a \in Block}
  /\ Spent \in {Height[a] : a \in Block}
<1>1. Spent \in {Height[a] : a \in Block}
  BY HeightRec, ParentType, Zenon DEF Spent
<1> QED BY <1>1, Zenon DEF NoCoins, CoinMap

LEMMA ElementType ==
  ASSUME NEW R, NEW q \in Seq(R)
  PROVE  Len(q) \in Nat /\ \A i \in 1..Len(q) : q[i] \in R
OBVIOUS

LEMMA TxsType ==
  ASSUME NEW b \in Block
  PROVE  /\ Len(Txs[b]) \in Nat
         /\ \A i \in 1..Len(Txs[b]) : Txs[b][i].ins \subseteq Outpoint /\ Txs[b][i].outs \subseteq Outpoint
<1>1. PICK q : q = Txs[b]
  OBVIOUS
<1>2. q \in Seq([ins : SUBSET Outpoint, outs : SUBSET Outpoint])
  BY <1>1, TxsAssumption, Zenon
<1>3. \A i \in 1..Len(q) : q[i] \in [ins : SUBSET Outpoint, outs : SUBSET Outpoint]
  BY <1>2, ElementType, Zenon
<1>4. Len(q) \in Nat
  BY <1>2, ElementType, Zenon
<1>5. \A i \in 1..Len(q) : q[i].ins \subseteq Outpoint /\ q[i].outs \subseteq Outpoint
  BY <1>3
<1> QED BY <1>1, <1>4, <1>5, Zenon

\* What UpdateCoins makes of one coin.
LEMMA Updated ==
  ASSUME NEW b \in Block, NEW i \in 1..Len(Txs[b]), NEW c \in CoinMap
  PROVE  /\ UpdateCoins(c, Txs[b][i], Height[b]) \in CoinMap
         /\ \A o \in Outpoint :
              UpdateCoins(c, Txs[b][i], Height[b])[o] = Made(b, i, o, c[o])
BY CoinTypes, Zenon DEF UpdateCoins, CoinMap, Made

\* The coins after i transactions come from those after i - 1.
LEMMA AfterRec ==
  ASSUME NEW b \in Block, NEW c \in CoinMap
  PROVE  /\ AfterTxs(c, b) \in [0..Len(Txs[b]) -> CoinMap]
         /\ AfterTxs(c, b)[0] = c
         /\ \A i \in 1..Len(Txs[b]) :
              AfterTxs(c, b)[i] = UpdateCoins(AfterTxs(c, b)[i - 1], Txs[b][i], Height[b])
<1> DEFINE n == Len(Txs[b])
           E(g) == [i \in 0..n |->
                      IF i = 0 THEN c ELSE UpdateCoins(g[i - 1], Txs[b][i], Height[b])]
           F == [i \in 1..n |-> [s \in CoinMap |-> UpdateCoins(s, Txs[b][i], Height[b])]]
<1>1. n \in Nat
  BY TxsType, Zenon
<1>2. F \in [1..n -> [CoinMap -> CoinMap]]
  BY Updated, Zenon
<1>3. \A i \in 1..n : \A s \in CoinMap : F[i][s] = UpdateCoins(s, Txs[b][i], Height[b])
  BY Zenon
<1> HIDE DEF n, F
<1>4. PICK f : Iterates(f, n, CoinMap, c, F)
  BY <1>1, <1>2, IndexRecursion, Zenon
<1>5. \A i \in 0..n : i # 0 => i \in 1..n
  BY <1>1
<1>6. \A i \in 1..n : i - 1 \in 0..n /\ i \in 0..n /\ i # 0
  BY <1>1
<1>7. f = E(f)
  <2>1. \A i \in 0..n : f[i] = E(f)[i]
    BY <1>3, <1>4, <1>5, <1>6, Zenon DEF Iterates
  <2> QED BY <1>4, <2>1, Zenon DEF Iterates
<1>8. \E g : g = E(g)
  <2> HIDE DEF E
  <2> QED BY <1>7, Zenon
<1>9. (CHOOSE g : g = E(g)) = E(CHOOSE g : g = E(g))
  <2> HIDE DEF E
  <2> QED BY <1>8, Zenon
<1>10. PICK a : a = AfterTxs(c, b)
  OBVIOUS
<1>11. a = E(a)
  BY <1>9, <1>10, Zenon DEF AfterTxs, n
<1>12. 0 \in 0..n
  BY <1>1
<1>13. a[0] = c
  BY <1>11, <1>12, Zenon
<1>14. \A i \in 1..n : a[i] = UpdateCoins(a[i - 1], Txs[b][i], Height[b])
  BY <1>11, <1>6, Zenon
<1>15. \A i \in 0..n : a[i] \in CoinMap
  <2> DEFINE T == {i \in 0..n : a[i] \in CoinMap}
  <2>1. 0 \in T
    BY <1>12, <1>13, Zenon
  <2>2. ASSUME NEW i \in 1..n, i - 1 \in T PROVE i \in T
    <3>1. a[i - 1] \in CoinMap
      BY <2>2, Zenon
    <3>2. UpdateCoins(a[i - 1], Txs[b][i], Height[b]) \in CoinMap
      BY <3>1, Updated, Zenon DEF n
    <3> QED BY <3>2, <1>6, <1>14, Zenon
  <2>3. T = 0..n
    <3> HIDE DEF T
    <3>1. T \in SUBSET (0..n)
      BY Zenon DEF T
    <3> QED BY <1>1, <2>1, <2>2, <3>1, UpTo, Zenon
  <2> QED BY <2>3, Zenon
<1>16. a \in [0..n -> CoinMap]
  BY <1>11, <1>15, Zenon
<1> QED BY <1>10, <1>13, <1>14, <1>16, Zenon DEF n

\* The same, coin by coin.
LEMMA AfterStep ==
  ASSUME NEW b \in Block, NEW c \in CoinMap, NEW o \in Outpoint
  PROVE  \A i \in 1..Len(Txs[b]) :
           AfterTxs(c, b)[i][o] = Made(b, i, o, AfterTxs(c, b)[i - 1][o])
<1> SUFFICES ASSUME NEW i \in 1..Len(Txs[b])
             PROVE  AfterTxs(c, b)[i][o] = Made(b, i, o, AfterTxs(c, b)[i - 1][o])
  BY Zenon
<1>1. PICK a : a = AfterTxs(c, b)
  OBVIOUS
<1>2. a \in [0..Len(Txs[b]) -> CoinMap] /\ a[i] = UpdateCoins(a[i - 1], Txs[b][i], Height[b])
  BY <1>1, AfterRec, Zenon
<1>3. i - 1 \in 0..Len(Txs[b])
  BY TxsType
<1>4. a[i - 1] \in CoinMap
  BY <1>2, <1>3, Zenon
<1>5. UpdateCoins(a[i - 1], Txs[b][i], Height[b])[o] = Made(b, i, o, a[i - 1][o])
  BY <1>4, Updated, Zenon
<1> QED BY <1>1, <1>2, <1>5, Zenon

\* The transactions of a block leave a coin alone, or decide what it is
\* whatever it was before.
LEMMA AfterDecided ==
  ASSUME NEW b \in Block, NEW c \in CoinMap, NEW d \in CoinMap, NEW o \in Outpoint
  PROVE  IF Touched(b, o)
         THEN RollforwardBlock(c, b)[o] = RollforwardBlock(d, b)[o]
         ELSE RollforwardBlock(c, b)[o] = c[o]
<1> DEFINE n == Len(Txs[b])
           A == AfterTxs(c, b)
           B == AfterTxs(d, b)
           Was(i) == \E k \in 1..i : Touches(b, k, o)
           T == {i \in 0..n : IF Was(i) THEN A[i][o] = B[i][o] ELSE A[i][o] = c[o]}
<1>1. n \in Nat
  BY TxsType, Zenon
<1>2. /\ A[0] = c
      /\ \A i \in 1..n : A[i][o] = Made(b, i, o, A[i - 1][o])
      /\ \A i \in 1..n : B[i][o] = Made(b, i, o, B[i - 1][o])
  BY AfterRec, AfterStep, Zenon
<1>3. RollforwardBlock(c, b) = A[n] /\ RollforwardBlock(d, b) = B[n]
  BY Zenon DEF RollforwardBlock
<1>4. Touched(b, o) <=> Was(n)
  BY Zenon DEF Touched
<1> HIDE DEF A, B
<1>5. \A i \in 1..n : i - 1 \in 0..n /\ i \in 0..n /\ (Was(i) <=> Was(i - 1) \/ Touches(b, i, o))
  <2> SUFFICES ASSUME NEW i \in 1..n
               PROVE  i - 1 \in 0..n /\ i \in 0..n /\ (Was(i) <=> Was(i - 1) \/ Touches(b, i, o))
    BY Zenon
  <2>1. i - 1 \in 0..n /\ i \in 0..n /\ i \in 1..i
    BY <1>1
  <2>2. \A k : k \in 1..i <=> k \in 1..(i - 1) \/ k = i
    BY <1>1
  <2> QED BY <2>1, <2>2, Zenon
<1>6. 0 \in T
  <2>1. 0 \in 0..n /\ ~Was(0)
    BY <1>1
  <2> HIDE DEF Was
  <2> QED BY <2>1, <1>2, Zenon
<1>7. ASSUME NEW i \in 1..n, i - 1 \in T PROVE i \in T
  <2>1. /\ i - 1 \in 0..n /\ i \in 0..n
        /\ (Was(i) <=> Was(i - 1) \/ Touches(b, i, o))
    BY <1>5, Zenon
  <2>2. /\ A[i][o] = Made(b, i, o, A[i - 1][o])
        /\ B[i][o] = Made(b, i, o, B[i - 1][o])
    BY <1>2, Zenon
  <2>3. IF Was(i - 1) THEN A[i - 1][o] = B[i - 1][o] ELSE A[i - 1][o] = c[o]
    BY <1>7, Zenon
  <2> HIDE DEF Was
  <2> QED BY <2>1, <2>2, <2>3, Zenon DEF Touches, Made
<1>8. T = 0..n
  <2> HIDE DEF T
  <2>1. T \in SUBSET (0..n)
    BY Zenon DEF T
  <2> QED BY <1>1, <1>6, <1>7, <2>1, UpTo, Zenon
<1>9. n \in T
  BY <1>1, <1>8
<1> HIDE DEF Was, n
<1> QED BY <1>9, <1>3, <1>4, Zenon

LEMMA RollforwardType ==
  ASSUME NEW b \in Block, NEW c \in CoinMap
  PROVE  RollforwardBlock(c, b) \in CoinMap
<1>1. Len(Txs[b]) \in 0..Len(Txs[b])
  BY TxsType
<1> QED BY <1>1, AfterRec, Zenon DEF RollforwardBlock

\* What the definition of UtxoAt says of a block and its parent.
LEMMA UtxoRec ==
  /\ UtxoAt \in [Block -> CoinMap]
  /\ UtxoAt[Genesis] = NoCoins
  /\ \A b \in Block \ {Genesis} : UtxoAt[b] = RollforwardBlock(UtxoAt[Parent[b]], b)
<1> DEFINE E(g) == [b \in Block |->
                      IF b = Genesis THEN NoCoins ELSE RollforwardBlock(g[Parent[b]], b)]
           F == [b \in Block \ {Genesis} |-> [s \in CoinMap |-> RollforwardBlock(s, b)]]
<1>1. NoCoins \in CoinMap /\ F \in [Block \ {Genesis} -> [CoinMap -> CoinMap]]
  BY CoinTypes, RollforwardType, Zenon
<1>2. \A b \in Block \ {Genesis} : \A s \in CoinMap : F[b][s] = RollforwardBlock(s, b)
  BY Zenon
<1> HIDE DEF F
<1>3. PICK f : Solves(f, Block, Genesis, Parent, CoinMap, NoCoins, F)
  BY <1>1, BlockTree, Recursion, Zenon
<1>4. f = E(f)
  <2>1. f \in [Block -> CoinMap] /\ f[Genesis] = NoCoins
    BY <1>3, Zenon DEF Solves
  <2>2. \A b \in Block \ {Genesis} : f[b] = RollforwardBlock(f[Parent[b]], b)
    BY <1>3, <1>2, <2>1, ParentType, Zenon DEF Solves
  <2>3. \A b \in Block : f[b] = E(f)[b]
    BY <2>1, <2>2, Zenon
  <2> QED BY <2>1, <2>3, Zenon
<1>5. \E g : g = E(g)
  <2> HIDE DEF E
  <2> QED BY <1>4, Zenon
<1>6. (CHOOSE g : g = E(g)) = E(CHOOSE g : g = E(g))
  <2> HIDE DEF E
  <2> QED BY <1>5, Zenon
<1>7. UtxoAt = E(UtxoAt)
  BY <1>6, Zenon DEF UtxoAt
<1>8. /\ UtxoAt[Genesis] = NoCoins
      /\ \A b \in Block \ {Genesis} : UtxoAt[b] = RollforwardBlock(UtxoAt[Parent[b]], b)
  BY <1>7, ParentType, Zenon
<1> DEFINE S == {b \in Block : UtxoAt[b] \in CoinMap}
<1>9. Genesis \in S
  BY <1>8, <1>1, ParentType, Zenon
<1>10. ASSUME NEW b \in Block \ {Genesis}, Parent[b] \in S PROVE b \in S
  BY <1>10, <1>8, RollforwardType, Zenon
<1>11. S = Block
  <2> HIDE DEF S
  <2>1. S \in SUBSET Block
    BY Zenon DEF S
  <2> QED BY <1>9, <1>10, <2>1, TreeInduction, Zenon
<1>12. \A b \in Block : UtxoAt[b] \in CoinMap
  BY <1>11, Zenon
<1>13. UtxoAt \in [Block -> CoinMap]
  BY <1>7, <1>12, Zenon
<1> QED BY <1>13, <1>8, Zenon

LEMMA ParentUtxo ==
  ASSUME NEW b \in Block \ {Genesis}
  PROVE  UtxoAt[Parent[b]] \in CoinMap
BY UtxoRec, ParentType, Zenon

\* Rolling a block forward makes the coins it touches those of its UTXO set,
\* whatever they were, and the others are the same before and after the block.
LEMMA Rollforward ==
  ASSUME NEW b \in Block \ {Genesis}, NEW c \in CoinMap, NEW o \in Outpoint
  PROVE  IF Touched(b, o)
         THEN RollforwardBlock(c, b)[o] = UtxoAt[b][o]
         ELSE RollforwardBlock(c, b)[o] = c[o] /\ UtxoAt[b][o] = UtxoAt[Parent[b]][o]
<1>1. PICK d : d = UtxoAt[Parent[b]]
  OBVIOUS
<1>2. d \in CoinMap
  BY <1>1, ParentUtxo, Zenon
<1>3. UtxoAt[b] = RollforwardBlock(d, b)
  BY <1>1, UtxoRec, Zenon
<1>4. CASE Touched(b, o)
  BY <1>2, <1>3, <1>4, AfterDecided, Zenon
<1>5. CASE ~Touched(b, o)
  <2>1. RollforwardBlock(c, b)[o] = c[o]
    BY <1>2, <1>5, AfterDecided, Zenon
  <2>2. RollforwardBlock(d, b)[o] = d[o]
    BY <1>2, <1>5, AfterDecided, Zenon
  <2> QED BY <1>1, <1>3, <1>5, <2>1, <2>2, Zenon
<1> QED BY <1>4, <1>5, Zenon

-----------------------------------------------------------------------------
\* Disconnecting a block.

Undoing == [coins : CoinMap, clean : BOOLEAN]

\* What undoing transaction i of block b makes of a coin.
Unmade(b, i, o, coin) ==
  IF o \in Txs[b][i].ins THEN Before(b, i)[o]
  ELSE IF o \in Txs[b][i].outs THEN Spent ELSE coin

\* That transaction finds its outputs there and its inputs spent.
FoundClean(b, i, c) ==
  /\ \A o \in Txs[b][i].outs : c[o] = Height[b]
  /\ \A o \in Txs[b][i].ins : o \in Txs[b][i].outs \/ c[o] = Spent

LEMMA BeforeType ==
  ASSUME NEW b \in Block \ {Genesis}, NEW i \in 1..Len(Txs[b])
  PROVE  Before(b, i) \in CoinMap
<1>1. i - 1 \in 0..Len(Txs[b])
  BY TxsType
<1>2. PICK c : c = UtxoAt[Parent[b]]
  OBVIOUS
<1>3. c \in CoinMap
  BY <1>2, ParentUtxo, Zenon
<1>4. AfterTxs(c, b)[i - 1] \in CoinMap
  BY <1>1, <1>3, AfterRec, Zenon
<1> QED BY <1>2, <1>4, Zenon DEF Before

LEMMA OutputsNew ==
  ASSUME NEW b \in Block \ {Genesis}, NEW i \in 1..Len(Txs[b]), NEW o \in Txs[b][i].outs
  PROVE  Before(b, i)[o] = Spent
<1>1. Valid(b)
  BY ValidAssumption, Zenon
<1> QED BY <1>1, Zenon DEF Valid

LEMMA SameCoins ==
  ASSUME NEW c \in CoinMap, NEW d \in CoinMap, \A o \in Outpoint : c[o] = d[o]
  PROVE  c = d
BY DEF CoinMap

LEMMA TxUndone ==
  ASSUME NEW b \in Block \ {Genesis}, NEW i \in 1..Len(Txs[b]), NEW s \in Undoing
  PROVE  /\ DisconnectTx(s, b, i) \in Undoing
         /\ \A o \in Outpoint : DisconnectTx(s, b, i).coins[o] = Unmade(b, i, o, s.coins[o])
         /\ s.clean /\ FoundClean(b, i, s.coins) => DisconnectTx(s, b, i).clean
<1> DEFINE tx == Txs[b][i]
           removed == [o \in Outpoint |-> IF o \in tx.outs THEN Spent ELSE s.coins[o]]
           c == [o \in Outpoint |-> IF o \in tx.ins THEN UndoOf(b, i)[o] ELSE removed[o]]
           ok == /\ s.clean
                 /\ \A o \in tx.outs : s.coins[o] = Height[b]
                 /\ \A o \in tx.ins : removed[o] = Spent
<1>1. DisconnectTx(s, b, i) = [coins |-> c, clean |-> ok]
  BY Zenon DEF DisconnectTx
<1>2. s.coins \in CoinMap
  BY DEF Undoing
<1>3. tx.ins \subseteq Outpoint /\ tx.outs \subseteq Outpoint
  BY TxsType, Zenon
<1>4. \A o \in Outpoint : c[o] = Unmade(b, i, o, s.coins[o])
  BY Zenon DEF Unmade, UndoOf
<1>5. c \in CoinMap
  <2>1. \A o \in Outpoint : Unmade(b, i, o, s.coins[o]) \in {Height[a] : a \in Block}
    BY <1>2, BeforeType, CoinTypes, Zenon DEF Unmade, CoinMap
  <2> HIDE DEF c
  <2>2. \A o \in Outpoint : c[o] \in {Height[a] : a \in Block}
    BY <2>1, <1>4, Zenon
  <2> QED BY <2>2, Zenon DEF CoinMap, c
<1>6. s.clean /\ FoundClean(b, i, s.coins) => ok
  BY <1>3, Zenon DEF FoundClean
<1>7. ok \in BOOLEAN
  BY Zenon
<1> HIDE DEF c, ok
<1>8. [coins |-> c, clean |-> ok] \in Undoing
  BY <1>5, <1>7, Zenon DEF Undoing
<1>9. [coins |-> c, clean |-> ok].coins = c /\ [coins |-> c, clean |-> ok].clean = ok
  BY Zenon
<1> QED BY <1>1, <1>4, <1>6, <1>8, <1>9, Zenon

\* u[n] is what is left of the coins c when the last n transactions are undone.
Undoes(u, c, b) ==
  /\ u \in [0..Len(Txs[b]) -> Undoing]
  /\ u[0] = [coins |-> c, clean |-> TRUE]
  /\ \A n \in 1..Len(Txs[b]) : u[n] = DisconnectTx(u[n - 1], b, Len(Txs[b]) + 1 - n)
  /\ DisconnectBlock(c, b) = u[Len(Txs[b])]

LEMMA UndoneRec ==
  ASSUME NEW b \in Block \ {Genesis}, NEW c \in CoinMap
  PROVE  \E u : Undoes(u, c, b)
<1> DEFINE n == Len(Txs[b])
           x == [coins |-> c, clean |-> TRUE]
           E(g) == [i \in 0..n |-> IF i = 0 THEN x ELSE DisconnectTx(g[i - 1], b, n + 1 - i)]
           F == [i \in 1..n |-> [s \in Undoing |-> DisconnectTx(s, b, n + 1 - i)]]
<1>1. n \in Nat
  BY TxsType, Zenon
<1>2. \A i \in 1..n : n + 1 - i \in 1..n
  BY <1>1
<1>3. F \in [1..n -> [Undoing -> Undoing]]
  BY <1>2, TxUndone, Zenon
<1>4. \A i \in 1..n : \A s \in Undoing : F[i][s] = DisconnectTx(s, b, n + 1 - i)
  BY Zenon
<1>5. x \in Undoing
  BY Zenon DEF Undoing
<1> HIDE DEF n, F, x
<1>6. PICK f : Iterates(f, n, Undoing, x, F)
  BY <1>1, <1>3, <1>5, IndexRecursion, Zenon
<1>7. \A i \in 0..n : i # 0 => i \in 1..n
  BY <1>1
<1>8. \A i \in 1..n : i - 1 \in 0..n /\ i \in 0..n /\ i # 0
  BY <1>1
<1>9. f = E(f)
  <2>1. \A i \in 0..n : f[i] = E(f)[i]
    BY <1>4, <1>6, <1>7, <1>8, Zenon DEF Iterates
  <2> QED BY <1>6, <2>1, Zenon DEF Iterates
<1>10. \E g : g = E(g)
  <2> HIDE DEF E
  <2> QED BY <1>9, Zenon
<1> DEFINE u == CHOOSE g : g = E(g)
<1>11. u = E(u)
  <2> HIDE DEF E
  <2> QED BY <1>10, Zenon
<1>12. DisconnectBlock(c, b) = u[n]
  BY Zenon DEF DisconnectBlock, n, x
<1> HIDE DEF u
<1>13. 0 \in 0..n
  BY <1>1
<1>14. u[0] = x
  BY <1>11, <1>13, Zenon
<1>15. \A i \in 1..n : u[i] = DisconnectTx(u[i - 1], b, n + 1 - i)
  BY <1>11, <1>8, Zenon
<1>16. \A i \in 0..n : u[i] \in Undoing
  <2> DEFINE T == {i \in 0..n : u[i] \in Undoing}
  <2>1. 0 \in T
    BY <1>5, <1>13, <1>14, Zenon
  <2>2. ASSUME NEW i \in 1..n, i - 1 \in T PROVE i \in T
    <3>1. u[i - 1] \in Undoing /\ n + 1 - i \in 1..n
      BY <2>2, <1>2, Zenon
    <3>2. DisconnectTx(u[i - 1], b, n + 1 - i) \in Undoing
      BY <3>1, TxUndone, Zenon DEF n
    <3> QED BY <3>2, <1>8, <1>15, Zenon
  <2>3. T = 0..n
    <3> HIDE DEF T
    <3>1. T \in SUBSET (0..n)
      BY Zenon DEF T
    <3> QED BY <1>1, <2>1, <2>2, <3>1, UpTo, Zenon
  <2> QED BY <2>3, Zenon
<1>17. u \in [0..n -> Undoing]
  BY <1>11, <1>16, Zenon
<1>18. Undoes(u, c, b)
  BY <1>12, <1>14, <1>15, <1>17, Zenon DEF Undoes, n, x
<1> QED BY <1>18, Zenon

\* Disconnecting a block makes the coins it touches those of the UTXO set of its
\* parent, whatever they were, and leaves the others alone.
LEMMA Disconnected ==
  ASSUME NEW b \in Block \ {Genesis}, NEW c \in CoinMap
  PROVE  /\ DisconnectBlock(c, b).coins \in CoinMap
         /\ \A o \in Outpoint :
              IF Touched(b, o) THEN DisconnectBlock(c, b).coins[o] = UtxoAt[Parent[b]][o]
              ELSE DisconnectBlock(c, b).coins[o] = c[o]
<1> DEFINE n == Len(Txs[b])
           U == AfterTxs(UtxoAt[Parent[b]], b)
<1>1. n \in Nat
  BY TxsType, Zenon
<1>2. PICK u : Undoes(u, c, b)
  BY UndoneRec, Zenon
<1>3. /\ u \in [0..n -> Undoing]
      /\ u[0] = [coins |-> c, clean |-> TRUE]
      /\ \A j \in 1..n : u[j] = DisconnectTx(u[j - 1], b, n + 1 - j)
      /\ DisconnectBlock(c, b) = u[n]
  BY <1>2, Zenon DEF Undoes
<1>4. u[0].coins = c
  BY <1>3
<1>5. n \in 0..n /\ 0 \in 0..n /\ n - n = 0
  BY <1>1
<1>6. DisconnectBlock(c, b).coins \in CoinMap
  <2>1. u[n] \in Undoing
    BY <1>3, <1>5, Zenon
  <2> QED BY <2>1, <1>3 DEF Undoing
<1>7. U[0] = UtxoAt[Parent[b]]
  BY ParentUtxo, AfterRec, Zenon
<1>8. ASSUME NEW o \in Outpoint
      PROVE  IF Touched(b, o) THEN DisconnectBlock(c, b).coins[o] = UtxoAt[Parent[b]][o]
             ELSE DisconnectBlock(c, b).coins[o] = c[o]
  <2> DEFINE Was(j) == \E k \in (n + 1 - j)..n : Touches(b, k, o)
             T == {j \in 0..n : IF Was(j) THEN u[j].coins[o] = U[n - j][o]
                                ELSE u[j].coins[o] = c[o]}
  <2>1. \A i \in 1..n : U[i][o] = Made(b, i, o, U[i - 1][o])
    BY ParentUtxo, AfterStep, Zenon
  <2>2. Touched(b, o) <=> Was(n)
    <3>1. n + 1 - n = 1
      BY <1>1
    <3> QED BY <3>1, Zenon DEF Touched
  <2>3. \A i \in 1..n : Before(b, i) = U[i - 1]
    BY Zenon DEF Before
  <2> HIDE DEF U
  <2>4. 0 \in T
    <3>1. ~Was(0)
      BY <1>1
    <3> HIDE DEF Was
    <3> QED BY <3>1, <1>4, <1>5, Zenon
  <2>5. ASSUME NEW j \in 1..n, j - 1 \in T PROVE j \in T
    <3>1. PICK i : i = n + 1 - j
      OBVIOUS
    <3>2. i \in 1..n /\ j \in 0..n /\ j - 1 \in 0..n /\ i - 1 = n - j /\ i = n - (j - 1)
      BY <3>1, <1>1
    <3>3. Was(j) <=> Was(j - 1) \/ Touches(b, i, o)
      <4>1. \A k : k \in (n + 1 - j)..n <=> k \in (n + 1 - (j - 1))..n \/ k = i
        BY <3>1, <3>2, <1>1
      <4> QED BY <4>1, Zenon
    <3>4. u[j - 1] \in Undoing /\ u[j] = DisconnectTx(u[j - 1], b, i)
      BY <3>1, <3>2, <1>3, Zenon
    <3>5. u[j].coins[o] = Unmade(b, i, o, u[j - 1].coins[o])
      <4>1. PICK s : s = u[j - 1]
        OBVIOUS
      <4>2. DisconnectTx(s, b, i).coins[o] = Unmade(b, i, o, s.coins[o])
        BY <3>2, <3>4, <4>1, TxUndone, Zenon
      <4> QED BY <4>1, <4>2, <3>4, Zenon
    <3>6. U[i][o] = Made(b, i, o, U[i - 1][o]) /\ Before(b, i) = U[i - 1]
      BY <3>2, <2>1, <2>3, Zenon
    <3>7. IF Was(j - 1) THEN u[j - 1].coins[o] = U[i][o] ELSE u[j - 1].coins[o] = c[o]
      BY <2>5, <3>2, Zenon
    <3>8. o \in Txs[b][i].outs => U[i - 1][o] = Spent
      BY <3>2, <3>6, OutputsNew, Zenon
    <3>9. Touches(b, i, o) => u[j].coins[o] = U[i - 1][o]
      BY <3>5, <3>6, <3>8, Zenon DEF Touches, Unmade
    <3>10. ~Touches(b, i, o) => u[j].coins[o] = u[j - 1].coins[o] /\ U[i][o] = U[i - 1][o]
      BY <3>5, <3>6, Zenon DEF Touches, Unmade, Made
    <3> HIDE DEF Was
    <3>11. IF Was(j) THEN u[j].coins[o] = U[i - 1][o] ELSE u[j].coins[o] = c[o]
      BY <3>3, <3>7, <3>9, <3>10, Zenon
    <3> QED BY <3>2, <3>11, Zenon
  <2>6. T = 0..n
    <3> HIDE DEF T
    <3>1. T \in SUBSET (0..n)
      BY Zenon DEF T
    <3> QED BY <1>1, <2>4, <2>5, <3>1, UpTo, Zenon
  <2>7. n \in T
    BY <1>5, <2>6, Zenon
  <2> HIDE DEF Was, n
  <2> QED BY <2>7, <2>2, <1>3, <1>5, <1>7, Zenon DEF U
<1> QED BY <1>6, <1>8, Zenon

\* Disconnecting a block from its own UTXO set gives that of its parent, and
\* every transaction finds what it expects.
LEMMA DisconnectedClean ==
  ASSUME NEW b \in Block \ {Genesis}
  PROVE  /\ DisconnectBlock(UtxoAt[b], b).clean
         /\ DisconnectBlock(UtxoAt[b], b).coins = UtxoAt[Parent[b]]
<1> DEFINE n == Len(Txs[b])
           U == AfterTxs(UtxoAt[Parent[b]], b)
           c == UtxoAt[b]
<1>1. n \in Nat
  BY TxsType, Zenon
<1>2. c \in CoinMap
  BY UtxoRec, Zenon
<1>3. PICK u : Undoes(u, c, b)
  BY <1>2, UndoneRec, Zenon
<1>4. /\ u \in [0..n -> Undoing]
      /\ u[0] = [coins |-> c, clean |-> TRUE]
      /\ \A j \in 1..n : u[j] = DisconnectTx(u[j - 1], b, n + 1 - j)
      /\ DisconnectBlock(c, b) = u[n]
  BY <1>3, Zenon DEF Undoes
<1>5. u[0].coins = c /\ u[0].clean
  <2>1. u[0] = [coins |-> c, clean |-> TRUE]
    BY <1>4, Zenon
  <2> HIDE DEF c
  <2> QED BY <2>1
<1>6. n \in 0..n /\ 0 \in 0..n /\ n - n = 0 /\ n - 0 = n
  BY <1>1
<1>7. U[0] = UtxoAt[Parent[b]] /\ c = U[n]
  <2>1. U[0] = UtxoAt[Parent[b]]
    BY ParentUtxo, AfterRec, Zenon
  <2>2. c = U[n]
    BY UtxoRec, Zenon DEF RollforwardBlock
  <2> QED BY <2>1, <2>2, Zenon
<1>8. \A i \in 1..n : \A o \in Outpoint : U[i][o] = Made(b, i, o, U[i - 1][o])
  BY ParentUtxo, AfterStep, Zenon
<1>9. \A i \in 1..n : Before(b, i) = U[i - 1]
  BY Zenon DEF Before
<1> HIDE DEF U, c
<1> DEFINE T == {j \in 0..n : u[j].clean /\ \A o \in Outpoint : u[j].coins[o] = U[n - j][o]}
<1>10. 0 \in T
  BY <1>5, <1>6, <1>7, Zenon
<1>11. ASSUME NEW j \in 1..n, j - 1 \in T PROVE j \in T
  <2>1. PICK i : i = n + 1 - j
    OBVIOUS
  <2>2. i \in 1..n /\ j \in 0..n /\ j - 1 \in 0..n /\ i - 1 = n - j /\ i = n - (j - 1)
    BY <2>1, <1>1
  <2>3. u[j - 1] \in Undoing /\ u[j] = DisconnectTx(u[j - 1], b, i)
    BY <2>1, <2>2, <1>4, Zenon
  <2>4. u[j - 1].clean /\ \A o \in Outpoint : u[j - 1].coins[o] = U[i][o]
    BY <1>11, <2>2, Zenon
  <2>5. \A o \in Outpoint : U[i][o] = Made(b, i, o, U[i - 1][o])
    BY <2>2, <1>8, Zenon
  <2>6. Txs[b][i].ins \subseteq Outpoint /\ Txs[b][i].outs \subseteq Outpoint
    BY <2>2, TxsType, Zenon
  <2>7. FoundClean(b, i, u[j - 1].coins)
    <3>1. \A o \in Outpoint : u[j - 1].coins[o] = Made(b, i, o, U[i - 1][o])
      BY <2>4, <2>5, Zenon
    <3>2. \A o \in Txs[b][i].outs : Made(b, i, o, U[i - 1][o]) = Height[b]
      BY Zenon DEF Made
    <3>3. \A o \in Txs[b][i].ins : o \in Txs[b][i].outs \/ Made(b, i, o, U[i - 1][o]) = Spent
      BY Zenon DEF Made
    <3>4. \A o \in Txs[b][i].outs : u[j - 1].coins[o] = Height[b]
      <4> SUFFICES ASSUME NEW o \in Txs[b][i].outs PROVE u[j - 1].coins[o] = Height[b]
        BY Zenon
      <4>1. u[j - 1].coins[o] = Made(b, i, o, U[i - 1][o])
        BY <3>1, <2>6, Zenon
      <4> QED BY <4>1, <3>2, Zenon
    <3>5. ASSUME NEW o \in Txs[b][i].ins PROVE o \in Txs[b][i].outs \/ u[j - 1].coins[o] = Spent
      <4>1. u[j - 1].coins[o] = Made(b, i, o, U[i - 1][o])
        BY <3>1, <2>6, Zenon
      <4> QED BY <4>1, <3>3, Zenon
    <3> QED BY <3>4, <3>5, Zenon DEF FoundClean
  <2>8. u[j].clean
    BY <2>2, <2>3, <2>4, <2>7, TxUndone, Zenon
  <2>9. \A o \in Outpoint : u[j].coins[o] = Unmade(b, i, o, u[j - 1].coins[o])
    <3>1. PICK s : s = u[j - 1]
      OBVIOUS
    <3>2. \A o \in Outpoint : DisconnectTx(s, b, i).coins[o] = Unmade(b, i, o, s.coins[o])
      BY <2>2, <2>3, <3>1, TxUndone, Zenon
    <3> QED BY <3>1, <3>2, <2>3, Zenon
  <2>10. \A o \in Txs[b][i].outs : U[i - 1][o] = Spent
    BY <2>2, <1>9, OutputsNew, Zenon
  <2>11. Before(b, i) = U[i - 1]
    BY <2>2, <1>9, Zenon
  <2>12. ASSUME NEW o \in Outpoint PROVE u[j].coins[o] = U[i - 1][o]
    <3>1. u[j].coins[o] = Unmade(b, i, o, U[i][o]) /\ U[i][o] = Made(b, i, o, U[i - 1][o])
      BY <2>4, <2>5, <2>9, Zenon
    <3> QED BY <3>1, <2>10, <2>11, Zenon DEF Unmade, Made
  <2> QED BY <2>2, <2>8, <2>12, Zenon
<1>12. T = 0..n
  <2> HIDE DEF T
  <2>1. T \in SUBSET (0..n)
    BY Zenon DEF T
  <2> QED BY <1>1, <1>10, <1>11, <2>1, UpTo, Zenon
<1>13. u[n].clean /\ \A o \in Outpoint : u[n].coins[o] = U[0][o]
  BY <1>6, <1>12, Zenon
<1>14. u[n].coins \in CoinMap /\ U[0] \in CoinMap
  <2>1. u[n] \in Undoing
    BY <1>4, <1>6, Zenon
  <2>2. u[n].coins \in CoinMap
    BY <2>1 DEF Undoing
  <2> QED BY <2>2, <1>7, ParentUtxo, Zenon
<1>15. u[n].coins = U[0]
  BY <1>13, <1>14, SameCoins, Zenon
<1> QED BY <1>4, <1>7, <1>13, <1>15, Zenon DEF c

-----------------------------------------------------------------------------
\* The replay.

\* Every coin of c is the one after block new or the one after block a.
Between(c, new, a) ==
  \A o \in Outpoint : c[o] = UtxoAt[new][o] \/ c[o] = UtxoAt[a][o]

\* One block back, and one block forward, on coins that are between.
LEMMA OneBack ==
  ASSUME NEW b \in Block \ {Genesis}, NEW new \in Block, NEW c \in CoinMap, Between(c, new, b)
  PROVE  /\ DisconnectBlock(c, b).coins \in CoinMap
         /\ Between(DisconnectBlock(c, b).coins, new, Parent[b])
<1>1. PICK d : d = DisconnectBlock(c, b).coins
  OBVIOUS
<1>2. d \in CoinMap
  BY <1>1, Disconnected, Zenon
<1>3. ASSUME NEW o \in Outpoint
      PROVE  d[o] = UtxoAt[new][o] \/ d[o] = UtxoAt[Parent[b]][o]
  <2>1. CASE Touched(b, o)
    BY <1>1, <2>1, Disconnected, Zenon
  <2>2. CASE ~Touched(b, o)
    <3>1. d[o] = c[o]
      BY <1>1, <2>2, Disconnected, Zenon
    <3>2. UtxoAt[b][o] = UtxoAt[Parent[b]][o]
      BY <2>2, Rollforward, Zenon
    <3>3. c[o] = UtxoAt[new][o] \/ c[o] = UtxoAt[b][o]
      BY Zenon DEF Between
    <3> QED BY <3>1, <3>2, <3>3, Zenon
  <2> QED BY <2>1, <2>2, Zenon
<1> QED BY <1>1, <1>2, <1>3, Zenon DEF Between

LEMMA OneForward ==
  ASSUME NEW b \in Block \ {Genesis}, NEW new \in Block, NEW c \in CoinMap,
         Between(c, new, Parent[b])
  PROVE  RollforwardBlock(c, b) \in CoinMap /\ Between(RollforwardBlock(c, b), new, b)
<1>1. PICK d : d = RollforwardBlock(c, b)
  OBVIOUS
<1>2. d \in CoinMap
  BY <1>1, RollforwardType, Zenon
<1>3. ASSUME NEW o \in Outpoint
      PROVE  d[o] = UtxoAt[new][o] \/ d[o] = UtxoAt[b][o]
  <2>1. CASE Touched(b, o)
    BY <1>1, <2>1, Rollforward, Zenon
  <2>2. CASE ~Touched(b, o)
    <3>1. d[o] = c[o] /\ UtxoAt[b][o] = UtxoAt[Parent[b]][o]
      BY <1>1, <2>2, Rollforward, Zenon
    <3>2. c[o] = UtxoAt[new][o] \/ c[o] = UtxoAt[Parent[b]][o]
      BY Zenon DEF Between
    <3> QED BY <3>1, <3>2, Zenon
  <2> QED BY <2>1, <2>2, Zenon
<1> QED BY <1>1, <1>2, <1>3, Zenon DEF Between

LEMMA Back ==
  ASSUME NEW new \in Block, NEW old \in Block, NEW fork \in Ancestors[old],
         NEW c \in CoinMap, Between(c, new, old)
  PROVE  /\ RolledBack(c, old, fork) \in CoinMap
         /\ Between(RolledBack(c, old, fork), new, fork)
<1> DEFINE H == Height[old]
           n == H - Height[fork]
           Nth(i) == GetAncestor(old, H + 1 - i)
           E(g) == [i \in 0..n |-> IF i = 0 THEN c ELSE DisconnectBlock(g[i - 1], Nth(i)).coins]
           F == [i \in 1..n |-> [s \in CoinMap |-> DisconnectBlock(s, Nth(i)).coins]]
<1>1. /\ H \in Nat /\ fork \in Block /\ Height[fork] \in Nat /\ Height[fork] <= H
      /\ GetAncestor(old, Height[fork]) = fork
  BY Lower, HeightRec, AncestorFound, Zenon
<1>2. n \in Nat
  BY <1>1
<1>3. \A i \in 1..n : /\ H + 1 - i \in 1..H /\ (H + 1 - i) - 1 = H + 1 - (i + 1)
                      /\ i - 1 \in 0..n /\ i \in 0..n /\ i # 0
  BY <1>1
<1>4. ASSUME NEW i \in 1..n
      PROVE  Nth(i) \in Block \ {Genesis} /\ Parent[Nth(i)] = Nth(i + 1)
  <2>1. PICK h : h = H + 1 - i
    OBVIOUS
  <2>2. h \in 1..H /\ h - 1 = H + 1 - (i + 1)
    BY <1>3, <2>1, Zenon
  <2>3. GetAncestor(old, h) \in Block \ {Genesis} /\ Parent[GetAncestor(old, h)] = GetAncestor(old, h - 1)
    BY <2>2, AncestorFound, Zenon
  <2> QED BY <2>1, <2>2, <2>3, Zenon
<1>5. Nth(1) = old /\ Nth(n + 1) = fork
  <2>1. H + 1 - 1 = H /\ H + 1 - (n + 1) = Height[fork]
    BY <1>1
  <2>2. GetAncestor(old, H) = old
    BY AncestorsRec, AncestorFound, Zenon
  <2> HIDE DEF H
  <2> QED BY <2>1, <2>2, <1>1, Zenon
<1> HIDE DEF Nth
<1>6. F \in [1..n -> [CoinMap -> CoinMap]]
  BY <1>4, Disconnected, Zenon
<1>7. \A i \in 1..n : \A s \in CoinMap : F[i][s] = DisconnectBlock(s, Nth(i)).coins
  BY Zenon
<1> HIDE DEF n, F
<1>8. PICK f : Iterates(f, n, CoinMap, c, F)
  BY <1>2, <1>6, IndexRecursion, Zenon
<1>9. \A i \in 0..n : i # 0 => i \in 1..n
  BY <1>2
<1>10. f = E(f)
  <2>1. \A i \in 0..n : f[i] = E(f)[i]
    BY <1>3, <1>7, <1>8, <1>9, Zenon DEF Iterates
  <2> QED BY <1>8, <2>1, Zenon DEF Iterates
<1>11. \E g : g = E(g)
  <2> HIDE DEF E
  <2> QED BY <1>10, Zenon
<1> DEFINE u == CHOOSE g : g = E(g)
<1>12. u = E(u)
  <2> HIDE DEF E
  <2> QED BY <1>11, Zenon
<1>13. RolledBack(c, old, fork) = u[n]
  BY Zenon DEF RolledBack, n, Nth
<1> HIDE DEF u
<1>14. 0 \in 0..n /\ n \in 0..n
  BY <1>2
<1>15. u[0] = c
  BY <1>12, <1>14, Zenon
<1>16. \A i \in 1..n : u[i] = DisconnectBlock(u[i - 1], Nth(i)).coins
  BY <1>12, <1>3, Zenon
<1> DEFINE T == {i \in 0..n : u[i] \in CoinMap /\ Between(u[i], new, Nth(i + 1))}
<1>17. 0 \in T
  <2>1. 0 + 1 = 1
    OBVIOUS
  <2> QED BY <2>1, <1>5, <1>14, <1>15, Zenon
<1>18. ASSUME NEW i \in 1..n, i - 1 \in T PROVE i \in T
  <2>1. (i - 1) + 1 = i
    BY <1>2
  <2>2. u[i - 1] \in CoinMap /\ Between(u[i - 1], new, Nth(i))
    BY <1>18, <2>1, Zenon
  <2>3. PICK d : d = u[i - 1]
    OBVIOUS
  <2>4. PICK b : b = Nth(i)
    OBVIOUS
  <2>5. b \in Block \ {Genesis} /\ Parent[b] = Nth(i + 1)
    BY <1>4, <2>4, Zenon
  <2>6. DisconnectBlock(d, b).coins \in CoinMap /\ Between(DisconnectBlock(d, b).coins, new, Parent[b])
    BY <2>2, <2>3, <2>4, <2>5, OneBack, Zenon
  <2> QED BY <2>3, <2>4, <2>5, <2>6, <1>3, <1>16, Zenon
<1>19. T = 0..n
  <2> HIDE DEF T
  <2>1. T \in SUBSET (0..n)
    BY Zenon DEF T
  <2> QED BY <1>2, <1>17, <1>18, <2>1, UpTo, Zenon
<1>20. n \in T
  BY <1>14, <1>19, Zenon
<1> QED BY <1>20, <1>13, <1>5, Zenon

LEMMA Forward ==
  ASSUME NEW new \in Block, NEW fork \in Ancestors[new],
         NEW c \in CoinMap, Between(c, new, fork)
  PROVE  RolledForward(c, Height[fork], new) = UtxoAt[new]
<1> DEFINE H == Height[fork]
           n == Height[new] - H
           Nth(i) == GetAncestor(new, H + i)
           E(g) == [i \in 0..n |-> IF i = 0 THEN c ELSE RollforwardBlock(g[i - 1], Nth(i))]
           F == [i \in 1..n |-> [s \in CoinMap |-> RollforwardBlock(s, Nth(i))]]
<1>1. /\ H \in Nat /\ fork \in Block /\ Height[new] \in Nat /\ H <= Height[new]
      /\ GetAncestor(new, H) = fork
  BY Lower, HeightRec, AncestorFound, Zenon
<1>2. n \in Nat
  BY <1>1
<1>3. \A i \in 1..n : /\ H + i \in 1..Height[new] /\ (H + i) - 1 = H + (i - 1)
                      /\ i - 1 \in 0..n /\ i \in 0..n /\ i # 0
  BY <1>1
<1>4. ASSUME NEW i \in 1..n
      PROVE  Nth(i) \in Block \ {Genesis} /\ Parent[Nth(i)] = Nth(i - 1)
  <2>1. PICK h : h = H + i
    OBVIOUS
  <2>2. h \in 1..Height[new] /\ h - 1 = H + (i - 1)
    BY <1>3, <2>1, Zenon
  <2>3. GetAncestor(new, h) \in Block \ {Genesis} /\ Parent[GetAncestor(new, h)] = GetAncestor(new, h - 1)
    BY <2>2, AncestorFound, Zenon
  <2> QED BY <2>1, <2>2, <2>3, Zenon
<1>5. Nth(0) = fork /\ Nth(n) = new
  <2>1. H + 0 = H /\ H + n = Height[new]
    BY <1>1
  <2>2. GetAncestor(new, Height[new]) = new
    BY AncestorsRec, AncestorFound, Zenon
  <2> HIDE DEF H, n
  <2> QED BY <2>1, <2>2, <1>1, Zenon
<1> HIDE DEF Nth
<1>6. F \in [1..n -> [CoinMap -> CoinMap]]
  BY <1>4, RollforwardType, Zenon
<1>7. \A i \in 1..n : \A s \in CoinMap : F[i][s] = RollforwardBlock(s, Nth(i))
  BY Zenon
<1> HIDE DEF n, F
<1>8. PICK f : Iterates(f, n, CoinMap, c, F)
  BY <1>2, <1>6, IndexRecursion, Zenon
<1>9. \A i \in 0..n : i # 0 => i \in 1..n
  BY <1>2
<1>10. f = E(f)
  <2>1. \A i \in 0..n : f[i] = E(f)[i]
    BY <1>3, <1>7, <1>8, <1>9, Zenon DEF Iterates
  <2> QED BY <1>8, <2>1, Zenon DEF Iterates
<1>11. \E g : g = E(g)
  <2> HIDE DEF E
  <2> QED BY <1>10, Zenon
<1> DEFINE u == CHOOSE g : g = E(g)
<1>12. u = E(u)
  <2> HIDE DEF E
  <2> QED BY <1>11, Zenon
<1>13. RolledForward(c, H, new) = u[n]
  BY Zenon DEF RolledForward, n, Nth
<1> HIDE DEF u
<1>14. 0 \in 0..n /\ n \in 0..n
  BY <1>2
<1>15. u[0] = c
  BY <1>12, <1>14, Zenon
<1>16. \A i \in 1..n : u[i] = RollforwardBlock(u[i - 1], Nth(i))
  BY <1>12, <1>3, Zenon
<1> DEFINE T == {i \in 0..n : u[i] \in CoinMap /\ Between(u[i], new, Nth(i))}
<1>17. 0 \in T
  BY <1>5, <1>14, <1>15, Zenon
<1>18. ASSUME NEW i \in 1..n, i - 1 \in T PROVE i \in T
  <2>1. PICK d : d = u[i - 1]
    OBVIOUS
  <2>2. PICK b : b = Nth(i)
    OBVIOUS
  <2>3. b \in Block \ {Genesis} /\ Parent[b] = Nth(i - 1)
    BY <1>4, <2>2, Zenon
  <2>4. d \in CoinMap /\ Between(d, new, Parent[b])
    BY <1>18, <2>1, <2>3, Zenon
  <2>5. RollforwardBlock(d, b) \in CoinMap /\ Between(RollforwardBlock(d, b), new, b)
    BY <2>3, <2>4, OneForward, Zenon
  <2> QED BY <2>1, <2>2, <2>5, <1>3, <1>16, Zenon
<1>19. T = 0..n
  <2> HIDE DEF T
  <2>1. T \in SUBSET (0..n)
    BY Zenon DEF T
  <2> QED BY <1>2, <1>17, <1>18, <2>1, UpTo, Zenon
<1>20. u[n] \in CoinMap /\ Between(u[n], new, new)
  <2>1. n \in T
    BY <1>14, <1>19, Zenon
  <2> QED BY <2>1, <1>5, Zenon
<1>21. UtxoAt[new] \in CoinMap
  BY UtxoRec, Zenon
<1>22. \A o \in Outpoint : u[n][o] = UtxoAt[new][o]
  BY <1>20, Zenon DEF Between
<1>23. u[n] = UtxoAt[new]
  BY <1>20, <1>21, <1>22, SameCoins, Zenon
<1> QED BY <1>13, <1>23, Zenon

\* From coins each of which is before or after an interrupted write, the replay
\* makes exactly the UTXO set that was to be written.
LEMMA ReplayExact ==
  ASSUME NEW new \in Block, NEW old \in Block \cup {NoBlock}, NEW c \in CoinMap,
         \A o \in Outpoint : c[o] \in {Utxo(new)[o], Utxo(old)[o]}
  PROVE  Replayed(c, new, old) = UtxoAt[new]
<1>1. Utxo(new) = UtxoAt[new]
  BY ParentType, Zenon DEF Utxo
<1>2. CASE old = NoBlock
  <2>1. Genesis \in Ancestors[new] /\ Height[Genesis] = 0
    BY AncestorsRec, HeightRec, Zenon
  <2>2. Utxo(old) = UtxoAt[Genesis]
    BY <1>2, UtxoRec, Zenon DEF Utxo
  <2>3. Between(c, new, Genesis)
    BY <1>1, <2>2, Zenon DEF Between
  <2>4. RolledForward(c, Height[Genesis], new) = UtxoAt[new]
    BY <2>1, <2>3, Forward, Zenon
  <2>5. Replayed(c, new, old) = RolledForward(c, 0, new)
    BY <1>2, Zenon DEF Replayed
  <2> QED BY <2>1, <2>4, <2>5, Zenon
<1>3. CASE old # NoBlock
  <2>1. old \in Block /\ Utxo(old) = UtxoAt[old]
    BY <1>3, Zenon DEF Utxo
  <2>2. Between(c, new, old)
    BY <1>1, <2>1, Zenon DEF Between
  <2>3. PICK fork : fork = LastCommonAncestor(old, new)
    OBVIOUS
  <2>4. fork \in Ancestors[old] /\ fork \in Ancestors[new]
    BY <2>1, <2>3, ForkFound, Zenon
  <2>5. PICK d : d = RolledBack(c, old, fork)
    OBVIOUS
  <2>6. d \in CoinMap /\ Between(d, new, fork)
    BY <2>1, <2>2, <2>4, <2>5, Back, Zenon
  <2>7. RolledForward(d, Height[fork], new) = UtxoAt[new]
    BY <2>4, <2>6, Forward, Zenon
  <2> QED BY <1>3, <2>3, <2>5, <2>7, Zenon DEF Replayed
<1> QED BY <1>2, <1>3, Zenon

-----------------------------------------------------------------------------
\* The inductive invariant.

\* What a database holds, whenever it is read.
Sound(d) ==
  /\ d.heads = <<>> => d.coins = Utxo(d.best)
  /\ d.heads # <<>> =>
       /\ d.best = NoBlock
       /\ \A o \in Outpoint : d.coins[o] \in {Utxo(d.heads[1])[o], Utxo(d.heads[2])[o]}

IInv ==
  /\ TypeOK
  /\ Sound(db) /\ Sound(durable)
  /\ pc # "down" => coins = Utxo(tip)
  /\ pc = "run" => db.heads = <<>>
  /\ pc = "flush" => tip # NoBlock /\ (db.heads # <<>> => db.heads[1] = tip)

LEMMA UtxoType ==
  /\ \A b \in Block \cup {NoBlock} : Utxo(b) \in CoinMap
  /\ \A b \in Block : Utxo(b) = UtxoAt[b]
  /\ Utxo(NoBlock) = NoCoins
BY UtxoRec, CoinTypes, ParentType, Zenon DEF Utxo

LEMMA HeadsType ==
  ASSUME NEW d \in DB
  PROVE  /\ d.coins \in CoinMap /\ d.best \in Block \cup {NoBlock}
         /\ d.heads = <<>> <=> Len(d.heads) # 2
         /\ d.heads # <<>> => d.heads[1] \in Block /\ d.heads[2] \in Block \cup {NoBlock}
<1>1. PICK h : h = d.heads
  OBVIOUS
<1>2. /\ d.coins \in CoinMap /\ d.best \in Block \cup {NoBlock}
      /\ h \in {<<>>} \cup (Block \X (Block \cup {NoBlock}))
  BY <1>1 DEF DB
<1>3. CASE h = <<>>
  BY <1>1, <1>2, <1>3
<1>4. CASE h \in Block \X (Block \cup {NoBlock})
  <2>1. PICK x \in Block, y \in Block \cup {NoBlock} : h = <<x, y>>
    BY <1>4
  <2>2. Len(h) = 2 /\ h[1] = x /\ h[2] = y /\ h # <<>>
    BY <2>1
  <2> QED BY <1>1, <1>2, <2>2, Zenon
<1> QED BY <1>2, <1>3, <1>4, Zenon

LEMMA ConnectTipStep ==
  ASSUME IInv, NEW b \in Block, ConnectTip(b)
  PROVE  IInv'
<1> USE DEF IInv
<1>1. /\ pc = "run" /\ coins' = ConnectBlock(coins, b) /\ tip' = b
      /\ UNCHANGED <<db, durable, pc, crashes>>
      /\ (IF b = Genesis THEN tip = NoBlock ELSE tip = Parent[b])
  BY Zenon DEF ConnectTip
<1>2. coins = Utxo(tip)
  BY <1>1
<1>3. ConnectBlock(coins, b) = UtxoAt[b]
  <2>1. CASE b = Genesis
    BY <1>1, <1>2, <2>1, UtxoType, UtxoRec, Zenon DEF ConnectBlock
  <2>2. CASE b # Genesis
    <3>1. tip \in Block /\ coins = UtxoAt[Parent[b]]
      BY <1>1, <1>2, <2>2, UtxoType, ParentType, Zenon
    <3> QED BY <3>1, <2>2, UtxoRec, Zenon DEF ConnectBlock
  <2> QED BY <2>1, <2>2, Zenon
<1>4. coins' = Utxo(tip') /\ coins' \in CoinMap /\ tip' \in Block
  BY <1>1, <1>3, UtxoType, UtxoRec, Zenon
<1>5. TypeOK'
  BY <1>1, <1>4 DEF TypeOK
<1>6. Sound(db)' /\ Sound(durable)'
  BY <1>1, Zenon DEF Sound, Utxo
<1>7. (pc # "down" => coins = Utxo(tip))'
  BY <1>4, Zenon DEF Utxo
<1>8. pc' = "run" /\ db'.heads = <<>>
  BY <1>1
<1> QED BY <1>5, <1>6, <1>7, <1>8

LEMMA DisconnectTipStep ==
  ASSUME IInv, DisconnectTip
  PROVE  IInv'
<1> USE DEF IInv
<1>1. /\ pc = "run" /\ tip \notin {NoBlock, Genesis}
      /\ coins' = DisconnectBlock(coins, tip).coins /\ tip' = Parent[tip]
      /\ UNCHANGED <<db, durable, pc, crashes>>
  BY Zenon DEF DisconnectTip
<1>2. tip \in Block \ {Genesis} /\ coins = Utxo(tip)
  BY <1>1 DEF TypeOK
<1>3. coins = UtxoAt[tip] /\ Parent[tip] \in Block
  BY <1>2, UtxoType, ParentType, Zenon
<1>4. coins' = Utxo(tip') /\ coins' \in CoinMap /\ tip' \in Block
  <2>1. DisconnectBlock(UtxoAt[tip], tip).coins = UtxoAt[Parent[tip]]
    BY <1>2, DisconnectedClean, Zenon
  <2>2. coins' = UtxoAt[Parent[tip]]
    BY <2>1, <1>1, <1>3, Zenon
  <2> QED BY <2>2, <1>1, <1>3, UtxoType, UtxoRec, Zenon
<1>5. TypeOK'
  BY <1>1, <1>4 DEF TypeOK
<1>6. Sound(db)' /\ Sound(durable)'
  BY <1>1, Zenon DEF Sound, Utxo
<1>7. (pc # "down" => coins = Utxo(tip))'
  BY <1>4, Zenon DEF Utxo
<1>8. pc' = "run" /\ db'.heads = <<>>
  BY <1>1
<1> QED BY <1>5, <1>6, <1>7, <1>8

LEMMA FlushStep == ASSUME IInv, Flush PROVE IInv'
<1> USE DEF IInv
<1>1. /\ pc = "run" /\ tip # NoBlock /\ pc' = "flush"
      /\ UNCHANGED <<db, durable, coins, tip, crashes>>
  BY Zenon DEF Flush
<1>2. TypeOK'
  BY <1>1 DEF TypeOK
<1>3. Sound(db)' /\ Sound(durable)' /\ (pc # "down" => coins = Utxo(tip))'
  BY <1>1 DEF Sound, Utxo
<1>4. db'.heads = <<>> /\ tip' # NoBlock
  BY <1>1
<1> QED BY <1>1, <1>2, <1>3, <1>4

LEMMA WritePartialBatchStep ==
  ASSUME IInv, NEW S \in SUBSET Outpoint, WritePartialBatch(S)
  PROVE  IInv'
<1> USE DEF IInv
<1>1. /\ pc = "flush" /\ db' = PartialBatch(S)
      /\ UNCHANGED <<durable, coins, tip, pc, crashes>>
  BY Zenon DEF WritePartialBatch
<1>2. /\ db \in DB /\ coins \in CoinMap /\ tip \in Block /\ coins = Utxo(tip)
      /\ (db.heads # <<>> => db.heads[1] = tip)
  BY <1>1 DEF TypeOK
<1>3. /\ db'.coins = Written(S) /\ db'.best = NoBlock /\ db'.heads = <<tip, OldTip>>
      /\ db' = [coins |-> Written(S), best |-> NoBlock, heads |-> <<tip, OldTip>>]
  BY <1>1 DEF PartialBatch
<1>4. OldTip \in Block \cup {NoBlock}
      /\ \A o \in Outpoint : db.coins[o] \in {Utxo(tip)[o], Utxo(OldTip)[o]}
  <2>1. CASE db.heads = <<>>
    <3>1. OldTip = db.best
      BY <2>1, <1>2, HeadsType, Zenon DEF OldTip
    <3>2. db.coins = Utxo(db.best)
      BY <2>1, Zenon DEF Sound
    <3> QED BY <3>1, <3>2, <1>2, HeadsType, Zenon
  <2>2. CASE db.heads # <<>>
    <3>1. db.best = NoBlock /\ \A o \in Outpoint : db.coins[o] \in {Utxo(db.heads[1])[o], Utxo(db.heads[2])[o]}
      BY <2>2, Zenon DEF Sound
    <3>2. OldTip = db.heads[2]
      BY <2>2, <3>1, <1>2, HeadsType, Zenon DEF OldTip
    <3> QED BY <3>1, <3>2, <2>2, <1>2, HeadsType, Zenon
  <2> QED BY <2>1, <2>2, Zenon
<1>5. Written(S) \in CoinMap
  <2>1. db.coins \in CoinMap
    BY <1>2, HeadsType, Zenon
  <2> QED BY <1>2, <2>1, Zenon DEF Written, CoinMap
<1>6. \A o \in Outpoint : Written(S)[o] \in {Utxo(tip)[o], Utxo(OldTip)[o]}
  BY <1>2, <1>4, Zenon DEF Written
<1>7. PICK w, t : w = Written(S) /\ t = OldTip
  OBVIOUS
<1>8. db' = [coins |-> w, best |-> NoBlock, heads |-> <<tip, t>>]
  BY <1>3, <1>7, Zenon
<1>9. db' \in DB
  <2>1. <<tip, t>> \in Block \X (Block \cup {NoBlock})
    BY <1>2, <1>4, <1>7
  <2> QED BY <1>5, <1>7, <1>8, <2>1 DEF DB
<1>10. TypeOK'
  BY <1>1, <1>9 DEF TypeOK
<1>11. db'.heads # <<>> /\ db'.heads[1] = tip /\ db'.heads[2] = t
       /\ db'.coins = w /\ db'.best = NoBlock
  BY <1>8
<1>12. Sound(db)'
  BY <1>6, <1>7, <1>11, Zenon DEF Sound, Utxo
<1>13. Sound(durable)' /\ (pc # "down" => coins = Utxo(tip))'
  BY <1>1 DEF Sound, Utxo
<1>14. pc' = "flush" /\ tip' # NoBlock /\ tip' = tip
  BY <1>1
<1> QED BY <1>10, <1>11, <1>12, <1>13, <1>14

LEMMA WriteFinalBatchStep ==
  ASSUME IInv, WriteFinalBatch
  PROVE  IInv'
<1> USE DEF IInv
<1>1. /\ pc = "flush" /\ pc' = "run"
      /\ db' = [coins |-> Written(Dirtied), best |-> tip, heads |-> <<>>]
      /\ UNCHANGED <<durable, coins, tip, crashes>>
  BY Zenon DEF WriteFinalBatch
<1>2. db \in DB /\ coins \in CoinMap /\ tip \in Block /\ coins = Utxo(tip)
  BY <1>1 DEF TypeOK
<1>3. Written(Dirtied) = coins
  <2>1. db.coins \in CoinMap
    BY <1>2, HeadsType, Zenon
  <2>2. Written(Dirtied) \in CoinMap
    BY <1>2, <2>1, Zenon DEF Written, CoinMap
  <2>3. \A o \in Outpoint : Written(Dirtied)[o] = coins[o]
    BY Zenon DEF Written, Dirtied
  <2> QED BY <1>2, <2>2, <2>3, SameCoins, Zenon
<1>4. db' = [coins |-> coins, best |-> tip, heads |-> <<>>]
  BY <1>1, <1>3, Zenon
<1>5. db' \in DB
  BY <1>2, <1>4 DEF DB
<1>6. TypeOK'
  BY <1>1, <1>5 DEF TypeOK
<1>7. db'.heads = <<>> /\ db'.coins = coins /\ db'.best = tip
  BY <1>4
<1>8. Sound(db)'
  BY <1>2, <1>7, Zenon DEF Sound, Utxo
<1>9. Sound(durable)' /\ (pc # "down" => coins = Utxo(tip))'
  BY <1>1 DEF Sound, Utxo
<1> QED BY <1>1, <1>6, <1>7, <1>8, <1>9

LEMMA WriteBehindStep == ASSUME IInv, WriteBehind PROVE IInv'
<1> USE DEF IInv
<1>1. durable' = db /\ UNCHANGED <<db, coins, tip, pc, crashes>>
  BY Zenon DEF WriteBehind
<1>2. TypeOK'
  BY <1>1 DEF TypeOK
<1>3. Sound(db)' /\ Sound(durable)'
  BY <1>1, Zenon DEF Sound, Utxo
<1>4. (pc # "down" => coins = Utxo(tip))'
  BY <1>1, Zenon DEF Utxo
<1> QED BY <1>1, <1>2, <1>3, <1>4

\* The process is gone, and the database is what it was or what a power loss
\* left of it.
LEMMA DownStep ==
  ASSUME IInv, Crash \/ PowerLoss
  PROVE  IInv'
<1> USE DEF IInv
<1>1. /\ crashes < MaxCrashes /\ crashes' = crashes + 1 /\ pc' = "down"
      /\ coins' = NoCoins /\ tip' = NoBlock /\ durable' = durable
      /\ (db' = db \/ db' = durable)
  BY Zenon DEF Crash, PowerLoss
<1>2. TypeOK'
  BY <1>1, CoinTypes, TreeAssumption DEF TypeOK
<1>3. Sound(db)' /\ Sound(durable)'
  <2>1. Sound(durable)'
    BY <1>1, Zenon DEF Sound, Utxo
  <2>2. CASE db' = db
    BY <2>1, <2>2, Zenon DEF Sound, Utxo
  <2>3. CASE db' = durable
    BY <2>1, <2>3, Zenon DEF Sound, Utxo
  <2> QED BY <1>1, <2>1, <2>2, <2>3, Zenon
<1> QED BY <1>1, <1>2, <1>3

LEMMA ReplayBlocksStep ==
  ASSUME IInv, ReplayBlocks
  PROVE  IInv'
<1> USE DEF IInv
<1>1. /\ Len(db.heads) = 2
      /\ coins' = Replayed(db.coins, db.heads[1], db.heads[2])
      /\ tip' = db.heads[1] /\ pc' = "flush"
      /\ UNCHANGED <<db, durable, crashes>>
  BY Zenon DEF ReplayBlocks
<1>2. PICK c, new, old : c = db.coins /\ new = db.heads[1] /\ old = db.heads[2]
  OBVIOUS
<1>3. db \in DB
  BY DEF TypeOK
<1>4. c \in CoinMap /\ new \in Block /\ old \in Block \cup {NoBlock} /\ db.heads # <<>>
  BY <1>1, <1>2, <1>3, HeadsType, Zenon
<1>5. \A o \in Outpoint : c[o] \in {Utxo(new)[o], Utxo(old)[o]}
  BY <1>2, <1>4, Zenon DEF Sound
<1>6. coins' = UtxoAt[new]
  BY <1>1, <1>2, <1>4, <1>5, ReplayExact, Zenon
<1>7. coins' = Utxo(tip') /\ coins' \in CoinMap /\ tip' \in Block /\ tip' # NoBlock
  BY <1>1, <1>2, <1>4, <1>6, UtxoType, UtxoRec, ParentType, Zenon
<1>8. TypeOK'
  BY <1>1, <1>7 DEF TypeOK
<1>9. Sound(db)' /\ Sound(durable)'
  BY <1>1, Zenon DEF Sound, Utxo
<1>10. (pc # "down" => coins = Utxo(tip))'
  BY <1>7, Zenon DEF Utxo
<1> QED BY <1>1, <1>7, <1>8, <1>9, <1>10

LEMMA LoadChainTipStep ==
  ASSUME IInv, LoadChainTip
  PROVE  IInv'
<1> USE DEF IInv
<1>1. /\ db.heads = <<>> /\ coins' = db.coins /\ tip' = db.best /\ pc' = "run"
      /\ UNCHANGED <<db, durable, crashes>>
  BY Zenon DEF LoadChainTip
<1>2. db \in DB /\ db.coins = Utxo(db.best)
  BY <1>1 DEF TypeOK, Sound
<1>3. coins' \in CoinMap /\ tip' \in Block \cup {NoBlock} /\ coins' = Utxo(tip')
  BY <1>1, <1>2, HeadsType, Zenon
<1>4. TypeOK'
  BY <1>1, <1>3 DEF TypeOK
<1>5. Sound(db)' /\ Sound(durable)'
  BY <1>1, Zenon DEF Sound, Utxo
<1>6. (pc # "down" => coins = Utxo(tip))'
  BY <1>3, Zenon DEF Utxo
<1> QED BY <1>1, <1>4, <1>5, <1>6

LEMMA Invariance == Spec => []IInv
<1>1. Init => IInv
  <2> SUFFICES ASSUME Init PROVE IInv
    OBVIOUS
  <2>1. /\ db = [coins |-> NoCoins, best |-> NoBlock, heads |-> <<>>] /\ durable = db
        /\ coins = NoCoins /\ tip = NoBlock /\ pc = "down" /\ crashes = 0
    BY Zenon DEF Init
  <2>2. db \in DB
    BY <2>1, CoinTypes DEF DB
  <2>3. TypeOK
    BY <2>1, <2>2, CoinTypes, TreeAssumption DEF TypeOK
  <2>4. db.heads = <<>> /\ db.coins = NoCoins /\ db.best = NoBlock
    BY <2>1
  <2>5. Sound(db) /\ Sound(durable)
    BY <2>1, <2>4, UtxoType, Zenon DEF Sound
  <2> QED BY <2>1, <2>3, <2>5 DEF IInv
<1>2. IInv /\ [Next]_vars => IInv'
  <2> SUFFICES ASSUME IInv, [Next]_vars PROVE IInv'
    OBVIOUS
  <2>1. CASE \E b \in Block : ConnectTip(b)
    BY <2>1, ConnectTipStep, Zenon
  <2>2. CASE DisconnectTip
    BY <2>2, DisconnectTipStep, Zenon
  <2>3. CASE Flush
    BY <2>3, FlushStep, Zenon
  <2>4. CASE \E S \in SUBSET Outpoint : WritePartialBatch(S)
    BY <2>4, WritePartialBatchStep, Zenon
  <2>5. CASE WriteFinalBatch
    BY <2>5, WriteFinalBatchStep, Zenon
  <2>6. CASE WriteBehind
    BY <2>6, WriteBehindStep, Zenon
  <2>7. CASE Crash \/ PowerLoss
    BY <2>7, DownStep, Zenon
  <2>8. CASE ReplayBlocks
    BY <2>8, ReplayBlocksStep, Zenon
  <2>9. CASE LoadChainTip
    BY <2>9, LoadChainTipStep, Zenon
  <2>10. CASE UNCHANGED vars
    <3>1. /\ db' = db /\ durable' = durable /\ coins' = coins /\ tip' = tip
          /\ pc' = pc /\ crashes' = crashes
      BY <2>10, Zenon DEF vars
    <3> QED BY <3>1 DEF IInv, TypeOK, Sound, Utxo
  <2> QED BY <2>1, <2>2, <2>3, <2>4, <2>5, <2>6, <2>7, <2>8, <2>9, <2>10, Zenon DEF Next
<1> QED BY <1>1, <1>2, PTL DEF Spec

\* The types of the coins database, the cache and the state of a replay.
THEOREM TypeCorrect == Spec => []TypeOK
<1>1. IInv => TypeOK
  BY Zenon DEF IInv
<1> QED BY <1>1, Invariance, PTL

\* Whatever was cut, and however often, and at any point of a write, of a replay
\* or of the write that ends a replay: CoinsTip() is the UTXO set of its best
\* block while the node runs (CCoinsViewDB::BatchWrite, ReplayBlocks).
THEOREM CoinsTipCorrect == Spec => []CoinsTipExact
<1>1. IInv => CoinsTipExact
  BY Zenon DEF IInv, CoinsTipExact
<1> QED BY <1>1, Invariance, PTL

\* At every moment the database is the UTXO set of its DB_BEST_BLOCK, or is
\* marked and lies between its two DB_HEAD_BLOCKS coin by coin; the assertion of
\* BatchWrite on the heads it finds holds.
THEOREM DatabaseCorrect == Spec => []DatabaseExact
<1>1. IInv => DatabaseExact
  <2> SUFFICES ASSUME IInv PROVE DatabaseExact
    OBVIOUS
  <2>1. db \in DB /\ durable \in DB /\ Sound(db) /\ Sound(durable)
    BY DEF IInv, TypeOK
  <2>2. UnmarkedIsConsistent
    BY <2>1, Zenon DEF UnmarkedIsConsistent, Sound
  <2>3. MarkedIsBetweenHeads
    BY <2>1, HeadsType, Zenon DEF MarkedIsBetweenHeads, Sound
  <2>4. SameTransition
    BY <2>1, HeadsType, Zenon DEF SameTransition, IInv
  <2> QED BY <2>2, <2>3, <2>4, Zenon DEF DatabaseExact
<1> QED BY <1>1, Invariance, PTL

\* DisconnectTip never meets DISCONNECT_UNCLEAN (DisconnectBlock).
THEOREM DisconnectCorrect == Spec => []CleanDisconnect
<1>1. IInv => CleanDisconnect
  <2> SUFFICES ASSUME IInv, pc = "run", tip \notin {NoBlock, Genesis}
               PROVE  DisconnectBlock(coins, tip).clean
    BY Zenon DEF CleanDisconnect
  <2>1. tip \in Block \ {Genesis} /\ coins = Utxo(tip)
    BY DEF IInv, TypeOK
  <2>2. coins = UtxoAt[tip]
    BY <2>1, UtxoType, Zenon
  <2> QED BY <2>1, <2>2, DisconnectedClean, Zenon
<1> QED BY <1>1, Invariance, PTL
=============================================================================
