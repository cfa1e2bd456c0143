-------------------------- MODULE IndexSyncProofs --------------------------
(***************************************************************************)
(* Proofs about IndexSync, for every block tree and any number of calls,   *)
(* reorganizations, crashes and shutdowns.                                 *)
(*                                                                         *)
(* The inductive invariant IInv says what the database holds even while    *)
(* the process is gone (Stored), what the index in memory adds while it    *)
(* runs (Running, Level, Position), and what the queue is good for:        *)
(* every event stands on the block connected last before it (Events), and  *)
(* an index that is behind the tip, or behind the block a caller waits     *)
(* for, finds an event in the queue that it will take up (Promise).        *)
(***************************************************************************)
EXTENDS IndexSync, WellFoundedInduction, TLAPS

-----------------------------------------------------------------------------
\* The tree.

\* Induction along the tree, for a set of blocks.
LEMMA TreeInduction ==
  ASSUME NEW S \in SUBSET Block, Genesis \in S,
         \A b \in Block \ {Genesis} : Parent[b] \in S => b \in S
  PROVE  S = Block
BY TreeAssumption, Zenon

LEMMA ParentType == Genesis \in Block /\ \A b \in Block \ {Genesis} : Parent[b] \in Block
BY TreeAssumption, Zenon

\* The recursive definition of the branch of a block has a solution: the least
\* set with the block that is closed under Parent.
LEMMA AncEquation ==
  Anc = [b \in Block |-> IF b = Genesis THEN {b} ELSE {b} \cup Anc[Parent[b]]]
<1> DEFINE F(f) == [b \in Block |-> IF b = Genesis THEN {b} ELSE {b} \cup f[Parent[b]]]
           Closed(b, S) == b \in S /\ \A x \in S \ {Genesis} : Parent[x] \in S
           Least(b) == {a \in Block : \A S \in SUBSET Block : Closed(b, S) => a \in S}
           w == [b \in Block |-> Least(b)]
<1>1. ASSUME NEW b \in Block
      PROVE  Least(b) = IF b = Genesis THEN {b} ELSE {b} \cup Least(Parent[b])
  <2>1. CASE b = Genesis
    <3>1. Closed(b, {b})
      BY <2>1, Zenon
    <3>2. \A a \in Least(b) : a = b
      BY <3>1, <2>1, TreeAssumption, Zenon
    <3> QED BY <3>2, <2>1, Zenon
  <2>2. CASE b # Genesis
    <3> DEFINE p == Parent[b]
    <3>0. p \in Block
      BY <2>2, ParentType, Zenon
    <3>1. \A S \in SUBSET Block : Closed(p, S) => Closed(b, S \cup {b})
      BY <3>0, Zenon
    <3>2. \A S \in SUBSET Block : Closed(b, S) => Closed(p, S)
      BY <2>2, Zenon
    <3>3. Least(b) \subseteq {b} \cup Least(p)
      BY <3>1, Zenon
    <3>4. {b} \cup Least(p) \subseteq Least(b)
      BY <3>2, Zenon
    <3> QED BY <3>3, <3>4, <2>2, Zenon
  <2> QED BY <2>1, <2>2, Zenon
<1>2. w = F(w)
  <2>1. ASSUME NEW b \in Block PROVE w[b] = F(w)[b]
    <3>1. CASE b = Genesis
      BY <3>1, <1>1, Zenon
    <3>2. CASE b # Genesis
      <4>1. Parent[b] \in Block
        BY <3>2, ParentType, Zenon
      <4> HIDE DEF Least
      <4> QED BY <3>2, <1>1, <4>1, Zenon
    <3> QED BY <3>1, <3>2, Zenon
  <2> HIDE DEF Least
  <2> QED BY <2>1, Zenon
<1>3. \E f : f = F(f)
  <2> HIDE DEF w, F
  <2> QED BY <1>2, Zenon
<1>4. (CHOOSE f : f = F(f)) = F(CHOOSE f : f = F(f))
  <2> HIDE DEF F
  <2> QED BY <1>3, Zenon
<1> QED BY <1>4, Zenon DEF Anc

\* What the definition of Ancestors says of a block and its parent.
LEMMA AncRec ==
  /\ Anc[Genesis] = {Genesis}
  /\ \A b \in Block \ {Genesis} : Anc[b] = {b} \cup Anc[Parent[b]]
  /\ \A b \in Block : b \in Anc[b] /\ Anc[b] \subseteq Block /\ Genesis \in Anc[b]
<1>1. \A b \in Block : Anc[b] = IF b = Genesis THEN {b} ELSE {b} \cup Anc[Parent[b]]
  BY AncEquation, ParentType, Zenon DEF Anc
<1> DEFINE S == {b \in Block : Anc[b] \subseteq Block /\ Genesis \in Anc[b]}
<1>2. Genesis \in S
  BY <1>1, ParentType, Zenon
<1>3. \A b \in Block \ {Genesis} : Parent[b] \in S => b \in S
  BY <1>1, Zenon
<1>4. S = Block
  <2> HIDE DEF S
  <2>1. S \in SUBSET Block
    BY Zenon DEF S
  <2> QED BY <1>2, <1>3, <2>1, TreeInduction, Zenon
<1>5. \A b \in Block : Anc[b] \subseteq Block /\ Genesis \in Anc[b]
  BY <1>4, Zenon
<1>6. Anc[Genesis] = {Genesis}
  BY <1>1, ParentType, Zenon
<1>7. \A b \in Block \ {Genesis} : Anc[b] = {b} \cup Anc[Parent[b]]
  BY <1>1, Zenon
<1>8. \A b \in Block : b \in Anc[b]
  BY <1>6, <1>7, Zenon
<1> QED BY <1>5, <1>6, <1>7, <1>8, Zenon

\* A branch holds the branches of its blocks.
LEMMA AncTransitive ==
  ASSUME NEW b \in Block, NEW a \in Anc[b]
  PROVE  a \in Block /\ Anc[a] \subseteq Anc[b]
<1> DEFINE S == {x \in Block : \A y \in Anc[x] : Anc[y] \subseteq Anc[x]}
<1>1. Genesis \in S
  BY AncRec, ParentType, Zenon
<1>2. \A x \in Block \ {Genesis} : Parent[x] \in S => x \in S
  BY AncRec
<1>3. S = Block
  <2> HIDE DEF S
  <2>1. S \in SUBSET Block
    BY Zenon DEF S
  <2> QED BY <1>1, <1>2, <2>1, TreeInduction, Zenon
<1> QED BY <1>3, AncRec, Zenon

LEMMA AncClosed ==
  ASSUME NEW b \in Block, NEW a \in Anc[b], a # Genesis
  PROVE  Parent[a] \in Anc[b]
BY AncTransitive, AncRec, ParentType, Zenon

\* The tree has no cycle.
LEMMA NotOwnAncestor ==
  ASSUME NEW b \in Block \ {Genesis}
  PROVE  b \notin Anc[Parent[b]]
<1> SUFFICES ASSUME b \in Anc[Parent[b]] PROVE FALSE
  BY Zenon
<1> DEFINE S == {x \in Block : b \notin Anc[x]}
<1>1. Genesis \in S
  BY AncRec, ParentType, Zenon
<1>2. \A x \in Block \ {Genesis} : Parent[x] \in S => x \in S
  BY AncRec, Zenon
<1>3. S = Block
  <2> HIDE DEF S
  <2>1. S \in SUBSET Block
    BY Zenon DEF S
  <2> QED BY <1>1, <1>2, <2>1, TreeInduction, Zenon
<1> QED BY <1>3, ParentType, Zenon

\* The recursive definition of the height has a solution: every branch has
\* exactly one, and they agree.
LEMMA HeightEquation ==
  /\ nHeight \in [Block -> Nat]
  /\ nHeight[Genesis] = 0
  /\ \A b \in Block \ {Genesis} : nHeight[b] = nHeight[Parent[b]] + 1
<1> DEFINE F(f) == [b \in Block |->
                      IF b = Genesis THEN 0 ELSE f[Parent[b]] + 1]
           Solves(g, b) ==
             /\ g \in [Anc[b] -> Nat]
             /\ \A a \in Anc[b] :
                  g[a] = IF a = Genesis THEN 0 ELSE g[Parent[a]] + 1
           w == [b \in Block |-> (CHOOSE g : Solves(g, b))[b]]
<1>1. \A b \in Block : \E g : Solves(g, b)
  <2> DEFINE S == {b \in Block : \E g : Solves(g, b)}
  <2>1. Genesis \in S
    <3> DEFINE g == [a \in {Genesis} |-> 0]
    <3>1. Solves(g, Genesis)
      <4>1. 0 \in Nat
        OBVIOUS
      <4> QED BY <4>1, AncRec, Zenon
    <3> QED BY <3>1, ParentType, Zenon
  <2>2. ASSUME NEW b \in Block \ {Genesis}, Parent[b] \in S
        PROVE  b \in S
    <3>1. PICK g : Solves(g, Parent[b])
      BY <2>2, Zenon
    <3> DEFINE h == [a \in Anc[b] |-> IF a = b THEN g[Parent[b]] + 1 ELSE g[a]]
    <3>2. /\ Anc[b] = {b} \cup Anc[Parent[b]]
          /\ Parent[b] \in Anc[Parent[b]]
          /\ b \notin Anc[Parent[b]]
      BY AncRec, NotOwnAncestor, ParentType, Zenon
    <3>3. \A a \in Anc[Parent[b]] : a # Genesis => Parent[a] \in Anc[Parent[b]]
      BY ParentType, AncClosed, Zenon
    <3>4. g[Parent[b]] \in Nat
      BY <3>1, <3>2, Zenon
    <3>5. h \in [Anc[b] -> Nat]
      BY <3>1, <3>2, <3>4
    <3>6. ASSUME NEW a \in Anc[b]
          PROVE  h[a] = IF a = Genesis THEN 0 ELSE h[Parent[a]] + 1
      <4>1. CASE a = b
        BY <4>1, <3>2, Zenon
      <4>2. CASE a # b
        BY <4>2, <3>2, <3>3, <3>1, Zenon
      <4> QED BY <4>1, <4>2, Zenon
    <3>7. Solves(h, b)
      BY <3>5, <3>6, Zenon
    <3> QED BY <3>7, Zenon
  <2>3. S = Block
    <3> HIDE DEF S
    <3>1. S \in SUBSET Block
      BY Zenon DEF S
    <3> QED BY <2>1, <2>2, <3>1, TreeInduction, Zenon
  <2> QED BY <2>3, Zenon
<1>2. ASSUME NEW b \in Block PROVE Solves(CHOOSE g : Solves(g, b), b)
  <2>1. \E g : Solves(g, b)
    BY <1>1, Zenon
  <2> HIDE DEF Solves
  <2> QED BY <2>1, Zenon
<1>3. ASSUME NEW b \in Block
      PROVE  \A g, h, c : c \in Block /\ b \in Anc[c] /\ Solves(g, b)
                           /\ Solves(h, c) => g[b] = h[b]
  <2> DEFINE S == {x \in Block : \A g, h, c :
                     c \in Block /\ x \in Anc[c] /\ Solves(g, x) /\ Solves(h, c) => g[x] = h[x]}
  <2>1. Genesis \in S
    BY AncRec, ParentType, Zenon
  <2>2. ASSUME NEW x \in Block \ {Genesis}, Parent[x] \in S PROVE x \in S
    <3>1. ASSUME NEW g, NEW h, NEW c \in Block, x \in Anc[c], Solves(g, x), Solves(h, c)
          PROVE  g[x] = h[x]
      <4> DEFINE p == Parent[x]
                 r == [a \in Anc[p] |-> g[a]]
      <4>1. /\ p \in Block /\ p \in Anc[p]
            /\ Anc[x] = {x} \cup Anc[p]
            /\ p \in Anc[c] /\ x \in Anc[x]
            /\ \A a \in Anc[p] : a # Genesis => Parent[a] \in Anc[p]
        BY <3>1, AncRec, ParentType, AncClosed, Zenon
      <4>2. Solves(r, p)
        BY <3>1, <4>1, Zenon
      <4>3. r[p] = h[p] /\ r[p] = g[p]
        <5>1. \A f, k, d : d \in Block /\ p \in Anc[d] /\ Solves(f, p) /\ Solves(k, d)
                             => f[p] = k[p]
          BY <2>2, Zenon
        <5>2. r[p] = g[p]
          BY <4>1, Zenon
        <5> HIDE DEF r, Solves
        <5> QED BY <5>1, <5>2, <4>1, <4>2, <3>1, Zenon
      <4>4. g[x] = g[p] + 1 /\ h[x] = h[p] + 1
        BY <3>1, <4>1, Zenon
      <4> QED BY <4>3, <4>4, Zenon
    <3> QED BY <3>1, Zenon
  <2>3. S = Block
    <3> HIDE DEF S
    <3>1. S \in SUBSET Block
      BY Zenon DEF S
    <3> QED BY <2>1, <2>2, <3>1, TreeInduction, Zenon
  <2> QED BY <2>3, Zenon
<1>4. ASSUME NEW b \in Block
      PROVE  /\ w[b] \in Nat
             /\ w[b] = IF b = Genesis THEN 0 ELSE w[Parent[b]] + 1
  <2> DEFINE h == CHOOSE g : Solves(g, b)
  <2>1. Solves(h, b)
    BY <1>2, Zenon
  <2>2. w[b] = h[b] /\ b \in Anc[b]
    BY AncRec, Zenon
  <2> HIDE DEF h
  <2>3. CASE b = Genesis
    <3> HIDE DEF w
    <3> QED BY <2>1, <2>2, <2>3, Zenon
  <2>4. CASE b # Genesis
    <3> DEFINE k == CHOOSE g : Solves(g, Parent[b])
    <3>1. Parent[b] \in Block
      BY <2>4, ParentType, Zenon
    <3>2. Solves(k, Parent[b]) /\ w[Parent[b]] = k[Parent[b]]
      BY <1>2, <3>1, Zenon
    <3> HIDE DEF k, w
    <3>3. Parent[b] \in Anc[b]
      BY <3>1, <2>4, AncRec, Zenon
    <3>4. k[Parent[b]] = h[Parent[b]]
      <4> HIDE DEF Solves
      <4> QED BY <3>1, <3>2, <3>3, <2>1, <1>3, Zenon
    <3> QED BY <2>1, <2>2, <2>4, <3>2, <3>4, Zenon
  <2> QED BY <2>3, <2>4, Zenon
<1>5. w = F(w)
  <2>1. \A b \in Block : F(w)[b] = w[b]
    <3> HIDE DEF w
    <3> QED BY <1>4, Zenon
  <2>2. w = [b \in Block |-> w[b]]
    OBVIOUS
  <2> HIDE DEF w
  <2> QED BY <2>1, <2>2, Zenon
<1>6. \E f : f = F(f)
  <2> HIDE DEF w, F
  <2> QED BY <1>5, Zenon
<1>7. (CHOOSE f : f = F(f)) = F(CHOOSE f : f = F(f))
  <2> HIDE DEF F
  <2> QED BY <1>6, Zenon
<1>8. nHeight = F(nHeight)
  BY <1>7, Zenon DEF nHeight
<1>9. \A b \in Block : nHeight[b] = IF b = Genesis THEN 0 ELSE nHeight[Parent[b]] + 1
  BY <1>8, Zenon
<1>10. \A b \in Block : nHeight[b] \in Nat
  <2> DEFINE S == {b \in Block : nHeight[b] \in Nat}
  <2>1. Genesis \in S
    BY <1>9, ParentType
  <2>2. ASSUME NEW b \in Block \ {Genesis}, Parent[b] \in S PROVE b \in S
    BY <2>2, <1>9
  <2>3. S = Block
    <3> HIDE DEF S
    <3>1. S \in SUBSET Block
      BY Zenon DEF S
    <3> QED BY <2>1, <2>2, <3>1, TreeInduction, Zenon
  <2> QED BY <2>3, Zenon
<1> QED
  <2>1. nHeight \in [Block -> Nat]
    BY <1>8, <1>10, Zenon
  <2> QED BY <2>1, <1>9, ParentType, Zenon
\* The branch of a block is the block on top of the branch of its parent.
LEMMA Branches ==
  /\ Ancestors(NoBlock) = {} /\ NoBlock \notin Block
  /\ \A b \in Block : /\ Ancestors(b) = {b} \cup Ancestors(Parent[b])
                      /\ Ancestors(b) \subseteq Block
                      /\ b \in Ancestors(b) /\ Genesis \in Ancestors(b)
                      /\ \A a \in Ancestors(b) : Ancestors(a) \subseteq Ancestors(b)
<1>1. Ancestors(NoBlock) = {} /\ NoBlock \notin Block
  BY TreeAssumption, Zenon DEF Ancestors, Chain
<1>2. \A b \in Block : Ancestors(b) = Anc[b]
  BY <1>1, Zenon DEF Ancestors, Chain
<1>3. \A b \in Block :
        Ancestors(b) \subseteq Block /\ b \in Ancestors(b) /\ Genesis \in Ancestors(b)
  BY <1>2, AncRec, Zenon
<1>4. ASSUME NEW b \in Block, NEW a \in Ancestors(b) PROVE Ancestors(a) \subseteq Ancestors(b)
  <2>1. a \in Anc[b] /\ a \in Block
    BY <1>2, <1>3, Zenon
  <2>2. Anc[a] \subseteq Anc[b]
    BY <2>1, AncTransitive, Zenon
  <2>3. Ancestors(a) = Anc[a] /\ Ancestors(b) = Anc[b]
    BY <2>1, <1>2, Zenon
  <2> QED BY <2>2, <2>3, Zenon
<1>5. ASSUME NEW b \in Block PROVE Ancestors(b) = {b} \cup Ancestors(Parent[b])
  <2>1. CASE b = Genesis
    <3>1. Parent[b] = NoBlock
      BY <2>1, TreeAssumption, Zenon
    <3>2. Ancestors(b) = {b}
      BY <2>1, <1>2, AncRec, Zenon
    <3> QED BY <3>1, <3>2, <1>1
  <2>2. CASE b # Genesis
    BY <2>2, <1>2, AncRec, ParentType, Zenon
  <2> QED BY <2>1, <2>2, Zenon
<1> QED BY <1>1, <1>3, <1>4, <1>5, Zenon

\* What has an ancestor is a block, and a branch holds the branches of its blocks.
LEMMA InBranch ==
  ASSUME NEW b \in Block \cup {NoBlock}, NEW a \in Ancestors(b)
  PROVE  a \in Block /\ b \in Block /\ a # NoBlock /\ Ancestors(a) \subseteq Ancestors(b)
<1>1. b \in Block
  <2>1. b # NoBlock
    BY Branches
  <2> QED BY <2>1
<1>2. Ancestors(b) \subseteq Block /\ (\A c \in Ancestors(b) : Ancestors(c) \subseteq Ancestors(b))
  BY <1>1, Branches, Zenon
<1> QED BY <1>1, <1>2, TreeAssumption, Zenon

LEMMA OwnBranch ==
  ASSUME NEW b \in Block PROVE b \in Ancestors(b) /\ b # NoBlock
BY Branches, TreeAssumption, Zenon

\* nHeight counts from the genesis block.
LEMMA HeightRec ==
  /\ Height(NoBlock) = -1 /\ Height(Genesis) = 0
  /\ \A b \in Block : Height(b) \in Nat /\ Height(b) \in Heights
  /\ \A b \in Block : Parent[b] \in Block \cup {NoBlock} /\ Height(b) = Height(Parent[b]) + 1
<1>1. Height(NoBlock) = -1 /\ \A b \in Block : Height(b) = nHeight[b]
  BY TreeAssumption, Zenon DEF Height, HeightOf
<1>2. \A b \in Block : Height(b) \in Nat
  BY <1>1, HeightEquation, Zenon
<1>3. Height(Genesis) = 0
  BY <1>1, HeightEquation, ParentType, Zenon
<1>4. ASSUME NEW b \in Block PROVE Height(b) = Height(Parent[b]) + 1
  <2>1. CASE b = Genesis
    <3>1. Parent[b] = NoBlock
      BY <2>1, TreeAssumption, Zenon
    <3> QED BY <2>1, <3>1, <1>1, <1>3
  <2>2. CASE b # Genesis
    BY <2>2, <1>1, HeightEquation, ParentType, Zenon
  <2> QED BY <2>1, <2>2, Zenon
<1>5. \A b \in Block : Parent[b] \in Block \cup {NoBlock} /\ Height(b) \in Heights
  BY TreeAssumption, Zenon DEF Heights
<1> QED BY <1>1, <1>2, <1>3, <1>4, <1>5, Zenon

\* A block is the only one of its height in a branch.
LEMMA Lower ==
  ASSUME NEW b \in Block, NEW a \in Ancestors(b)
  PROVE  a \in Block /\ Height(a) <= Height(b) /\ (Height(a) = Height(b) => a = b)
<1> DEFINE S == {x \in Block : \A y \in Ancestors(x) :
                   y \in Block /\ Height(y) <= Height(x) /\ (Height(y) = Height(x) => y = x)}
<1>1. Genesis \in S
  <2>1. Ancestors(Genesis) = {Genesis} /\ Genesis \in Block
    BY Branches, TreeAssumption
  <2> QED BY <2>1, HeightRec
<1>2. ASSUME NEW x \in Block \ {Genesis}, Parent[x] \in S PROVE x \in S
  <2>1. /\ Ancestors(x) = {x} \cup Ancestors(Parent[x]) /\ Parent[x] \in Block
        /\ Height(x) = Height(Parent[x]) + 1 /\ Height(x) \in Nat /\ Height(Parent[x]) \in Nat
    BY Branches, HeightRec, ParentType, Zenon
  <2>2. ASSUME NEW y \in Ancestors(x)
        PROVE  y \in Block /\ Height(y) <= Height(x) /\ (Height(y) = Height(x) => y = x)
    <3>1. CASE y = x
      BY <3>1, <2>1
    <3>2. CASE y \in Ancestors(Parent[x])
      <4>1. y \in Block /\ Height(y) <= Height(Parent[x])
        BY <3>2, <1>2, Zenon
      <4>2. Height(y) \in Nat
        BY <4>1, HeightRec, Zenon
      <4> QED BY <2>1, <4>1, <4>2
    <3> QED BY <2>1, <3>1, <3>2, Zenon
  <2> QED BY <2>2, Zenon
<1>3. S = Block
  <2> HIDE DEF S
  <2>1. S \in SUBSET Block
    BY Zenon DEF S
  <2> QED BY <1>1, <1>2, <2>1, TreeInduction, Zenon
<1> QED BY <1>3

\* Of two blocks of a branch one is an ancestor of the other.
LEMMA Comparable ==
  ASSUME NEW b \in Block, NEW a \in Ancestors(b), NEW c \in Ancestors(b), Height(a) <= Height(c)
  PROVE  a \in Ancestors(c)
<1> DEFINE S == {x \in Block : \A y, z \in Ancestors(x) :
                   Height(y) <= Height(z) => y \in Ancestors(z)}
<1>1. Genesis \in S
  <2>1. Ancestors(Genesis) = {Genesis} /\ Genesis \in Block
    BY Branches, TreeAssumption
  <2> QED BY <2>1, Zenon
<1>2. ASSUME NEW x \in Block \ {Genesis}, Parent[x] \in S PROVE x \in S
  <2>1. Ancestors(x) = {x} \cup Ancestors(Parent[x]) /\ Parent[x] \in Block /\ x \in Block
    BY Branches, ParentType, Zenon
  <2>2. ASSUME NEW y \in Ancestors(x), NEW z \in Ancestors(x), Height(y) <= Height(z)
        PROVE  y \in Ancestors(z)
    <3>1. CASE z = x
      BY <3>1, Zenon
    <3>2. CASE z # x /\ y # x
      BY <2>1, <2>2, <3>2, <1>2, Zenon
    <3>3. CASE z # x /\ y = x
      <4>1. z \in Block /\ Height(z) <= Height(x) /\ Height(z) # Height(x)
        BY <3>3, Lower, Zenon
      <4>2. Height(z) \in Nat /\ Height(x) \in Nat
        BY <4>1, HeightRec, Zenon
      <4> QED BY <2>2, <3>3, <4>1, <4>2
    <3> QED BY <3>1, <3>2, <3>3, Zenon
  <2> QED BY <2>2, Zenon
<1>3. S = Block
  <2> HIDE DEF S
  <2>1. S \in SUBSET Block
    BY Zenon DEF S
  <2> QED BY <1>1, <1>2, <2>1, TreeInduction, Zenon
<1> QED BY <1>3, Zenon

\* A branch has a block of every height up to its own.
LEMMA EveryHeight ==
  ASSUME NEW b \in Block, NEW h \in Nat, h <= Height(b)
  PROVE  \E a \in Ancestors(b) : Height(a) = h
<1> DEFINE S == {x \in Block : \A k \in Nat :
                   k <= Height(x) => \E a \in Ancestors(x) : Height(a) = k}
<1>1. Genesis \in S
  <2>1. Genesis \in Ancestors(Genesis) /\ Genesis \in Block /\ Height(Genesis) = 0
    BY Branches, HeightRec, TreeAssumption, Zenon
  <2> QED BY <2>1
<1>2. ASSUME NEW x \in Block \ {Genesis}, Parent[x] \in S PROVE x \in S
  <2>1. /\ Ancestors(x) = {x} \cup Ancestors(Parent[x]) /\ Parent[x] \in Block
        /\ Height(x) = Height(Parent[x]) + 1 /\ Height(Parent[x]) \in Nat
    BY Branches, HeightRec, ParentType, Zenon
  <2>2. ASSUME NEW k \in Nat, k <= Height(x) PROVE \E a \in Ancestors(x) : Height(a) = k
    <3>1. CASE k = Height(x)
      BY <2>1, <3>1, Zenon
    <3>2. CASE k # Height(x)
      <4>1. k <= Height(Parent[x])
        BY <2>1, <2>2, <3>2
      <4> QED BY <2>1, <4>1, <1>2, Zenon
    <3> QED BY <3>1, <3>2, Zenon
  <2> QED BY <2>2, Zenon
<1>3. S = Block
  <2> HIDE DEF S
  <2>1. S \in SUBSET Block
    BY Zenon DEF S
  <2> QED BY <1>1, <1>2, <2>1, TreeInduction, Zenon
<1> QED BY <1>3, Zenon

\* Blocks of one branch have a highest one.
LEMMA HighestOf ==
  ASSUME NEW b \in Block, NEW T \in SUBSET Ancestors(b), T # {}
  PROVE  Highest(T) \in T /\ \A x \in T : Height(x) <= Height(Highest(T))
<1> DEFINE S == {y \in Block : \A U \in SUBSET Ancestors(y) :
                   U # {} => \E a \in U : \A x \in U : Height(x) <= Height(a)}
<1>1. Genesis \in S
  <2>1. Ancestors(Genesis) = {Genesis} /\ Genesis \in Block /\ Height(Genesis) = 0
    BY Branches, HeightRec, TreeAssumption
  <2> QED BY <2>1
<1>2. ASSUME NEW y \in Block \ {Genesis}, Parent[y] \in S PROVE y \in S
  <2>1. Ancestors(y) = {y} \cup Ancestors(Parent[y]) /\ Parent[y] \in Block
    BY Branches, ParentType, Zenon
  <2>2. ASSUME NEW U \in SUBSET Ancestors(y), U # {}
        PROVE  \E a \in U : \A x \in U : Height(x) <= Height(a)
    <3>1. CASE y \in U
      BY <3>1, Lower, Zenon
    <3>2. CASE y \notin U
      <4>1. U \in SUBSET Ancestors(Parent[y])
        BY <2>1, <3>2, Zenon
      <4> QED BY <2>2, <4>1, <1>2, Zenon
    <3> QED BY <3>1, <3>2, Zenon
  <2> QED BY <2>2, Zenon
<1>3. S = Block
  <2> HIDE DEF S
  <2>1. S \in SUBSET Block
    BY Zenon DEF S
  <2> QED BY <1>1, <1>2, <2>1, TreeInduction, Zenon
<1>4. \E a \in T : \A x \in T : Height(x) <= Height(a)
  BY <1>3, Zenon
<1> QED BY <1>4, Zenon DEF Highest

\* GetAncestor finds the block of a height, and none above the block or below zero.
LEMMA AncestorFound ==
  ASSUME NEW b \in Block \cup {NoBlock}
  PROVE  /\ \A a \in Block : GetAncestor(b, Height(a)) = a <=> a \in Ancestors(b)
         /\ \A h : \/ GetAncestor(b, h) = NoBlock /\ ~\E a \in Ancestors(b) : Height(a) = h
                   \/ GetAncestor(b, h) \in Ancestors(b) /\ Height(GetAncestor(b, h)) = h
<1> DEFINE found(h) == {a \in Ancestors(b) : Height(a) = h}
<1>1. \A h : GetAncestor(b, h) = IF found(h) = {} THEN NoBlock ELSE CHOOSE a \in found(h) : TRUE
  BY Zenon DEF GetAncestor
<1>2. \A h : found(h) # {} => (CHOOSE a \in found(h) : TRUE) \in found(h)
  <2> HIDE DEF found
  <2> QED BY Zenon
<1>3. \A h : \/ GetAncestor(b, h) = NoBlock /\ ~\E a \in Ancestors(b) : Height(a) = h
             \/ GetAncestor(b, h) \in Ancestors(b) /\ Height(GetAncestor(b, h)) = h
  BY <1>1, <1>2, Zenon
<1>4. ASSUME NEW a \in Block PROVE GetAncestor(b, Height(a)) = a <=> a \in Ancestors(b)
  <2>1. a # NoBlock
    BY TreeAssumption, Zenon
  <2>2. ASSUME a \in Ancestors(b), NEW c \in Ancestors(b), Height(c) = Height(a) PROVE c = a
    <3>1. b \in Block
      BY <2>2, Branches, Zenon
    <3>2. c \in Block /\ Height(c) <= Height(a) /\ Height(c) \in Nat
      BY <2>2, <3>1, Branches, HeightRec
    <3>3. c \in Ancestors(a)
      BY <2>2, <3>1, <3>2, Comparable, Zenon
    <3> QED BY <2>2, <3>3, Lower, Zenon
  <2> QED BY <2>1, <2>2, <1>3, Zenon
<1> QED BY <1>3, <1>4, Zenon

-----------------------------------------------------------------------------
\* Every entry that is stored is that of the block it names.
Entries(x) ==
  /\ \A h \in Heights : x.byHeight[h].block # NoBlock =>
       Height(x.byHeight[h].block) = h /\ x.byHeight[h].stats = x.byHeight[h].block
  /\ \A b \in Block : x.byHash[b] \in {NoBlock, b}

\* The branch up to b has its entries by height.
Trail(x, b) == \A a \in Ancestors(b) : x.byHeight[Height(a)] = [block |-> a, stats |-> a]

\* The entry of b is kept as long as the process runs.
Kept(x, b) ==
  \/ b \in Ancestors(x.muhash)
  \/ x.byHash[b] = b /\ x.byHeight[Height(b)].block # NoBlock

Within(b, a) == a = NoBlock \/ a \in Ancestors(b)

\* What the database holds, with the process or without.
Stored(x) ==
  /\ x \in Index /\ Entries(x)
  /\ x.db.muhash = x.db.best /\ Trail(x, x.db.best)

\* The statistics are those of a branch that has its entries.
Running(x) ==
  /\ Stored(x)
  /\ x.muhash # Bad /\ Trail(x, x.muhash)
  /\ Within(x.muhash, x.best) /\ Within(x.muhash, x.db.best)

\* Where ThreadSync is in its loop.
Position ==
  /\ pc = "loop" => pindex = index.muhash
  /\ pc \in {"write", "append"} => pindex \in Block /\ Parent[pindex] = index.muhash

\* Once synced, the thread has ended and the statistics are those of the best block.
Level == synced =>
  pc = "off" /\ index.error = "none" /\ index.best = index.muhash /\ index.best # NoBlock

\* A caller has its promise in the queue, once, until it is kept.
Waiter ==
  /\ wait.at # "no" => synced /\ wait.block \in Block
  /\ wait.at = "done" => Kept(index, wait.block)
  /\ \A s \in 1..Len(queue) : queue[s].kind = "sync" =>
       wait.at = "queued" /\ queue[s].block = wait.block
  /\ \A s, r \in 1..Len(queue) : queue[s].kind = "sync" /\ queue[r].kind = "sync" => s = r

\* The block that the chain had to hold when an event was queued.
Under(e) == IF e.kind = "connected" THEN Parent[e.block] ELSE e.block

Connects(q, i) == i \in 1..Len(q) /\ q[i].kind = "connected"

\* An event stands on the block connected last before it, and the tip on the last.
Follows(q) ==
  \A i, j \in 1..Len(q) :
    i < j /\ Connects(q, i) /\ (\A k \in 1..Len(q) : i < k /\ k < j => ~Connects(q, k))
      => Under(q[j]) \in Ancestors(q[i].block)
Leads(q, t) ==
  \A i \in 1..Len(q) :
    Connects(q, i) /\ (\A k \in 1..Len(q) : i < k => ~Connects(q, k))
      => t \in Ancestors(q[i].block)
Events(q, t) ==
  /\ \A i \in 1..Len(q) : Connects(q, i) => q[i].block # Genesis
  /\ Follows(q) /\ Leads(q, t)

\* Some event before s will be taken up by an index at b.
Accepts(q, s, b) ==
  \E i \in 1..Len(q) : i < s /\ Connects(q, i) /\ Parent[q[i].block] \in Ancestors(b)

\* The index x is level with the tip t or takes up an event that leads there, and
\* so for every block a caller waits for.
Promise(q, x, t) ==
  /\ t \in Ancestors(x.best) \/ Accepts(q, Len(q) + 1, x.best)
  /\ \A s \in 1..Len(q) : q[s].kind = "sync" =>
       Kept(x, q[s].block) \/ Accepts(q, s, x.best)

IInv ==
  /\ TypeOK /\ Stored(index) /\ index.error # "fatal"
  /\ Started => Running(index) /\ Level /\ Waiter /\ (synced => Promise(queue, index, tip))
  /\ Started /\ index.error = "none" => Position
  /\ ~Started => queue = <<>> /\ wait = NoWait
  /\ Events(queue, tip)
-----------------------------------------------------------------------------
\* The operations on the index.

LEMMA Fields ==
  ASSUME NEW x \in Index
  PROVE  /\ x.best \in Block \cup {NoBlock} /\ x.muhash \in Stats
         /\ x.byHeight \in [Heights -> [block : Block \cup {NoBlock}, stats : Stats]]
         /\ x.byHash \in [Block -> Stats]
         /\ x.db \in [best : Block \cup {NoBlock}, muhash : Stats]
         /\ x.db.best \in Block \cup {NoBlock} /\ x.db.muhash \in Stats
         /\ x.error \in {"none", "fatal", "abort"}
BY DEF Index

\* The block of the statistics of an index that runs.
LEMMA MuhashType ==
  ASSUME NEW x, Running(x)
  PROVE  x.muhash \in Block \cup {NoBlock} /\ x \in Index
BY Fields DEF Running, Stored, Stats

\* The entries that a branch has are found.
LEMMA TrailFound ==
  ASSUME NEW x \in Index, NEW b, Trail(x, b), NEW a \in Ancestors(b), a \in Block
  PROVE  x.byHeight[Height(a)].block = a /\ LookUpOne(x, a) = a /\ a # NoBlock
<1>1. x.byHeight[Height(a)] = [block |-> a, stats |-> a] /\ a # NoBlock
  BY TreeAssumption, Zenon DEF Trail
<1> QED BY <1>1 DEF LookUpOne

\* What LookUpOne finds is right.
LEMMA FoundIsExact ==
  ASSUME NEW x \in Index, Entries(x), NEW b \in Block
  PROVE  /\ LookUpOne(x, b) \in {NoBlock, b}
         /\ Kept(x, b) /\ Trail(x, x.muhash) => LookUpOne(x, b) = b
<1>1. Height(b) \in Heights /\ b # NoBlock
  BY HeightRec, TreeAssumption, Zenon
<1>2. LookUpOne(x, b) \in {NoBlock, b}
  BY <1>1, Zenon DEF LookUpOne, Entries
<1>3. b \in Ancestors(x.muhash) /\ Trail(x, x.muhash) => LookUpOne(x, b) = b
  BY TrailFound, Zenon
<1>4. x.byHash[b] = b /\ x.byHeight[Height(b)].block # NoBlock => LookUpOne(x, b) = b
  BY <1>1, Zenon DEF LookUpOne, Entries
<1> QED BY <1>2, <1>3, <1>4, Zenon DEF Kept

\* The index x has become y, which describes m and has b as its best block; what x
\* had kept is still there.
After(x, y, m, b) ==
  /\ Running(y) /\ y.muhash = m /\ y.best = b /\ y.error = "none"
  /\ \A c \in Block : Kept(x, c) => Kept(y, c)

\* A block is applied to the statistics of its parent: CustomAppend succeeds.
LEMMA Appended ==
  ASSUME NEW x, Running(x), NEW b \in Block, x.muhash = Parent[b], x.error = "none",
         NEW y, y = CustomAppend(x, b)
  PROVE  After(x, y, b, x.best)
<1>0. /\ x \in Index /\ Entries(x) /\ Trail(x, Parent[b]) /\ Trail(x, x.db.best)
      /\ x.db.muhash = x.db.best
      /\ Within(Parent[b], x.best) /\ Within(Parent[b], x.db.best)
  BY Zenon DEF Running, Stored
<1>1. /\ Height(b) = Height(Parent[b]) + 1 /\ Height(b) \in Nat /\ Height(b) \in Heights
      /\ Ancestors(b) = {b} \cup Ancestors(Parent[b])
      /\ b \in Ancestors(b) /\ b # NoBlock
  BY HeightRec, Branches, Zenon
<1>2. ASSUME NEW a \in Ancestors(Parent[b])
      PROVE  a \in Block /\ Height(a) # Height(b) /\ Height(a) \in Heights
  <2>1. Parent[b] \in Block
    BY Branches, TreeAssumption, Zenon
  <2>2. a \in Block /\ Height(a) <= Height(Parent[b])
    BY <2>1, Lower, Zenon
  <2>3. Height(a) \in Nat /\ Height(Parent[b]) \in Nat /\ Height(a) \in Heights
    BY <2>1, <2>2, HeightRec, Zenon
  <2> QED BY <2>2, <2>3, <1>1
<1>3. b # Genesis => x.byHeight[Height(b) - 1].block # NoBlock /\ LookUpOne(x, Parent[b]) # NoBlock
  <2> SUFFICES ASSUME b # Genesis
               PROVE  x.byHeight[Height(b) - 1].block # NoBlock /\ LookUpOne(x, Parent[b]) # NoBlock
    BY Zenon
  <2>1. Parent[b] \in Block /\ Parent[b] \in Ancestors(Parent[b]) /\ Height(Parent[b]) \in Nat
    BY ParentType, Branches, HeightRec, Zenon
  <2>2. Height(b) - 1 = Height(Parent[b])
    BY <1>1, <2>1
  <2>3. PICK p \in Block : p = Parent[b]
    BY <2>1, Zenon
  <2>4. Trail(x, p) /\ p \in Ancestors(p)
    BY <1>0, <2>1, <2>3, Zenon
  <2>5. x.byHeight[Height(p)].block = p /\ LookUpOne(x, p) = p /\ p # NoBlock
    BY <1>0, <2>4, TrailFound, Zenon
  <2> QED BY <2>2, <2>3, <2>5, Zenon
<1>4. Applied(x.muhash, b) = b
  BY Zenon DEF Applied
<1>5. y = [x EXCEPT !.byHeight[Height(b)] = [block |-> b, stats |-> b], !.muhash = b]
  BY <1>3, <1>4 DEF CustomAppend
<1>6. /\ y \in Index /\ y.best = x.best /\ y.muhash = b /\ y.byHash = x.byHash /\ y.db = x.db
      /\ y.error = "none"
      /\ y.byHeight = [x.byHeight EXCEPT ![Height(b)] = [block |-> b, stats |-> b]]
  <2> DEFINE e == [block |-> b, stats |-> b]
             f == [x.byHeight EXCEPT ![Height(b)] = e]
  <2>1. e \in [block : Block \cup {NoBlock}, stats : Stats] /\ b \in Stats
    BY DEF Stats
  <2>2. f \in [Heights -> [block : Block \cup {NoBlock}, stats : Stats]]
    <3> HIDE DEF e
    <3> QED BY <1>0, <2>1, Fields
  <2>3. y = [x EXCEPT !.byHeight = f, !.muhash = b]
    BY <1>0, <1>5 DEF Index
  <2> HIDE DEF f
  <2>4. /\ y \in Index /\ y.best = x.best /\ y.muhash = b /\ y.byHash = x.byHash /\ y.db = x.db
        /\ y.error = "none" /\ y.byHeight = f
    BY <1>0, <2>1, <2>2, <2>3 DEF Index
  <2> QED BY <2>4, Zenon DEF f
<1>7. /\ y.byHeight[Height(b)] = [block |-> b, stats |-> b]
      /\ \A h \in Heights : h # Height(b) => y.byHeight[h] = x.byHeight[h]
  BY <1>0, <1>1, <1>6, Fields
<1>8. Entries(y)
  BY <1>0, <1>1, <1>6, <1>7 DEF Entries
<1>9. Trail(y, Parent[b]) /\ Trail(y, b)
  BY <1>0, <1>1, <1>2, <1>7, Zenon DEF Trail
<1>10. \A a \in Ancestors(x.db.best) : a \in Ancestors(Parent[b])
  <2>1. CASE x.db.best = NoBlock
    BY <2>1, Branches
  <2>2. CASE x.db.best \in Ancestors(Parent[b])
    <3>1. Parent[b] \in Block \cup {NoBlock}
      BY HeightRec, Zenon
    <3> QED BY <2>2, <3>1, InBranch, Zenon
  <2> QED BY <1>0, <2>1, <2>2, Zenon DEF Within
<1>11. Trail(y, y.db.best)
  BY <1>6, <1>9, <1>10, Zenon DEF Trail
<1>12. Within(b, y.best) /\ Within(b, y.db.best)
  BY <1>0, <1>1, <1>6, Zenon DEF Within
<1>13. b # Bad
  BY IndexAssumption, Zenon
<1>14. Running(y)
  BY <1>0, <1>6, <1>8, <1>9, <1>11, <1>12, <1>13, Zenon DEF Running, Stored
<1>15. ASSUME NEW c \in Block, Kept(x, c) PROVE Kept(y, c)
  <2>1. CASE c \in Ancestors(Parent[b])
    BY <2>1, <1>1, <1>6, Zenon DEF Kept
  <2>2. CASE x.byHash[c] = c /\ x.byHeight[Height(c)].block # NoBlock
    <3>1. Height(c) \in Heights
      BY HeightRec, Zenon
    <3>2. y.byHeight[Height(c)].block # NoBlock
      <4>1. CASE Height(c) = Height(b)
        BY <4>1, <1>1, <1>7
      <4>2. CASE Height(c) # Height(b)
        BY <4>2, <3>1, <1>7, <2>2, Zenon
      <4> QED BY <4>1, <4>2, Zenon
    <3> QED BY <3>2, <2>2, <1>6, Zenon DEF Kept
  <2> QED BY <1>15, <2>1, <2>2, Zenon DEF Kept
<1> QED BY <1>6, <1>14, <1>15, Zenon DEF After

\* Commit and SetBestBlockIndex, with the block the statistics are of.
LEMMA Committed ==
  ASSUME NEW x, Running(x), x.error = "none", NEW y, y = Commit(SetBestBlockIndex(x, x.muhash))
  PROVE  After(x, y, x.muhash, x.muhash)
<1>0. /\ x \in Index /\ Entries(x) /\ Trail(x, x.muhash) /\ Trail(x, x.db.best)
      /\ x.db.muhash = x.db.best /\ x.muhash \in Block \cup {NoBlock}
      /\ Within(x.muhash, x.db.best)
  BY MuhashType, Zenon DEF Running, Stored
<1> DEFINE m == x.muhash
           d == IF m = NoBlock THEN x.db ELSE [best |-> m, muhash |-> m]
<1>1. y = [x EXCEPT !.best = m, !.db = d]
  BY <1>0 DEF Commit, SetBestBlockIndex, Index
<1>2. /\ d \in [best : Block \cup {NoBlock}, muhash : Stats] /\ d.muhash = d.best
      /\ Within(m, d.best) /\ Trail(x, d.best)
  <2>1. CASE m = NoBlock
    BY <2>1, <1>0, Fields, Zenon
  <2>2. CASE m # NoBlock
    <3>1. d = [best |-> m, muhash |-> m] /\ m \in Block /\ m \in Stats
      BY <2>2, <1>0 DEF Stats
    <3>2. m \in Ancestors(m)
      BY <3>1, Branches, Zenon
    <3> QED BY <3>1, <3>2, <1>0 DEF Within
  <2> QED BY <2>1, <2>2, Zenon
<1>3. /\ y \in Index /\ y.best = m /\ y.muhash = m /\ y.byHash = x.byHash /\ y.db = d
      /\ y.error = x.error /\ y.byHeight = x.byHeight
  <2> HIDE DEF d
  <2> QED BY <1>0, <1>1, <1>2 DEF Index
<1>4. Within(m, m)
  BY <1>0, Branches, Zenon DEF Within
<1> HIDE DEF d
<1>5. Running(y)
  <2>1. Entries(y)
    BY <1>0, <1>3 DEF Entries
  <2>2. Trail(y, m) /\ Trail(y, d.best)
    BY <1>0, <1>2, <1>3 DEF Trail
  <2> QED BY <2>1, <2>2, <1>2, <1>3, <1>4, Zenon DEF Running, Stored
<1>6. \A c \in Block : Kept(x, c) => Kept(y, c)
  BY <1>3, Zenon DEF Kept
<1> QED BY <1>3, <1>5, <1>6, Zenon DEF After

\* c is x with the entries from to up to from copied, and what was kept stays.
IsCopy(c, x, from, to) ==
  /\ c \in Index /\ Entries(c)
  /\ c.byHeight = x.byHeight /\ c.muhash = x.muhash /\ c.best = x.best /\ c.db = x.db
  /\ c.error = x.error
  /\ \A b \in Ancestors(from) \ Ancestors(to) : c.byHash[b] = b
  /\ \A b \in Block : x.byHash[b] = b => c.byHash[b] = b

LEMMA Copied ==
  ASSUME NEW x \in Index, Entries(x), NEW from \in Block, Trail(x, from), NEW to \in Ancestors(from),
         NEW c, c = CopyHeightIndexToHashIndex(x, Height(to), Height(from))
  PROVE  IsCopy(c, x, from, to)
<1> DEFINE R == Height(to)..Height(from)
           f == [b \in Block |-> IF \E h \in R : x.byHeight[h].block = b
                                   THEN x.byHeight[Height(b)].stats ELSE x.byHash[b]]
<1>0. /\ to \in Block /\ Height(to) \in Nat /\ Height(from) \in Nat
      /\ \A h \in Heights : x.byHeight[h].block # NoBlock =>
           Height(x.byHeight[h].block) = h /\ x.byHeight[h].stats = x.byHeight[h].block
      /\ \A b \in Block : x.byHash[b] \in {NoBlock, b}
  BY InBranch, HeightRec, Zenon DEF Entries
<1>1. \A h \in R : h \in Heights
  <2>1. ASSUME NEW h \in R PROVE h \in Heights
    <3>1. h \in Nat /\ h <= Height(from)
      BY <1>0
    <3>2. PICK a \in Ancestors(from) : Height(a) = h
      BY <3>1, EveryHeight, Zenon
    <3> QED BY <3>2, InBranch, HeightRec, Zenon
  <2> QED BY <2>1, Zenon
<1>2. ASSUME NEW b \in Block, NEW h \in R, x.byHeight[h].block = b
      PROVE  h = Height(b) /\ x.byHeight[Height(b)].stats = b
  <2>1. b # NoBlock /\ h \in Heights
    BY <1>1, TreeAssumption, Zenon
  <2> QED BY <2>1, <1>0, <1>2, Zenon
<1>3. ASSUME NEW b \in Block
      PROVE  f[b] \in {NoBlock, b} /\ f[b] \in Stats /\ (x.byHash[b] = b => f[b] = b)
  <2>1. CASE \E h \in R : x.byHeight[h].block = b
    BY <2>1, <1>2, Zenon DEF Stats
  <2>2. CASE ~\E h \in R : x.byHeight[h].block = b
    <3>1. f[b] = x.byHash[b]
      BY <2>2, Zenon
    <3>2. x.byHash[b] \in Stats
      BY Fields, Zenon
    <3> QED BY <3>1, <3>2, <1>0, Zenon
  <2> QED BY <2>1, <2>2, Zenon
<1>4. ASSUME NEW b \in Ancestors(from) \ Ancestors(to) PROVE f[b] = b
  <2>1. b \in Block /\ Height(b) <= Height(from) /\ Height(b) \in Nat
    BY Lower, HeightRec, Zenon
  <2>2. ~(Height(b) <= Height(to))
    BY Comparable, Zenon
  <2>3. Height(b) \in R
    BY <1>0, <2>1, <2>2
  <2>4. x.byHeight[Height(b)].block = b
    BY <2>1, TrailFound, Zenon
  <2> QED BY <2>1, <2>3, <2>4, <1>2, Zenon
<1>5. c = [x EXCEPT !.byHash = f] /\ f \in [Block -> Stats]
  <2>1. c = [x EXCEPT !.byHash = f]
    BY DEF CopyHeightIndexToHashIndex
  <2>2. \A b \in Block : f[b] \in Stats
    BY <1>3, Zenon
  <2> QED BY <2>1, <2>2
<1> HIDE DEF f
<1>6. /\ c \in Index /\ c.byHash = f /\ c.byHeight = x.byHeight /\ c.muhash = x.muhash
      /\ c.best = x.best /\ c.db = x.db /\ c.error = x.error
  BY <1>5 DEF Index
<1>7. Entries(c)
  BY <1>0, <1>3, <1>6, Zenon DEF Entries
<1> QED BY <1>3, <1>4, <1>6, <1>7, Zenon DEF IsCopy

\* The index is taken back to an ancestor of the block it is at: Rewind succeeds.
LEMMA Rewound ==
  ASSUME NEW x, Running(x), x.error = "none", NEW from \in Block, NEW to \in Ancestors(from),
         x.muhash = from, x.best = from, NEW y, y = Rewind(x, from, to)
  PROVE  After(x, y, to, to)
<1> DEFINE c == CopyHeightIndexToHashIndex(x, Height(to), Height(from))
<1>0. /\ x \in Index /\ Entries(x) /\ Trail(x, from) /\ to \in Block /\ to # NoBlock
      /\ Height(to) \in Nat /\ Height(from) \in Nat
  BY InBranch, HeightRec, Zenon DEF Running, Stored
<1>1. GetAncestor(from, Height(to)) = to
  BY <1>0, AncestorFound, Zenon
<1>2. ASSUME NEW h \in Height(to)..Height(from) PROVE x.byHeight[h].block # NoBlock
  <2>1. h \in Nat /\ h <= Height(from)
    BY <1>0
  <2>2. PICK a \in Ancestors(from) : Height(a) = h
    BY <2>1, EveryHeight, Zenon
  <2>3. a \in Block
    BY InBranch, Zenon
  <2>4. x.byHeight[Height(a)].block = a /\ a # NoBlock
    BY <1>0, <2>3, TrailFound, Zenon
  <2> QED BY <2>2, <2>4, Zenon
<1>c. IsCopy(c, x, from, to)
  <2> HIDE DEF c
  <2>1. c = CopyHeightIndexToHashIndex(x, Height(to), Height(from))
    BY Zenon DEF c
  <2> QED BY <1>0, <2>1, Copied, Zenon
<1>3. /\ c \in Index /\ Entries(c)
      /\ c.byHeight = x.byHeight /\ c.muhash = x.muhash /\ c.best = x.best /\ c.db = x.db
      /\ c.error = x.error
      /\ \A b \in Ancestors(from) \ Ancestors(to) : c.byHash[b] = b
      /\ \A b \in Block : x.byHash[b] = b => c.byHash[b] = b
  BY <1>c, Zenon DEF IsCopy
<1> HIDE DEF c
<1>4. c \in Index /\ Trail(c, from)
  BY <1>0, <1>3, Zenon DEF Trail
<1>5. ASSUME NEW b \in Ancestors(from) \ Ancestors(to) PROVE LookUpOne(c, Parent[b]) = Parent[b]
  <2>1. b \in Block /\ Genesis \in Ancestors(to)
    BY <1>0, InBranch, Branches, Zenon
  <2>2. b # Genesis
    BY <2>1, Zenon
  <2>3. PICK p \in Block : p = Parent[b]
    BY <2>1, <2>2, ParentType, Zenon
  <2>4. p \in Ancestors(b)
    <3>1. Ancestors(b) = {b} \cup Ancestors(p) /\ p \in Ancestors(p)
      BY <2>1, <2>3, Branches, Zenon
    <3> QED BY <3>1, Zenon
  <2>5. p \in Ancestors(from)
    BY <2>4, InBranch, Zenon
  <2>6. LookUpOne(c, p) = p
    BY <2>5, <1>4, TrailFound, Zenon
  <2> QED BY <2>3, <2>6, Zenon
<1>6. CustomRewind(x, from, to) = [c EXCEPT !.muhash = to]
  BY <1>2, <1>5, Zenon DEF CustomRewind, c
<1> DEFINE d == [best |-> to, muhash |-> to]
<1>7. y = [c EXCEPT !.muhash = to, !.best = to, !.db = d]
  <2> DEFINE r == [c EXCEPT !.muhash = to]
  <2>1. r.error = "none" /\ r \in Index
    BY <1>0, <1>3 DEF Index, Stats
  <2>2. y = Commit(SetBestBlockIndex(r, to))
    BY <1>1, <1>6, <2>1 DEF Rewind
  <2>3. Commit(SetBestBlockIndex(r, to)) = [SetBestBlockIndex(r, to) EXCEPT !.db = d]
    BY <1>0, <1>3, <2>1 DEF Commit, SetBestBlockIndex, Index
  <2>4. [SetBestBlockIndex(r, to) EXCEPT !.db = d] = [c EXCEPT !.muhash = to, !.best = to, !.db = d]
    <3> HIDE DEF d
    <3> QED BY <1>4 DEF SetBestBlockIndex, Index
  <2> QED BY <2>2, <2>3, <2>4, Zenon
<1>8. /\ d \in [best : Block \cup {NoBlock}, muhash : Stats]
      /\ to \in Stats /\ d.best = to /\ d.muhash = to
  BY <1>0 DEF Stats
<1> HIDE DEF d
<1>9. /\ y \in Index /\ y.muhash = to /\ y.best = to /\ y.db = d /\ y.error = "none"
      /\ y.byHash = c.byHash /\ y.byHeight = x.byHeight
  BY <1>0, <1>3, <1>7, <1>8 DEF Index
<1>10. Entries(y) /\ Trail(y, to)
  <2>1. Ancestors(to) \subseteq Ancestors(from)
    BY InBranch, Zenon
  <2>2. Trail(y, to)
    BY <1>0, <1>9, <2>1, Zenon DEF Trail
  <2>3. Entries(c) /\ y.byHeight = c.byHeight /\ y.byHash = c.byHash
    BY <1>3, <1>9, Zenon
  <2>4. Entries(y)
    BY <2>3, Zenon DEF Entries
  <2> QED BY <2>2, <2>4, Zenon
<1>11. Within(to, to) /\ to # Bad
  BY <1>0, OwnBranch, IndexAssumption, Zenon DEF Within
<1>12. Running(y)
  BY <1>8, <1>9, <1>10, <1>11, Zenon DEF Running, Stored
<1>13. ASSUME NEW b \in Block, Kept(x, b) PROVE Kept(y, b)
  <2>1. CASE b \in Ancestors(to)
    BY <2>1, <1>9, Zenon DEF Kept
  <2>2. CASE b \in Ancestors(from) \ Ancestors(to)
    <3>1. x.byHeight[Height(b)].block = b /\ b # NoBlock
      BY <2>2, <1>0, TrailFound, Zenon
    <3> QED BY <2>2, <3>1, <1>3, <1>9, Zenon DEF Kept
  <2>3. CASE x.byHash[b] = b /\ x.byHeight[Height(b)].block # NoBlock
    BY <2>3, <1>3, <1>9, Zenon DEF Kept
  <2> QED BY <1>13, <2>1, <2>2, <2>3, Zenon DEF Kept
<1> QED BY <1>9, <1>12, <1>13, Zenon DEF After
-----------------------------------------------------------------------------
\* The queue.

\* Every non-empty set of natural numbers has a least element.
LEMMA LeastNumber ==
  ASSUME NEW T \in SUBSET Nat, T # {}
  PROVE  \E x \in T : \A y \in T : x <= y
<1> DEFINE Less == {z \in Nat \X Nat : z[1] < z[2]}
<1>1. OpToRel(<, Nat) = Less
  BY DEF OpToRel
<1>2. IsWellFoundedOn(Less, Nat)
  BY <1>1, NatLessThanWellFounded, Zenon
<1>3. PICK x \in T : \A y \in T : ~(<<y, x>> \in Less)
  <2> HIDE DEF Less
  <2> QED BY <1>2, WFMin, Zenon
<1>4. ASSUME NEW y \in T PROVE x <= y
  <2>1. x \in Nat /\ y \in Nat /\ <<y, x>> \in Nat \X Nat
    OBVIOUS
  <2>2. ~(y < x)
    BY <1>3, <2>1
  <2> QED BY <2>1, <2>2
<1> QED BY <1>4, Zenon

LEMMA EventFields ==
  ASSUME NEW q \in Seq(Event), NEW i \in 1..Len(q)
  PROVE  q[i] \in Event /\ q[i].block \in Block /\ q[i].kind \in {"connected", "flushed", "sync"}
<1>1. q[i] \in Event
  OBVIOUS
<1> QED BY <1>1 DEF Event

\* r is q without its head.
IsTail(r, q) ==
  /\ r \in Seq(Event) /\ Len(q) \in Nat \ {0} /\ Len(r) = Len(q) - 1 /\ Head(q) = q[1]
  /\ \A i \in 1..Len(r) : i + 1 \in 1..Len(q) /\ r[i] = q[i + 1]
  /\ \A i \in 1..Len(q) : i # 1 => i - 1 \in 1..Len(r) /\ r[i - 1] = q[i]

LEMMA TailFacts ==
  ASSUME NEW q \in Seq(Event), q # <<>>
  PROVE  IsTail(Tail(q), q)
BY DEF IsTail

\* What holds of the queue holds without its head.
LEMMA TailEvents ==
  ASSUME NEW q \in Seq(Event), q # <<>>, NEW t, Events(q, t)
  PROVE  Events(Tail(q), t)
<1>1. PICK r : r = Tail(q)
  BY Zenon
<1>2. /\ Len(q) \in Nat \ {0} /\ Len(r) = Len(q) - 1
      /\ \A i \in 1..Len(r) : i + 1 \in 1..Len(q) /\ r[i] = q[i + 1]
      /\ \A i \in 1..Len(q) : i # 1 => i - 1 \in 1..Len(r) /\ r[i - 1] = q[i]
  BY <1>1, TailFacts, Zenon DEF IsTail
<1>3. \A i \in 1..Len(r) : Connects(r, i) <=> Connects(q, i + 1)
  BY <1>2, Zenon DEF Connects
<1>4. ASSUME NEW i \in 1..Len(r), Connects(r, i) PROVE r[i].block # Genesis
  BY <1>2, <1>3, <1>4, Zenon DEF Events
<1>5. ASSUME NEW i \in 1..Len(r), NEW j \in 1..Len(r), i < j, Connects(r, i),
             \A k \in 1..Len(r) : i < k /\ k < j => ~Connects(r, k)
      PROVE  Under(r[j]) \in Ancestors(r[i].block)
  <2>1. /\ i + 1 \in 1..Len(q) /\ j + 1 \in 1..Len(q) /\ i + 1 < j + 1
        /\ r[i] = q[i + 1] /\ r[j] = q[j + 1] /\ Connects(q, i + 1)
    BY <1>2, <1>3, <1>5
  <2>2. ASSUME NEW k \in 1..Len(q), i + 1 < k, k < j + 1 PROVE ~Connects(q, k)
    <3>1. k - 1 \in 1..Len(r) /\ i < k - 1 /\ k - 1 < j /\ (k - 1) + 1 = k
      BY <1>2, <2>2
    <3> QED BY <1>3, <1>5, <3>1
  <2> QED BY <2>1, <2>2, Zenon DEF Events, Follows
<1>6. ASSUME NEW i \in 1..Len(r), Connects(r, i), \A k \in 1..Len(r) : i < k => ~Connects(r, k)
      PROVE  t \in Ancestors(r[i].block)
  <2>1. i + 1 \in 1..Len(q) /\ r[i] = q[i + 1] /\ Connects(q, i + 1)
    BY <1>2, <1>3, <1>6
  <2>2. ASSUME NEW k \in 1..Len(q), i + 1 < k PROVE ~Connects(q, k)
    <3>1. k - 1 \in 1..Len(r) /\ i < k - 1 /\ (k - 1) + 1 = k
      BY <1>2, <2>2
    <3> QED BY <1>3, <1>6, <3>1
  <2> QED BY <2>1, <2>2, Zenon DEF Events, Leads
<1>7. Events(r, t)
  BY <1>4, <1>5, <1>6, Zenon DEF Events, Follows, Leads
<1> QED BY <1>1, <1>7, Zenon

\* An event that waited before s still waits before s - 1, unless it was the head.
LEMMA TailAccepts ==
  ASSUME NEW q \in Seq(Event), q # <<>>, NEW b, NEW s \in Int, Accepts(q, s, b),
         ~(Connects(q, 1) /\ Parent[q[1].block] \in Ancestors(b))
  PROVE  Accepts(Tail(q), s - 1, b)
<1>1. PICK r : r = Tail(q)
  BY Zenon
<1>2. /\ Len(q) \in Nat \ {0} /\ Len(r) = Len(q) - 1
      /\ \A i \in 1..Len(q) : i # 1 => i - 1 \in 1..Len(r) /\ r[i - 1] = q[i]
  BY <1>1, TailFacts, Zenon DEF IsTail
<1>3. PICK i \in 1..Len(q) : i < s /\ Connects(q, i) /\ Parent[q[i].block] \in Ancestors(b)
  BY Zenon DEF Accepts
<1>4. i # 1
  BY <1>3, Zenon
<1>5. i - 1 \in 1..Len(r) /\ r[i - 1] = q[i] /\ i - 1 < s - 1
  BY <1>2, <1>3, <1>4
<1>6. Connects(r, i - 1) /\ Parent[r[i - 1].block] \in Ancestors(b)
  BY <1>3, <1>5, Zenon DEF Connects
<1>7. Accepts(r, s - 1, b)
  BY <1>5, <1>6, Zenon DEF Accepts
<1> QED BY <1>1, <1>7, Zenon

\* Once the head is taken up, the next block to connect is taken up too.
LEMMA HeadAccepts ==
  ASSUME NEW q \in Seq(Event), q # <<>>, NEW t, Events(q, t), Connects(q, 1),
         NEW s \in 2..(Len(q) + 1)
  PROVE  \/ Accepts(Tail(q), s - 1, q[1].block)
         \/ s = Len(q) + 1 /\ t \in Ancestors(q[1].block)
         \/ s <= Len(q) /\ Under(q[s]) \in Ancestors(q[1].block)
<1>1. PICK r : r = Tail(q)
  BY Zenon
<1>2. /\ Len(q) \in Nat \ {0} /\ Len(r) = Len(q) - 1 /\ 1 \in 1..Len(q)
      /\ \A i \in 1..Len(q) : i # 1 => i - 1 \in 1..Len(r) /\ r[i - 1] = q[i]
  <2>1. Len(q) \in Nat \ {0}
    BY <1>1, TailFacts, Zenon DEF IsTail
  <2>2. 1 \in 1..Len(q)
    BY <2>1
  <2> QED BY <2>1, <2>2, <1>1, TailFacts, Zenon DEF IsTail
<1> DEFINE T == {k \in Nat : 1 < k /\ k < s /\ Connects(q, k)}
<1>3. CASE T # {}
  <2>1. PICK k \in T : \A l \in T : k <= l
    <3>1. T \in SUBSET Nat
      BY Zenon
    <3> HIDE DEF T
    <3> QED BY <1>3, <3>1, LeastNumber, Zenon
  <2>2. k \in 1..Len(q) /\ 1 < k /\ k < s /\ Connects(q, k) /\ k # 1
    BY <2>1 DEF Connects
  <2>3. ASSUME NEW l \in 1..Len(q), 1 < l, l < k PROVE ~Connects(q, l)
    BY <2>1, <2>2, <2>3
  <2>4. Under(q[k]) \in Ancestors(q[1].block)
    BY <1>2, <2>2, <2>3, Zenon DEF Events, Follows
  <2>5. Parent[q[k].block] \in Ancestors(q[1].block)
    BY <2>2, <2>4, Zenon DEF Under, Connects
  <2>6. k - 1 \in 1..Len(r) /\ r[k - 1] = q[k] /\ k - 1 < s - 1
    BY <1>2, <2>2
  <2>7. Connects(r, k - 1)
    BY <2>2, <2>6, Zenon DEF Connects
  <2>8. Accepts(r, s - 1, q[1].block)
    BY <2>5, <2>6, <2>7, Zenon DEF Accepts
  <2> QED BY <1>1, <2>8, Zenon
<1>4. CASE T = {}
  <2>1. \A k \in 1..Len(q) : 1 < k /\ k < s => ~Connects(q, k)
    BY <1>4
  <2>2. CASE s = Len(q) + 1
    <3>1. \A k \in 1..Len(q) : 1 < k => ~Connects(q, k)
      BY <1>2, <2>1, <2>2
    <3> QED BY <1>2, <2>2, <3>1, Zenon DEF Events, Leads
  <2>3. CASE s # Len(q) + 1
    <3>1. s \in 1..Len(q) /\ 1 < s /\ s <= Len(q)
      BY <1>2, <2>3
    <3> QED BY <1>2, <2>1, <3>1, Zenon DEF Events, Follows
  <2> QED BY <2>2, <2>3, Zenon
<1> QED BY <1>3, <1>4, Zenon

\* r is q with events behind it.
IsLonger(r, q) ==
  /\ r \in Seq(Event) /\ q \in Seq(Event)
  /\ Len(q) \in Nat /\ Len(r) \in Nat /\ Len(q) <= Len(r)
  /\ \A i \in 1..Len(q) : i \in 1..Len(r) /\ r[i] = q[i]

\* Event i of r is not one of q.
New(r, q, i) == i \in 1..Len(r) /\ Len(q) < i

LEMMA LongerConnects ==
  ASSUME NEW r, NEW q, IsLonger(r, q)
  PROVE  /\ \A i \in 1..Len(q) : Connects(r, i) <=> Connects(q, i)
         /\ \A i \in 1..Len(r) : New(r, q, i) \/ i \in 1..Len(q)
<1>1. \A i \in 1..Len(q) : Connects(r, i) <=> Connects(q, i)
  BY Zenon DEF IsLonger, Connects
<1>2. \A i \in 1..Len(r) : New(r, q, i) \/ i \in 1..Len(q)
  BY DEF IsLonger, New
<1> QED BY <1>1, <1>2, Zenon

\* What new events must be for the queue to stay in order: u is the new tip.
IsNews(r, q, t, u) ==
  /\ \A i \in 1..Len(r) : New(r, q, i) /\ Connects(r, i) => r[i].block # Genesis
  /\ \A j \in 1..Len(r) :
       New(r, q, j) /\ (\A k \in 1..Len(r) : New(r, q, k) /\ k < j => ~Connects(r, k))
         => Under(r[j]) \in Ancestors(t)
  /\ \A i, j \in 1..Len(r) :
       /\ New(r, q, i) /\ i < j /\ Connects(r, i)
       /\ \A k \in 1..Len(r) : i < k /\ k < j => ~Connects(r, k)
       => Under(r[j]) \in Ancestors(r[i].block)
  /\ \A i \in 1..Len(r) :
       New(r, q, i) /\ Connects(r, i) /\ (\A k \in 1..Len(r) : i < k => ~Connects(r, k))
         => u \in Ancestors(r[i].block)
  /\ (\A k \in 1..Len(r) : New(r, q, k) => ~Connects(r, k)) => u \in Ancestors(t)

LEMMA LongerEvents ==
  ASSUME NEW r, NEW q, IsLonger(r, q), NEW t \in Block, NEW u, Events(q, t), IsNews(r, q, t, u)
  PROVE  Events(r, u)
<1>1. \A i \in 1..Len(q) : i \in 1..Len(r) /\ r[i] = q[i] /\ q[i].block \in Block
  BY EventFields, Zenon DEF IsLonger
<1>2. ASSUME NEW i \in 1..Len(r), Connects(r, i) PROVE r[i].block # Genesis
  BY <1>1, <1>2, LongerConnects, Zenon DEF Events, IsNews
\* What the tip stands on, the last block of q stands on.
<1>3. ASSUME NEW i \in 1..Len(q), Connects(q, i), NEW c, c \in Ancestors(t),
             \A k \in 1..Len(q) : i < k => ~Connects(q, k)
      PROVE  c \in Ancestors(q[i].block)
  <2>1. t \in Ancestors(q[i].block)
    BY <1>3, Zenon DEF Events, Leads
  <2>2. PICK d \in Block : d = q[i].block
    BY <1>1, Zenon
  <2>3. Ancestors(t) \subseteq Ancestors(d)
    BY <2>1, <2>2, InBranch, Zenon
  <2> QED BY <1>3, <2>2, <2>3, Zenon
<1>4. ASSUME NEW i \in 1..Len(r), NEW j \in 1..Len(r), i < j, Connects(r, i),
             \A k \in 1..Len(r) : i < k /\ k < j => ~Connects(r, k)
      PROVE  Under(r[j]) \in Ancestors(r[i].block)
  <2>1. CASE New(r, q, i)
    BY <1>4, <2>1, Zenon DEF IsNews
  <2>2. CASE i \in 1..Len(q) /\ j \in 1..Len(q)
    <3>1. Connects(q, i) /\ r[i] = q[i] /\ r[j] = q[j]
      BY <1>1, <1>4, <2>2, LongerConnects, Zenon
    <3>2. \A k \in 1..Len(q) : i < k /\ k < j => ~Connects(q, k)
      BY <1>1, <1>4, LongerConnects, Zenon
    <3> QED BY <1>4, <2>2, <3>1, <3>2, Zenon DEF Events, Follows
  <2>3. CASE i \in 1..Len(q) /\ New(r, q, j)
    <3>1. ASSUME NEW k \in 1..Len(r), New(r, q, k), k < j PROVE ~Connects(r, k)
      <4>1. i < k
        BY <2>3, <3>1 DEF New, IsLonger
      <4> QED BY <1>4, <3>1, <4>1, Zenon
    <3>2. Under(r[j]) \in Ancestors(t)
      BY <2>3, <3>1, Zenon DEF IsNews
    <3>3. ASSUME NEW k \in 1..Len(q), i < k PROVE ~Connects(q, k)
      <4>1. k < j /\ k \in 1..Len(r)
        BY <2>3, <3>3 DEF New, IsLonger
      <4> QED BY <1>4, <3>3, <4>1, LongerConnects, Zenon
    <3>4. Connects(q, i) /\ r[i] = q[i]
      BY <1>1, <1>4, <2>3, LongerConnects, Zenon
    <3> QED BY <2>3, <3>2, <3>3, <3>4, <1>3, Zenon
  <2> QED BY <2>1, <2>2, <2>3, LongerConnects, Zenon
<1>5. ASSUME NEW i \in 1..Len(r), Connects(r, i), \A k \in 1..Len(r) : i < k => ~Connects(r, k)
      PROVE  u \in Ancestors(r[i].block)
  <2>1. CASE New(r, q, i)
    BY <1>5, <2>1, Zenon DEF IsNews
  <2>2. CASE i \in 1..Len(q)
    <3>1. ASSUME NEW k \in 1..Len(r), New(r, q, k) PROVE ~Connects(r, k)
      <4>1. i < k
        BY <2>2, <3>1 DEF New, IsLonger
      <4> QED BY <1>5, <4>1, Zenon
    <3>2. u \in Ancestors(t)
      BY <3>1, Zenon DEF IsNews
    <3>3. Connects(q, i) /\ r[i] = q[i] /\ \A k \in 1..Len(q) : i < k => ~Connects(q, k)
      BY <1>1, <1>5, <2>2, LongerConnects, Zenon
    <3> QED BY <2>2, <3>2, <3>3, <1>3, Zenon
  <2> QED BY <2>1, <2>2, LongerConnects, Zenon
<1> QED BY <1>2, <1>4, <1>5, Zenon DEF Events, Follows, Leads

LEMMA LongerAccepts ==
  ASSUME NEW r, NEW q, IsLonger(r, q), NEW b, NEW s \in Int, NEW n \in Int, s <= n, Accepts(q, s, b)
  PROVE  Accepts(r, n, b)
<1>1. PICK i \in 1..Len(q) : i < s /\ Connects(q, i) /\ Parent[q[i].block] \in Ancestors(b)
  BY Zenon DEF Accepts
<1>2. i \in 1..Len(r) /\ r[i] = q[i] /\ Connects(r, i)
  BY <1>1, LongerConnects, Zenon DEF IsLonger
<1>3. i < n
  BY <1>1 DEF IsLonger
<1> QED BY <1>1, <1>2, <1>3, Zenon DEF Accepts

\* New events on top of the tip leave the promise as it is.
\* The new tip is below the old one or announced on its branch, and a caller that
\* is new waits for the old one.
IsAsked(r, q, t, u) ==
  /\ \/ u \in Ancestors(t)
     \/ \E j \in 1..Len(r) : Connects(r, j) /\ Parent[r[j].block] \in Ancestors(t)
  /\ \A s \in 1..Len(r) : New(r, q, s) /\ r[s].kind = "sync" => r[s].block = t

LEMMA LongerPromise ==
  ASSUME NEW r, NEW q, IsLonger(r, q), NEW t \in Block, NEW u, NEW x, Promise(q, x, t),
         x.best = x.muhash, x.best \in Block \cup {NoBlock}, IsAsked(r, q, t, u)
  PROVE  Promise(r, x, u)
<1>0. Len(q) \in Nat /\ Len(r) \in Nat /\ Len(q) <= Len(r)
  BY Zenon DEF IsLonger
<1>1. u \in Ancestors(x.best) \/ Accepts(r, Len(r) + 1, x.best)
  <2>1. CASE t \in Ancestors(x.best)
    <3>1. Ancestors(t) \subseteq Ancestors(x.best)
      <4>1. PICK d \in Block \cup {NoBlock} : d = x.best
        BY Zenon
      <4>2. Ancestors(t) \subseteq Ancestors(d)
        BY <2>1, <4>1, InBranch, Zenon
      <4> QED BY <4>1, <4>2, Zenon
    <3>2. CASE \E j \in 1..Len(r) : Connects(r, j) /\ Parent[r[j].block] \in Ancestors(t)
      <4>1. PICK j \in 1..Len(r) : Connects(r, j) /\ Parent[r[j].block] \in Ancestors(t)
        BY <3>2, Zenon
      <4>2. j < Len(r) + 1
        BY <1>0
      <4> QED BY <3>1, <4>1, <4>2, Zenon DEF Accepts
    <3> QED BY <3>1, <3>2, Zenon DEF IsAsked
  <2>2. CASE Accepts(q, Len(q) + 1, x.best)
    <3>1. Len(q) + 1 \in Int /\ Len(r) + 1 \in Int /\ Len(q) + 1 <= Len(r) + 1
      BY <1>0
    <3> QED BY <2>2, <3>1, LongerAccepts, Zenon
  <2> QED BY <2>1, <2>2, Zenon DEF Promise
<1>2. ASSUME NEW s \in 1..Len(r), r[s].kind = "sync"
      PROVE  Kept(x, r[s].block) \/ Accepts(r, s, x.best)
  <2>0. s \in Int /\ s <= s
    BY <1>0
  <2>1. CASE s \in 1..Len(q)
    <3>1. r[s] = q[s]
      BY <2>1, Zenon DEF IsLonger
    <3>2. Kept(x, q[s].block) \/ Accepts(q, s, x.best)
      BY <1>2, <2>1, <3>1, Zenon DEF Promise
    <3> QED BY <2>0, <3>1, <3>2, LongerAccepts, Zenon
  <2>2. CASE New(r, q, s)
    <3>1. r[s].block = t
      BY <1>2, <2>2, Zenon DEF IsAsked
    <3>2. CASE t \in Ancestors(x.best)
      BY <3>1, <3>2, Zenon DEF Kept
    <3>3. CASE Accepts(q, Len(q) + 1, x.best)
      <4>1. Len(q) + 1 \in Int /\ Len(q) + 1 <= s
        BY <1>0, <2>2 DEF New
      <4> QED BY <2>0, <3>3, <4>1, LongerAccepts, Zenon
    <3> QED BY <3>2, <3>3, Zenon DEF Promise
  <2> QED BY <2>1, <2>2, LongerConnects, Zenon
<1> QED BY <1>1, <1>2, Zenon DEF Promise
-----------------------------------------------------------------------------
\* The steps.

LEMMA Assembled ==
  ASSUME TypeOK', Stored(index'), index'.error # "fatal",
         Started' => Running(index') /\ Level' /\ Waiter',
         Started' /\ synced' => Promise(queue', index', tip'),
         Started' /\ index'.error = "none" => Position',
         ~Started' => queue' = <<>> /\ wait' = NoWait,
         Events(queue', tip')
  PROVE  IInv'
BY Zenon DEF IInv

\* What holds while the process runs.
LEMMA WhileRunning ==
  ASSUME IInv, Runs
  PROVE  /\ TypeOK /\ Running(index) /\ Stored(index) /\ index.error = "none" /\ Started
         /\ Level /\ Waiter /\ Position /\ (synced => Promise(queue, index, tip))
         /\ Events(queue, tip)
<1>1. Started /\ index.error = "none"
  BY Zenon DEF Runs, Started
<1> QED BY <1>1, Zenon DEF IInv

\* A step of ThreadSync touches nothing that others rely on: the index is not
\* synced while it runs, so nobody waits.
LEMMA SyncStep ==
  ASSUME IInv, Runs, pc # "off",
         UNCHANGED <<tip, flushed, known, queue, node, wait, moves, stops>>,
         Running(index'), index'.error # "fatal",
         synced' \in BOOLEAN, wrote' \in BOOLEAN, pc' \in {"off", "loop", "write", "append"},
         pindex' \in Block \cup {NoBlock},
         synced' => /\ pc' = "off" /\ index'.error = "none" /\ index'.best = index'.muhash
                    /\ index'.best # NoBlock /\ tip \in Ancestors(index'.best),
         index'.error = "none" => Position'
  PROVE  IInv'
<1>0. TypeOK /\ Started /\ Level /\ Waiter /\ Events(queue, tip)
  BY WhileRunning, Zenon
<1>1. ~synced
  BY <1>0, Zenon DEF Level
<1>2. wait.at = "no" /\ \A s \in 1..Len(queue) : queue[s].kind # "sync"
  BY <1>0, <1>1, Zenon DEF Waiter
<1>3. tip' = tip /\ queue' = queue /\ node' = node /\ wait' = wait
  BY Zenon
<1>4. Stored(index') /\ index' \in Index
  BY Zenon DEF Running, Stored
<1>5. TypeOK'
  BY <1>0, <1>4, Zenon DEF TypeOK
<1>6. Started'
  BY <1>0, <1>3, Zenon DEF Started
<1>7. Level'
  BY Zenon DEF Level
<1>8. Waiter'
  BY <1>2, <1>3, Zenon DEF Waiter
<1>9. synced' => Promise(queue', index', tip')
  BY <1>2, <1>3, Zenon DEF Promise
<1>10. Events(queue', tip')
  BY <1>0, <1>3, Zenon
<1> QED BY <1>4, <1>5, <1>6, <1>7, <1>8, <1>9, <1>10, Assembled, Zenon

LEMMA SyncInterruptedStep == ASSUME IInv, Runs, SyncInterrupted PROVE IInv'
<1>0. /\ TypeOK /\ Running(index) /\ index.error = "none" /\ Level /\ Position
  BY WhileRunning, Zenon
<1>1. pc = "loop" /\ pindex = index.muhash /\ ~synced
  BY <1>0, Zenon DEF SyncInterrupted, Position, Level
<1>2. Running(index') /\ index'.error = "none"
  <2>1. index' = Commit(SetBestBlockIndex(index, index.muhash))
    BY <1>1, Zenon DEF SyncInterrupted
  <2> QED BY <1>0, <2>1, Committed, Zenon DEF After
<1>3. synced' = synced /\ wrote' = wrote /\ pindex' = pindex /\ pc' = "off"
  BY Zenon DEF SyncInterrupted
<1>4. Position'
  BY <1>3, Zenon DEF Position
<1>5. UNCHANGED <<tip, flushed, known, queue, node, wait, moves, stops>>
  BY Zenon DEF SyncInterrupted
<1> QED BY <1>0, <1>1, <1>2, <1>3, <1>4, <1>5, SyncStep, Zenon DEF TypeOK

\* An aborted index has kept its entries.
LEMMA Aborted ==
  ASSUME NEW x, Running(x), NEW y, y = [x EXCEPT !.error = "abort"]
  PROVE  Running(y) /\ y.error = "abort"
<1>1. x \in Index
  BY Zenon DEF Running, Stored
<1>2. /\ y \in Index /\ y.error = "abort" /\ y.muhash = x.muhash /\ y.best = x.best /\ y.db = x.db
      /\ y.byHash = x.byHash /\ y.byHeight = x.byHeight
  BY <1>1 DEF Index
<1> QED BY <1>2, Zenon DEF Running, Stored, Entries, Trail

\* The block ThreadSync goes on to is on the chain, on the fork with the block it is at.
LEMMA NextOnChain ==
  ASSUME NEW b \in Block \cup {NoBlock}, tip \in Block, NEW n, n = NextSyncBlock(b), n # NoBlock
  PROVE  /\ n \in Block /\ n \in Ancestors(tip)
         /\ b = NoBlock => Parent[n] = b
         /\ b # NoBlock => Parent[n] \in Ancestors(b)
<1>1. CASE b = NoBlock
  <2>1. n = GetAncestor(tip, 0)
    BY <1>1, Zenon DEF NextSyncBlock
  <2>2. n \in Ancestors(tip) /\ Height(n) = 0
    BY <2>1, AncestorFound, Zenon
  <2>3. n \in Block
    BY <2>2, InBranch, Zenon
  <2>4. Genesis \in Ancestors(n) /\ Genesis \in Block /\ Height(Genesis) = 0
    BY <2>3, Branches, HeightRec, ParentType, Zenon
  <2>5. n = Genesis
    BY <2>2, <2>3, <2>4, Lower, Zenon
  <2>6. Parent[n] = NoBlock
    BY <2>5, TreeAssumption, Zenon
  <2> QED BY <1>1, <2>2, <2>3, <2>6, Zenon
<1>2. CASE b \in Block
  <2> DEFINE T == Ancestors(b) \cap Ancestors(tip)
  <2>0. T \in SUBSET Ancestors(b) /\ Genesis \in T
    BY <1>2, Branches, Zenon
  <2>1. PICK f : f = FindFork(b, tip) /\ f \in T /\ \A x \in T : Height(x) <= Height(f)
    <3>1. FindFork(b, tip) = Highest(T)
      BY Zenon DEF FindFork
    <3> HIDE DEF T
    <3> QED BY <1>2, <2>0, <3>1, HighestOf, Zenon
  <2>2. f \in Ancestors(b) /\ f \in Ancestors(tip)
    BY <2>1, Zenon
  <2>3. f \in Block /\ Height(f) \in Nat
    BY <1>2, <2>2, InBranch, HeightRec, Zenon
  <2>4. n = GetAncestor(tip, Height(f) + 1)
    BY <1>2, <2>1, OwnBranch, Zenon DEF NextSyncBlock
  <2>5. n \in Ancestors(tip) /\ Height(n) = Height(f) + 1
    BY <2>4, AncestorFound, Zenon
  <2>6. n \in Block
    BY <2>5, InBranch, Zenon
  <2>7. PICK p \in Block : p = Parent[n]
    <3>1. n # Genesis
      <4>1. Height(n) # 0
        BY <2>3, <2>5
      <4> QED BY <4>1, HeightRec, Zenon
    <3> QED BY <2>6, <3>1, ParentType, Zenon
  <2>8. Height(p) = Height(f) /\ p \in Ancestors(tip)
    <3>1. Height(n) = Height(p) + 1 /\ Height(p) \in Nat
      BY <2>6, <2>7, HeightRec, Zenon
    <3>2. Height(p) = Height(f)
      BY <2>3, <2>5, <3>1
    <3>3. p \in Ancestors(n)
      <4>1. Ancestors(n) = {n} \cup Ancestors(p) /\ p \in Ancestors(p)
        BY <2>6, <2>7, Branches, Zenon
      <4> QED BY <4>1, Zenon
    <3>4. Ancestors(n) \subseteq Ancestors(tip)
      BY <2>5, InBranch, Zenon
    <3> QED BY <3>2, <3>3, <3>4, Zenon
  <2>9. p = f
    <3>1. Height(p) <= Height(f)
      BY <2>3, <2>8
    <3>2. p \in Ancestors(f)
      BY <2>2, <2>8, <3>1, Comparable, Zenon
    <3> QED BY <2>3, <2>8, <3>2, Lower, Zenon
  <2>10. b # NoBlock
    BY <1>2, OwnBranch, Zenon
  <2> QED BY <2>2, <2>5, <2>6, <2>7, <2>9, <2>10, Zenon
<1> QED BY <1>1, <1>2, Zenon

\* When there is no next block the index has reached the tip.
LEMMA NoneNext ==
  ASSUME NEW b \in Block \cup {NoBlock}, tip \in Block, NextSyncBlock(b) = NoBlock
  PROVE  b \in Block /\ tip \in Ancestors(b)
<1>1. ASSUME NEW h \in Nat, h <= Height(tip), GetAncestor(tip, h) = NoBlock PROVE FALSE
  <2>1. PICK a \in Ancestors(tip) : Height(a) = h
    BY <1>1, EveryHeight, Zenon
  <2>2. GetAncestor(tip, h) \in Ancestors(tip)
    BY <2>1, AncestorFound, Zenon
  <2> QED BY <1>1, <2>2, InBranch, Zenon
<1>2. Height(tip) \in Nat
  BY HeightRec, Zenon
<1>3. b \in Block
  <2>1. CASE b = NoBlock
    <3>1. GetAncestor(tip, 0) = NoBlock
      BY <2>1, Zenon DEF NextSyncBlock
    <3>2. 0 \in Nat /\ 0 <= Height(tip)
      BY <1>2
    <3> QED BY <1>1, <3>1, <3>2, Zenon
  <2> QED BY <2>1, Zenon
<1> DEFINE T == Ancestors(b) \cap Ancestors(tip)
<1>4. T \in SUBSET Ancestors(b) /\ Genesis \in T
  BY <1>3, Branches, Zenon
<1>5. PICK f : f = FindFork(b, tip) /\ f \in T
  <2>1. FindFork(b, tip) = Highest(T)
    BY Zenon DEF FindFork
  <2> HIDE DEF T
  <2> QED BY <1>3, <1>4, <2>1, HighestOf, Zenon
<1>6. f \in Ancestors(b) /\ f \in Ancestors(tip)
  BY <1>5, Zenon
<1>7. f \in Block /\ Height(f) \in Nat /\ Height(f) <= Height(tip)
  BY <1>3, <1>6, InBranch, HeightRec, Lower, Zenon
<1>8. GetAncestor(tip, Height(f) + 1) = NoBlock
  BY <1>3, <1>5, OwnBranch, Zenon DEF NextSyncBlock
<1>9. ~(Height(f) + 1 <= Height(tip))
  <2>1. Height(f) + 1 \in Nat
    BY <1>7
  <2> QED BY <1>1, <1>8, <2>1, Zenon
<1>10. Height(f) = Height(tip)
  BY <1>2, <1>7, <1>9
<1>11. f = tip
  BY <1>6, <1>10, Lower, Zenon
<1> QED BY <1>3, <1>6, <1>11, Zenon

LEMMA SyncDoneStep == ASSUME IInv, Runs, SyncDone PROVE IInv'
<1>0. /\ TypeOK /\ Running(index) /\ index.error = "none" /\ Level /\ Position
  BY WhileRunning, Zenon
<1>1. pc = "loop" /\ pindex = index.muhash /\ pindex \in Block \cup {NoBlock} /\ tip \in Block
  BY <1>0, Zenon DEF SyncDone, Position, TypeOK
<1>2. pindex \in Block /\ tip \in Ancestors(pindex)
  BY <1>1, NoneNext, Zenon DEF SyncDone
<1>3. Running(index') /\ index'.error = "none" /\ index'.best = pindex /\ index'.muhash = pindex
  <2>1. index' = Commit(SetBestBlockIndex(index, index.muhash))
    BY <1>1, Zenon DEF SyncDone, SyncedIndex
  <2> QED BY <1>0, <1>1, <2>1, Committed, Zenon DEF After
<1>4. synced' = TRUE /\ wrote' = wrote /\ pindex' = pindex /\ pc' = "off"
  BY Zenon DEF SyncDone
<1>5. Position'
  BY <1>4, Zenon DEF Position
<1>6. UNCHANGED <<tip, flushed, known, queue, node, wait, moves, stops>>
  BY Zenon DEF SyncDone
<1>7. pindex # NoBlock
  BY <1>2, OwnBranch, Zenon
<1> QED BY <1>0, <1>1, <1>2, <1>3, <1>4, <1>5, <1>6, <1>7, SyncStep, Zenon DEF TypeOK

LEMMA SyncNextStep == ASSUME IInv, Runs, SyncNext PROVE IInv'
<1>0. /\ TypeOK /\ Running(index) /\ index.error = "none" /\ Level /\ Position
  BY WhileRunning, Zenon
<1>1. /\ pc = "loop" /\ pindex = index.muhash /\ pindex \in Block \cup {NoBlock} /\ tip \in Block
      /\ ~synced
  BY <1>0, Zenon DEF SyncNext, Position, TypeOK, Level
<1>2. PICK n : n = NextSyncBlock(pindex)
  BY Zenon
<1>3. n # NoBlock
  BY <1>2, Zenon DEF SyncNext
<1>4. /\ n \in Block
      /\ pindex = NoBlock => Parent[n] = pindex
      /\ pindex # NoBlock => Parent[n] \in Ancestors(pindex)
  BY <1>1, <1>2, <1>3, NextOnChain, Zenon
<1>5. index' = IF Parent[n] = pindex THEN index ELSE Rewind(index, pindex, Parent[n])
  BY <1>2, Zenon DEF SyncNext
<1>6. synced' = synced /\ wrote' = wrote /\ pindex' = n /\ pc' = "write"
  BY <1>2, Zenon DEF SyncNext
<1>7. UNCHANGED <<tip, flushed, known, queue, node, wait, moves, stops>>
  BY Zenon DEF SyncNext
<1>8. /\ Running(index') /\ index'.error # "fatal"
      /\ index'.error = "none" => Parent[n] = index'.muhash
  <2>1. CASE Parent[n] = pindex
    BY <1>0, <1>1, <1>5, <2>1, Zenon
  <2>2. CASE Parent[n] # pindex
    <3>1. pindex \in Block /\ Parent[n] \in Ancestors(pindex)
      BY <1>1, <1>4, <2>2, Zenon
    <3>2. CASE index.best = pindex
      <4>1. index' = Rewind(index, pindex, Parent[n])
        BY <1>5, <2>2, Zenon
      <4>2. After(index, index', Parent[n], Parent[n])
        BY <1>0, <1>1, <3>1, <3>2, <4>1, Rewound, Zenon
      <4> QED BY <4>2, Zenon DEF After
    <3>3. CASE index.best # pindex
      <4>1. index' = [index EXCEPT !.error = "abort"]
        BY <1>5, <2>2, <3>3, Zenon DEF Rewind
      <4>2. Running(index') /\ index'.error = "abort"
        BY <1>0, <4>1, Aborted, Zenon
      <4> QED BY <4>2, Zenon
    <3> QED BY <3>2, <3>3, Zenon
  <2> QED BY <2>1, <2>2, Zenon
<1>9. index'.error = "none" => Position'
  BY <1>4, <1>6, <1>8, Zenon DEF Position
<1>10. /\ pindex' \in Block \cup {NoBlock} /\ pc' \in {"off", "loop", "write", "append"} /\ pc # "off"
       /\ ~synced' /\ synced' \in BOOLEAN /\ wrote' \in BOOLEAN
  BY <1>0, <1>1, <1>4, <1>6, Zenon DEF TypeOK
<1> QED BY <1>7, <1>8, <1>9, <1>10, SyncStep, Zenon

LEMMA SyncWriteStep == ASSUME IInv, Runs, SyncWrite PROVE IInv'
<1>0. /\ TypeOK /\ Running(index) /\ index.error = "none" /\ Level /\ Position
  BY WhileRunning, Zenon
<1>1. pc = "write" /\ pindex \in Block /\ Parent[pindex] = index.muhash /\ ~synced
  BY <1>0, Zenon DEF SyncWrite, Position, Level
<1>2. Running(index') /\ index'.error = "none" /\ index'.muhash = index.muhash
  <2>1. CASE index' = Commit(SetBestBlockIndex(index, Parent[pindex]))
    <3>1. index' = Commit(SetBestBlockIndex(index, index.muhash))
      BY <1>1, <2>1, Zenon
    <3> QED BY <1>0, <3>1, Committed, Zenon DEF After
  <2>2. CASE index' = index
    BY <1>0, <2>2, Zenon
  <2> QED BY <2>1, <2>2, Zenon DEF SyncWrite
<1>3. synced' = synced /\ wrote' \in BOOLEAN /\ pindex' = pindex /\ pc' = "append"
  BY <1>0, Zenon DEF SyncWrite, TypeOK
<1>4. Position'
  BY <1>1, <1>2, <1>3, Zenon DEF Position
<1>5. UNCHANGED <<tip, flushed, known, queue, node, wait, moves, stops>>
  BY Zenon DEF SyncWrite
<1> QED BY <1>0, <1>1, <1>2, <1>3, <1>4, <1>5, SyncStep, Zenon DEF TypeOK

LEMMA SyncAppendStep == ASSUME IInv, Runs, SyncAppend PROVE IInv'
<1>0. /\ TypeOK /\ Running(index) /\ index.error = "none" /\ Level /\ Position
  BY WhileRunning, Zenon
<1>1. pc = "append" /\ pindex \in Block /\ Parent[pindex] = index.muhash /\ ~synced
  BY <1>0, Zenon DEF SyncAppend, Position, Level
<1>2. Running(index') /\ index'.error = "none" /\ index'.muhash = pindex
  <2>1. index' = CustomAppend(index, pindex)
    BY Zenon DEF SyncAppend
  <2>2. index.muhash = Parent[pindex]
    BY <1>1, Zenon
  <2>3. After(index, index', pindex, index.best)
    BY <1>0, <1>1, <2>1, <2>2, Appended, Zenon
  <2> QED BY <2>3, Zenon DEF After
<1>3. synced' = synced /\ wrote' = wrote /\ pindex' = pindex /\ pc' = "loop"
  BY Zenon DEF SyncAppend
<1>4. Position'
  BY <1>2, <1>3, Zenon DEF Position
<1>5. UNCHANGED <<tip, flushed, known, queue, node, wait, moves, stops>>
  BY Zenon DEF SyncAppend
<1> QED BY <1>0, <1>1, <1>2, <1>3, <1>4, <1>5, SyncStep, Zenon DEF TypeOK

\* The head of the queue is handled: wait, tip and the process stay.
LEMMA HandleFacts ==
  ASSUME IInv, NEW kind, Handle(kind)
  PROVE  /\ Runs /\ queue \in Seq(Event) /\ queue # <<>> /\ queue' = Tail(queue)
         /\ queue[1].kind = kind /\ queue[1].block = Head(queue).block /\ queue[1].block \in Block
         /\ tip' = tip /\ synced' = synced /\ pc' = pc /\ pindex' = pindex /\ node' = node
         /\ Started' /\ IsTail(queue', queue) /\ 1 \in 1..Len(queue)
         /\ Events(queue', tip')
<1>0. Runs /\ queue # <<>> /\ queue' = Tail(queue) /\ Head(queue).kind = kind
  BY Zenon DEF Handle
<1>1. TypeOK /\ Started /\ Events(queue, tip)
  BY <1>0, WhileRunning, Zenon
<1>2. queue \in Seq(Event) /\ IsTail(Tail(queue), queue) /\ Events(Tail(queue), tip)
  <2>1. queue \in Seq(Event)
    BY <1>1, Zenon DEF TypeOK
  <2> QED BY <1>0, <1>1, <2>1, TailFacts, TailEvents, Zenon
<1>3. Head(queue) = queue[1] /\ 1 \in 1..Len(queue)
  <2>1. Len(queue) \in Nat \ {0} /\ Head(queue) = queue[1]
    BY <1>2, Zenon DEF IsTail
  <2>2. 1 \in 1..Len(queue)
    BY <2>1
  <2> QED BY <2>1, <2>2, Zenon
<1>4. queue[1].block \in Block
  BY <1>2, <1>3, EventFields, Zenon
<1>5. tip' = tip /\ synced' = synced /\ pc' = pc /\ pindex' = pindex /\ node' = node
  BY Zenon DEF Handle
<1>6. Started'
  BY <1>1, <1>5, Zenon DEF Started
<1>7. Events(queue', tip')
  BY <1>0, <1>2, <1>5, Zenon
<1> QED BY <1>0, <1>2, <1>3, <1>4, <1>5, <1>6, <1>7, Zenon

\* A callback that leaves the index running, and keeps its promises.
LEMMA CallbackStep ==
  ASSUME IInv, NEW kind, Handle(kind), Running(index'), index'.error = "none",
         index'.muhash = index.muhash \/ synced,
         synced => index'.best = index'.muhash /\ index'.best # NoBlock,
         \A b \in Block : Kept(index, b) => Kept(index', b),
         wait' \in [at : {"no", "queued", "done"}, block : Block \cup {NoBlock}],
         \/ wait' = wait
         \/ /\ kind = "sync" /\ wait' = [wait EXCEPT !.at = "done"]
            /\ Kept(index', queue[1].block),
         synced => Promise(queue', index', tip)
  PROVE  IInv'
<1>0. /\ TypeOK /\ Started /\ Level /\ Waiter /\ Position
  BY WhileRunning, HandleFacts, Zenon
<1>1. /\ tip' = tip /\ synced' = synced /\ pc' = pc /\ pindex' = pindex /\ Started'
      /\ IsTail(queue', queue) /\ 1 \in 1..Len(queue) /\ queue[1].kind = kind
      /\ Events(queue', tip')
  BY HandleFacts, Zenon
<1>2. Stored(index') /\ index' \in Index
  BY Zenon DEF Running, Stored
<1>3. queue' \in Seq(Event)
  BY <1>1, Zenon DEF IsTail
<1>4. TypeOK'
  BY <1>0, <1>2, <1>3, Zenon DEF TypeOK, Handle
<1>5. Level'
  BY <1>0, <1>1, Zenon DEF Level
<1>6. Position'
  <2>1. CASE pc = "off"
    BY <1>1, <2>1, Zenon DEF Position
  <2>2. CASE pc # "off"
    <3>1. index'.muhash = index.muhash
      BY <1>0, <2>2, Zenon DEF Level
    <3> QED BY <1>0, <1>1, <3>1, Zenon DEF Position
  <2> QED BY <2>1, <2>2, Zenon
<1>7. \A s \in 1..Len(queue') : s + 1 \in 1..Len(queue) /\ queue'[s] = queue[s + 1]
  BY <1>1, Zenon DEF IsTail
<1>8. Waiter'
  <2>1. CASE wait' = wait
    <3>1. wait'.at # "no" => synced' /\ wait'.block \in Block
      BY <1>0, <1>1, <2>1, Zenon DEF Waiter
    <3>2. wait'.at = "done" => Kept(index', wait'.block)
      BY <1>0, <2>1, Zenon DEF Waiter
    <3>3. \A s \in 1..Len(queue') : queue'[s].kind = "sync" =>
            wait'.at = "queued" /\ queue'[s].block = wait'.block
      BY <1>0, <1>7, <2>1, Zenon DEF Waiter
    <3>4. ASSUME NEW s \in 1..Len(queue'), NEW r \in 1..Len(queue'),
                 queue'[s].kind = "sync", queue'[r].kind = "sync"
          PROVE  s = r
      <4>1. s + 1 = r + 1
        BY <1>0, <1>7, <3>4, Zenon DEF Waiter
      <4> QED BY <4>1, <1>3
    <3> QED BY <3>1, <3>2, <3>3, <3>4, Zenon DEF Waiter
  <2>2. CASE /\ kind = "sync" /\ wait' = [wait EXCEPT !.at = "done"]
             /\ Kept(index', queue[1].block)
    <3>1. wait.at = "queued" /\ queue[1].block = wait.block /\ synced /\ wait.block \in Block
      <4>1. wait.at = "queued" /\ queue[1].block = wait.block
        BY <1>0, <1>1, <2>2, Zenon DEF Waiter
      <4>2. wait.at # "no"
        BY <4>1
      <4> QED BY <1>0, <4>1, <4>2, Zenon DEF Waiter
    <3>2. wait'.at = "done" /\ wait'.block = wait.block
      BY <1>0, <2>2 DEF TypeOK
    <3>3. ASSUME NEW s \in 1..Len(queue'), queue'[s].kind = "sync" PROVE FALSE
      <4>1. s + 1 = 1
        BY <1>0, <1>1, <1>7, <2>2, <3>3, Zenon DEF Waiter
      <4> QED BY <4>1, <1>3
    <3> QED BY <1>1, <2>2, <3>1, <3>2, <3>3, Zenon DEF Waiter
  <2> QED BY <2>1, <2>2, Zenon
<1>9. synced' => Promise(queue', index', tip')
  BY <1>1, Zenon
<1>10. index'.error # "fatal"
  OBVIOUS
<1> QED BY <1>1, <1>2, <1>4, <1>5, <1>6, <1>8, <1>9, <1>10, Assembled, Zenon

\* The promise stays when the head is no block that the index takes up.
LEMMA TailPromise ==
  ASSUME NEW q \in Seq(Event), q # <<>>, NEW x, NEW t, Promise(q, x, t), NEW y, y.best = x.best,
         \A b \in Block : Kept(x, b) => Kept(y, b),
         ~(Connects(q, 1) /\ Parent[q[1].block] \in Ancestors(x.best))
  PROVE  Promise(Tail(q), y, t)
<1>1. PICK r : r = Tail(q)
  BY Zenon
<1>2. /\ r \in Seq(Event) /\ Len(q) \in Nat \ {0} /\ Len(r) = Len(q) - 1
      /\ \A i \in 1..Len(r) : i + 1 \in 1..Len(q) /\ r[i] = q[i + 1]
  BY <1>1, TailFacts, Zenon DEF IsTail
<1>3. t \in Ancestors(y.best) \/ Accepts(r, Len(r) + 1, y.best)
  <2>1. CASE Accepts(q, Len(q) + 1, x.best)
    <3>1. Len(q) + 1 \in Int /\ (Len(q) + 1) - 1 = Len(r) + 1
      BY <1>2
    <3>2. Accepts(r, (Len(q) + 1) - 1, x.best)
      BY <1>1, <2>1, <3>1, TailAccepts, Zenon
    <3> QED BY <3>1, <3>2, Zenon
  <2> QED BY <2>1, Zenon DEF Promise
<1>4. ASSUME NEW s \in 1..Len(r), r[s].kind = "sync"
      PROVE  Kept(y, r[s].block) \/ Accepts(r, s, y.best)
  <2>1. s + 1 \in 1..Len(q) /\ r[s] = q[s + 1] /\ r[s].block \in Block
    BY <1>2, EventFields, Zenon
  <2>2. Kept(x, q[s + 1].block) \/ Accepts(q, s + 1, x.best)
    BY <1>4, <2>1, Zenon DEF Promise
  <2>3. CASE Accepts(q, s + 1, x.best)
    <3>1. s + 1 \in Int /\ (s + 1) - 1 = s
      BY <1>2
    <3>2. Accepts(r, (s + 1) - 1, x.best)
      BY <1>1, <2>3, <3>1, TailAccepts, Zenon
    <3> QED BY <3>1, <3>2, Zenon
  <2> QED BY <2>1, <2>2, <2>3, Zenon
<1>5. Promise(r, y, t)
  BY <1>3, <1>4, Zenon DEF Promise
<1> QED BY <1>1, <1>5, Zenon

\* The head was taken up: the index is at its block.
LEMMA HeadPromise ==
  ASSUME NEW q \in Seq(Event), q # <<>>, NEW t, Events(q, t), Connects(q, 1),
         NEW y, y.best = q[1].block, y.muhash = q[1].block
  PROVE  Promise(Tail(q), y, t)
<1>1. PICK r : r = Tail(q)
  BY Zenon
<1>2. /\ r \in Seq(Event) /\ Len(q) \in Nat \ {0} /\ Len(r) = Len(q) - 1
      /\ \A i \in 1..Len(r) : i + 1 \in 1..Len(q) /\ r[i] = q[i + 1]
  BY <1>1, TailFacts, Zenon DEF IsTail
<1>3. t \in Ancestors(y.best) \/ Accepts(r, Len(r) + 1, y.best)
  <2>1. /\ Len(q) + 1 \in 2..(Len(q) + 1) /\ (Len(q) + 1) - 1 = Len(r) + 1
        /\ ~(Len(q) + 1 <= Len(q))
    BY <1>2
  <2>2. Accepts(r, (Len(q) + 1) - 1, q[1].block) \/ t \in Ancestors(q[1].block)
    BY <1>1, <2>1, HeadAccepts, Zenon
  <2> QED BY <2>1, <2>2, Zenon
<1>4. ASSUME NEW s \in 1..Len(r), r[s].kind = "sync"
      PROVE  Kept(y, r[s].block) \/ Accepts(r, s, y.best)
  <2>1. s + 1 \in 1..Len(q) /\ r[s] = q[s + 1]
    BY <1>2, Zenon
  <2>2. s + 1 \in 2..(Len(q) + 1) /\ (s + 1) - 1 = s /\ s + 1 # Len(q) + 1
    BY <1>2
  <2>3. Accepts(r, (s + 1) - 1, q[1].block) \/ Under(q[s + 1]) \in Ancestors(q[1].block)
    BY <1>1, <2>2, HeadAccepts, Zenon
  <2>4. Under(q[s + 1]) = r[s].block
    BY <1>4, <2>1 DEF Under
  <2> QED BY <2>2, <2>3, <2>4, Zenon DEF Kept
<1>5. Promise(r, y, t)
  BY <1>3, <1>4, Zenon DEF Promise
<1> QED BY <1>1, <1>5, Zenon

\* A block on a block of the index's branch is taken up.
LEMMA TakenUp ==
  ASSUME NEW x, Running(x), x.error = "none", x.best = x.muhash, x.best \in Block,
         NEW b \in Block \ {Genesis}, Parent[b] \in Ancestors(x.best),
         NEW y, y = OnBlockConnected(x, b)
  PROVE  After(x, y, b, b)
<1>0. PICK p \in Block : p = Parent[b]
  BY ParentType, Zenon
<1>1. x.best # NoBlock /\ GetAncestor(x.best, Height(b) - 1) = Parent[b]
  <2>1. PICK c \in Block : c = x.best
    BY Zenon
  <2>2. GetAncestor(c, Height(p)) = p /\ c # NoBlock
    BY <1>0, <2>1, AncestorFound, OwnBranch, Zenon
  <2>3. Height(b) = Height(p) + 1 /\ Height(p) \in Nat
    BY <1>0, HeightRec, Zenon
  <2>4. Height(b) - 1 = Height(p)
    BY <2>3
  <2> QED BY <1>0, <2>1, <2>2, <2>4, Zenon
\* The block goes on top of an index at its parent.
<1>2. ASSUME NEW r, Running(r), r.error = "none", r.muhash = p, NEW z, z = Connected(r, b)
      PROVE  After(r, z, b, b)
  <2>1. PICK a : a = CustomAppend(r, b)
    BY Zenon
  <2>2. After(r, a, b, r.best)
    BY <1>0, <1>2, <2>1, Appended, Zenon
  <2>3. a.error = "none" /\ Running(a) /\ a.muhash = b
    BY <2>2, Zenon DEF After
  <2>4. z = SetBestBlockIndex(a, b)
    BY <1>2, <2>1, <2>3, Zenon DEF Connected
  <2>5. a \in Index
    BY <2>3, Zenon DEF Running, Stored
  <2>6. /\ z \in Index /\ z.best = b /\ z.muhash = a.muhash /\ z.byHeight = a.byHeight
        /\ z.byHash = a.byHash /\ z.db = a.db /\ z.error = a.error
    BY <2>4, <2>5 DEF SetBestBlockIndex, Index
  <2>7. Within(b, b)
    BY OwnBranch, Zenon DEF Within
  <2>8. Running(z)
    <3>1. Entries(a) /\ Trail(a, b) /\ Trail(a, a.db.best)
      BY <2>3, Zenon DEF Running, Stored
    <3>2. Entries(z)
      BY <2>6, <3>1 DEF Entries
    <3>3. Trail(z, b) /\ Trail(z, z.db.best)
      BY <2>6, <3>1 DEF Trail
    <3> QED BY <2>3, <2>6, <2>7, <3>2, <3>3, Zenon DEF Running, Stored
  <2>9. ASSUME NEW c \in Block, Kept(r, c) PROVE Kept(z, c)
    <3>1. Kept(a, c)
      BY <2>2, <2>9, Zenon DEF After
    <3> QED BY <2>6, <3>1, Zenon DEF Kept
  <2> QED BY <2>3, <2>6, <2>8, <2>9, Zenon DEF After
<1>3. CASE x.best = Parent[b]
  <2>1. y = Connected(x, b)
    BY <1>1, <1>3, Zenon DEF OnBlockConnected
  <2>2. x.muhash = p
    BY <1>0, <1>3, Zenon
  <2> QED BY <1>2, <2>1, <2>2, Zenon
<1>4. CASE x.best # Parent[b]
  <2>1. PICK r : r = Rewind(x, x.best, Parent[b])
    BY Zenon
  <2>2. After(x, r, Parent[b], Parent[b])
    BY <2>1, Rewound, Zenon
  <2>3. Running(r) /\ r.error = "none" /\ r.muhash = p
    BY <1>0, <2>2, Zenon DEF After
  <2>4. y = Connected(r, b)
    BY <1>1, <1>4, <2>1, <2>3, Zenon DEF OnBlockConnected
  <2>5. After(r, y, b, b)
    BY <1>2, <2>3, <2>4, Zenon
  <2> QED BY <2>2, <2>5, Zenon DEF After
<1> QED BY <1>3, <1>4, Zenon

LEMMA BlockConnectedStep == ASSUME IInv, BlockConnected PROVE IInv'
<1>0. /\ Handle("connected") /\ wait' = wait
      /\ index' = IF synced THEN OnBlockConnected(index, Head(queue).block) ELSE index
  BY Zenon DEF BlockConnected
<1>1. /\ Runs /\ queue \in Seq(Event) /\ queue # <<>> /\ queue' = Tail(queue)
      /\ queue[1].kind = "connected"
      /\ queue[1].block = Head(queue).block /\ queue[1].block \in Block
      /\ 1 \in 1..Len(queue)
  BY <1>0, HandleFacts, Zenon
<1>2. /\ TypeOK /\ Running(index) /\ index.error = "none" /\ Level /\ Events(queue, tip)
      /\ synced => Promise(queue, index, tip)
  BY <1>1, WhileRunning, Zenon
<1>3. wait' \in [at : {"no", "queued", "done"}, block : Block \cup {NoBlock}]
  BY <1>0, <1>2, Zenon DEF TypeOK
<1>4. CASE ~synced
  <2>1. index' = index
    BY <1>0, <1>4, Zenon
  <2> QED BY <1>0, <1>2, <1>3, <1>4, <2>1, CallbackStep, Zenon
<1>5. CASE synced
  <2>1. PICK b \in Block : b = queue[1].block
    BY <1>1, Zenon
  <2>2. Connects(queue, 1) /\ b \in Block \ {Genesis}
    <3>1. Connects(queue, 1)
      BY <1>1, Zenon DEF Connects
    <3>2. b # Genesis
      BY <1>1, <1>2, <2>1, <3>1, Zenon DEF Events
    <3> QED BY <3>1, <3>2, Zenon
  <2>3. /\ index.best = index.muhash /\ index.best \in Block
        /\ index' = OnBlockConnected(index, b)
    <3>1. index.best = index.muhash /\ index.best # NoBlock
      BY <1>2, <1>5, Zenon DEF Level
    <3>2. index \in Index
      BY <1>2, Zenon DEF Running, Stored
    <3>3. index.best \in Block \cup {NoBlock}
      BY <3>2, Fields, Zenon
    <3>4. index' = OnBlockConnected(index, b)
      BY <1>0, <1>1, <1>5, <2>1, Zenon
    <3> QED BY <3>1, <3>3, <3>4, Zenon
  <2>4. CASE Parent[b] \in Ancestors(index.best)
    <3>1. After(index, index', b, b)
      BY <1>2, <2>2, <2>3, <2>4, TakenUp, Zenon
    <3>2. /\ Running(index') /\ index'.error = "none" /\ index'.best = b /\ index'.muhash = b
          /\ \A c \in Block : Kept(index, c) => Kept(index', c)
      BY <3>1, Zenon DEF After
    <3>3. Promise(Tail(queue), index', tip)
      BY <1>1, <1>2, <2>1, <2>2, <3>2, HeadPromise, Zenon
    <3>4. b # NoBlock /\ Promise(queue', index', tip)
      BY <1>1, <3>3, OwnBranch, Zenon
    <3> QED BY <1>0, <1>3, <1>5, <3>2, <3>4, CallbackStep, Zenon
  <2>5. CASE Parent[b] \notin Ancestors(index.best)
    <3>1. PICK p \in Block : p = Parent[b]
      BY <2>2, ParentType, Zenon
    <3>2. PICK c \in Block : c = index.best
      BY <2>3, Zenon
    <3>3. GetAncestor(c, Height(p)) # p /\ c # NoBlock
      BY <2>5, <3>1, <3>2, AncestorFound, OwnBranch, Zenon
    <3>4. Height(b) - 1 = Height(p)
      <4>1. Height(b) = Height(p) + 1 /\ Height(p) \in Nat
        BY <3>1, HeightRec, Zenon
      <4> QED BY <4>1
    <3>5. GetAncestor(index.best, Height(b) - 1) # Parent[b] /\ index.best # NoBlock
      BY <3>1, <3>2, <3>3, <3>4, Zenon
    <3>6. index' = index
      BY <2>3, <3>5, Zenon DEF OnBlockConnected
    <3>7. Promise(Tail(queue), index, tip)
      BY <1>1, <1>2, <1>5, <2>1, <2>5, TailPromise, Zenon
    <3>8. Promise(queue', index', tip)
      BY <1>1, <3>6, <3>7, Zenon
    <3> QED BY <1>0, <1>2, <1>3, <1>5, <2>3, <3>5, <3>6, <3>8, CallbackStep, Zenon
  <2> QED BY <2>4, <2>5, Zenon
<1> QED BY <1>4, <1>5, Zenon

LEMMA ChainStateFlushedStep == ASSUME IInv, ChainStateFlushed PROVE IInv'
<1>0. /\ Handle("flushed") /\ wait' = wait
      /\ index' = index \/ (synced /\ index' = Commit(index))
  BY DEF ChainStateFlushed
<1>1. /\ Runs /\ queue \in Seq(Event) /\ queue # <<>> /\ queue' = Tail(queue)
      /\ queue[1].kind = "flushed"
  BY <1>0, HandleFacts, Zenon
<1>2. /\ TypeOK /\ Running(index) /\ index.error = "none" /\ Level
      /\ synced => Promise(queue, index, tip)
  BY <1>1, WhileRunning, Zenon
<1>3. wait' \in [at : {"no", "queued", "done"}, block : Block \cup {NoBlock}]
  BY <1>0, <1>2, Zenon DEF TypeOK
<1>4. ~Connects(queue, 1)
  <2>1. queue[1].kind # "connected"
    BY <1>1
  <2> QED BY <2>1, Zenon DEF Connects
<1>5. After(index, index', index.muhash, index.best)
  <2>1. CASE index' = index
    BY <1>2, <2>1, Zenon DEF After
  <2>2. CASE synced /\ index' = Commit(index)
    <3>1. index.best = index.muhash /\ index \in Index
      BY <1>2, <2>2, Zenon DEF Level, Running, Stored
    <3>2. SetBestBlockIndex(index, index.muhash) = index
      BY <3>1 DEF SetBestBlockIndex, Index
    <3>3. index' = Commit(SetBestBlockIndex(index, index.muhash))
      BY <2>2, <3>2, Zenon
    <3>4. After(index, index', index.muhash, index.muhash)
      BY <1>2, <3>3, Committed, Zenon
    <3> QED BY <3>1, <3>4, Zenon
  <2> QED BY <1>0, <2>1, <2>2, Zenon
<1>6. /\ Running(index') /\ index'.error = "none" /\ index'.muhash = index.muhash
      /\ index'.best = index.best /\ \A c \in Block : Kept(index, c) => Kept(index', c)
  BY <1>5, Zenon DEF After
<1>7. synced => Promise(queue', index', tip)
  <2>1. synced => Promise(Tail(queue), index', tip)
    BY <1>1, <1>2, <1>4, <1>6, TailPromise, Zenon
  <2> QED BY <1>1, <2>1, Zenon
<1>8. synced => index'.best = index'.muhash /\ index'.best # NoBlock
  BY <1>2, <1>6, Zenon DEF Level
<1> QED BY <1>0, <1>3, <1>6, <1>7, <1>8, CallbackStep, Zenon

LEMMA SyncPromiseStep == ASSUME IInv, SyncPromise PROVE IInv'
<1>0. Handle("sync") /\ wait' = [wait EXCEPT !.at = "done"] /\ index' = index
  BY Zenon DEF SyncPromise
<1>1. /\ Runs /\ queue \in Seq(Event) /\ queue # <<>> /\ queue' = Tail(queue)
      /\ queue[1].kind = "sync" /\ 1 \in 1..Len(queue)
  BY <1>0, HandleFacts, Zenon
<1>2. /\ TypeOK /\ Running(index) /\ index.error = "none" /\ Level /\ Waiter
      /\ synced => Promise(queue, index, tip)
  BY <1>1, WhileRunning, Zenon
<1>3. wait' \in [at : {"no", "queued", "done"}, block : Block \cup {NoBlock}]
  BY <1>0, <1>2 DEF TypeOK
<1>4. ~Connects(queue, 1)
  <2>1. queue[1].kind # "connected"
    BY <1>1
  <2> QED BY <2>1, Zenon DEF Connects
<1>5. synced
  <2>1. wait.at = "queued"
    BY <1>1, <1>2, Zenon DEF Waiter
  <2>2. wait.at # "no"
    BY <2>1
  <2> QED BY <1>2, <2>2, Zenon DEF Waiter
<1>6. Kept(index, queue[1].block)
  <2>1. Kept(index, queue[1].block) \/ Accepts(queue, 1, index.best)
    BY <1>1, <1>2, <1>5, Zenon DEF Promise
  <2>2. ASSUME NEW i \in 1..Len(queue), i < 1 PROVE FALSE
    BY <1>1, <2>2
  <2>3. ~Accepts(queue, 1, index.best)
    BY <2>2, Zenon DEF Accepts
  <2> QED BY <2>1, <2>3, Zenon
<1>7. Promise(Tail(queue), index, tip)
  BY <1>1, <1>2, <1>4, <1>5, TailPromise, Zenon
<1>8. Promise(queue', index', tip) /\ Kept(index', queue[1].block)
  BY <1>0, <1>1, <1>6, <1>7, Zenon
<1>9. index.best = index.muhash /\ index.best # NoBlock
  BY <1>2, <1>5, Zenon DEF Level
<1> QED BY <1>0, <1>2, <1>3, <1>8, <1>9, CallbackStep, Zenon

\* r is q and one more event, about the tip t.
OneMore(r, q, t, e) ==
  /\ IsLonger(r, q) /\ IsNews(r, q, t, t)
  /\ \A i \in 1..Len(r) : New(r, q, i) => r[i] = e
  /\ \A i, j \in 1..Len(r) : New(r, q, i) /\ New(r, q, j) => i = j

LEMMA AppendNews ==
  ASSUME NEW q \in Seq(Event), NEW t \in Block, NEW e \in Event, e.kind # "connected", e.block = t,
         NEW r, r = Append(q, e)
  PROVE  OneMore(r, q, t, e)
<1>1. /\ r \in Seq(Event) /\ Len(q) \in Nat /\ Len(r) = Len(q) + 1 /\ r[Len(q) + 1] = e
      /\ \A i \in 1..Len(q) : r[i] = q[i]
  OBVIOUS
<1>2. IsLonger(r, q)
  BY <1>1 DEF IsLonger
<1>3. \A i \in 1..Len(r) : New(r, q, i) => i = Len(q) + 1
  BY <1>1 DEF New
<1>4. \A i \in 1..Len(r) : New(r, q, i) => r[i] = e /\ ~Connects(r, i)
  BY <1>1, <1>3, Zenon DEF Connects
<1>5. Under(e) = t /\ t \in Ancestors(t)
  BY OwnBranch, Zenon DEF Under
<1>6. IsNews(r, q, t, t)
  BY <1>4, <1>5, Zenon DEF IsNews
<1> QED BY <1>2, <1>3, <1>4, <1>6, Zenon DEF OneMore

\* The blocks from below b down to a height on its branch.
IsRise(b, f, n) ==
  /\ \A i \in 1..n : /\ GetAncestor(b, Height(f) + i) \in Block \ {Genesis}
                     /\ i = 1 => Parent[GetAncestor(b, Height(f) + i)] = f
                     /\ i = n => GetAncestor(b, Height(f) + i) = b
  /\ \A i, j \in 1..n : j = i + 1 =>
       Parent[GetAncestor(b, Height(f) + j)] = GetAncestor(b, Height(f) + i)

LEMMA Rises ==
  ASSUME NEW b \in Block, NEW f \in Ancestors(b), NEW n \in Nat, n = Height(b) - Height(f)
  PROVE  IsRise(b, f, n)
<1> DEFINE A(i) == GetAncestor(b, Height(f) + i)
<1>1. f \in Block /\ Height(f) \in Nat /\ Height(b) \in Nat
  BY InBranch, HeightRec, Zenon
<1>2. ASSUME NEW i \in 0..n
      PROVE  A(i) \in Ancestors(b) /\ Height(A(i)) = Height(f) + i /\ A(i) \in Block
  <2>1. Height(f) + i \in Nat /\ Height(f) + i <= Height(b)
    BY <1>1
  <2>2. \E a \in Ancestors(b) : Height(a) = Height(f) + i
    BY <2>1, EveryHeight, Zenon
  <2>3. A(i) \in Ancestors(b) /\ Height(A(i)) = Height(f) + i
    BY <2>2, AncestorFound, Zenon
  <2> QED BY <2>3, InBranch, Zenon
\* Two blocks of the branch at one height are the same.
<1>3. ASSUME NEW a \in Ancestors(b), NEW c \in Ancestors(b), Height(a) = Height(c) PROVE a = c
  <2>1. a \in Block /\ c \in Block /\ Height(a) \in Nat /\ Height(c) \in Nat
    BY InBranch, HeightRec, Zenon
  <2>2. Height(a) <= Height(c)
    BY <1>3, <2>1
  <2>3. a \in Ancestors(c)
    BY <2>2, Comparable, Zenon
  <2> QED BY <1>3, <2>1, <2>3, Lower, Zenon
<1>4. A(0) = f /\ A(n) = b
  <2>1. 0 \in 0..n /\ n \in 0..n /\ Height(f) + 0 = Height(f) /\ Height(f) + n = Height(b)
    BY <1>1
  <2>2. A(0) \in Ancestors(b) /\ Height(A(0)) = Height(f)
    BY <1>2, <2>1
  <2>3. A(n) \in Ancestors(b) /\ Height(A(n)) = Height(b)
    BY <1>2, <2>1
  <2> HIDE DEF A
  <2> QED BY <1>3, <2>2, <2>3, OwnBranch, Zenon
<1>5. ASSUME NEW i \in 0..n, NEW j \in 1..n, j = i + 1
      PROVE  A(j) \in Block \ {Genesis} /\ Parent[A(j)] = A(i)
  <2> HIDE DEF A
  <2>1. PICK a \in Block : a = A(j) /\ a \in Ancestors(b) /\ Height(a) = Height(f) + j
    <3>1. j \in 0..n
      OBVIOUS
    <3> QED BY <1>2, <3>1, Zenon
  <2>2. a # Genesis
    <3>1. Height(a) # 0
      BY <1>1, <2>1
    <3> QED BY <3>1, HeightRec, Zenon
  <2>3. PICK p \in Block : p = Parent[a]
    BY <2>1, <2>2, ParentType, Zenon
  <2>4. Height(a) = Height(p) + 1 /\ Height(p) \in Nat
    BY <2>1, <2>3, HeightRec, Zenon
  <2>5. Height(p) = Height(f) + i
    BY <1>1, <1>5, <2>1, <2>4
  <2>6. p \in Ancestors(b)
    <3>1. Ancestors(a) = {a} \cup Ancestors(p) /\ p \in Ancestors(p)
      BY <2>1, <2>3, Branches, Zenon
    <3>2. Ancestors(a) \subseteq Ancestors(b)
      BY <2>1, InBranch, Zenon
    <3> QED BY <3>1, <3>2, Zenon
  <2>7. A(i) \in Ancestors(b) /\ Height(A(i)) = Height(p)
    BY <1>2, <2>5, Zenon
  <2>8. p = A(i)
    BY <1>3, <2>6, <2>7, Zenon
  <2> QED BY <2>1, <2>2, <2>3, <2>8, Zenon
<1> HIDE DEF A
<1>6. ASSUME NEW i \in 1..n
      PROVE  A(i) \in Block \ {Genesis} /\ (i = 1 => Parent[A(i)] = f) /\ (i = n => A(i) = b)
  <2>1. PICK k \in 0..n : i = k + 1 /\ k = i - 1
    OBVIOUS
  <2>2. A(i) \in Block \ {Genesis} /\ Parent[A(i)] = A(k)
    BY <1>5, <2>1, Zenon
  <2>3. i = 1 => k = 0
    BY <2>1
  <2> QED BY <1>4, <2>2, <2>3, Zenon
<1>7. ASSUME NEW i \in 1..n, NEW j \in 1..n, j = i + 1 PROVE Parent[A(j)] = A(i)
  <2>1. i \in 0..n
    OBVIOUS
  <2> QED BY <1>5, <1>7, <2>1, Zenon
<1> QED BY <1>6, <1>7, Zenon DEF A, IsRise

\* r is q and the blocks up to b, on the fork with the tip t.
OneBranch(r, q, t, b) ==
  /\ IsLonger(r, q) /\ IsNews(r, q, t, b)
  /\ \A i \in 1..Len(r) : New(r, q, i) => r[i].kind = "connected"
  /\ \E j \in 1..Len(r) : Connects(r, j) /\ Parent[r[j].block] \in Ancestors(t)

LEMMA BranchNews ==
  ASSUME NEW q \in Seq(Event), NEW t \in Block, NEW b \in Block, NEW f \in Ancestors(b),
         f \in Ancestors(t), NEW n \in Nat \ {0}, n = Height(b) - Height(f), NEW r,
         r = q \o [i \in 1..n |-> [kind |-> "connected", block |-> GetAncestor(b, Height(f) + i)]]
  PROVE  OneBranch(r, q, t, b)
<1> DEFINE A(i) == GetAncestor(b, Height(f) + i)
           s == [i \in 1..n |-> [kind |-> "connected", block |-> A(i)]]
<1>1. /\ \A i \in 1..n : /\ A(i) \in Block \ {Genesis}
                         /\ i = 1 => Parent[A(i)] = f
                         /\ i = n => A(i) = b
      /\ \A i, j \in 1..n : j = i + 1 => Parent[A(j)] = A(i)
  <2>1. n \in Nat
    OBVIOUS
  <2>2. IsRise(b, f, n)
    BY <2>1, Rises, Zenon
  <2> QED BY <2>2, Zenon DEF IsRise
<1> HIDE DEF A
<1>2. s \in Seq(Event) /\ Len(s) = n /\ \A i \in 1..n : s[i].kind = "connected" /\ s[i].block = A(i)
  <2> DEFINE e(i) == [kind |-> "connected", block |-> A(i)]
  <2>1. \A i \in 1..n : e(i) \in Event /\ e(i).kind = "connected" /\ e(i).block = A(i)
    BY <1>1 DEF Event
  <2>2. s = [i \in 1..n |-> e(i)]
    OBVIOUS
  <2> HIDE DEF e, s
  <2>3. s \in [1..n -> Event] /\ \A i \in 1..n : s[i] = e(i)
    BY <2>1, <2>2
  <2>4. n \in Nat
    OBVIOUS
  <2>5. s \in Seq(Event) /\ Len(s) = n
    BY <2>3, <2>4
  <2> QED BY <2>1, <2>3, <2>5, Zenon
<1>3. r = q \o s
  BY Zenon DEF A
<1> HIDE DEF s
<1>4. /\ r \in Seq(Event) /\ Len(q) \in Nat /\ Len(r) = Len(q) + n
      /\ \A i \in 1..Len(q) : i \in 1..Len(r) /\ r[i] = q[i]
      /\ \A i \in 1..n : Len(q) + i \in 1..Len(r) /\ r[Len(q) + i] = s[i]
  <2>1. /\ q \in Seq(Event) /\ s \in Seq(Event) /\ n \in Nat /\ Len(s) = n /\ r = q \o s
    BY <1>2, <1>3
  <2>2. r \in Seq(Event) /\ Len(q) \in Nat /\ Len(r) = Len(q) + n
    <3>1. q \o s \in Seq(Event)
      BY <2>1
    <3>2. Len(q \o s) = Len(q) + Len(s) /\ Len(q) \in Nat
      BY <2>1
    <3> QED BY <2>1, <3>1, <3>2, Zenon
  <2>3. ASSUME NEW i \in 1..Len(q) PROVE i \in 1..Len(r) /\ r[i] = q[i]
    <3>1. i \in 1..Len(r)
      BY <2>1, <2>2
    <3>2. (q \o s)[i] = q[i]
      BY <2>1
    <3> QED BY <2>1, <3>1, <3>2, Zenon
  <2>4. ASSUME NEW i \in 1..n PROVE Len(q) + i \in 1..Len(r) /\ r[Len(q) + i] = s[i]
    <3>1. Len(q) + i \in 1..Len(r)
      BY <2>1, <2>2
    <3>2. (q \o s)[Len(q) + i] = s[i]
      BY <2>1
    <3> QED BY <2>1, <3>1, <3>2, Zenon
  <2> QED BY <2>2, <2>3, <2>4, Zenon
<1>5. IsLonger(r, q)
  BY <1>4 DEF IsLonger
\* A new event is one of the blocks.
<1>6. ASSUME NEW i \in 1..Len(r), New(r, q, i)
      PROVE  /\ i - Len(q) \in 1..n /\ Connects(r, i) /\ r[i].kind = "connected"
             /\ r[i].block = A(i - Len(q)) /\ Under(r[i]) = Parent[A(i - Len(q))]
  <2>1. PICK k \in 1..n : k = i - Len(q) /\ i = Len(q) + k
    <3>1. i - Len(q) \in 1..n /\ i = Len(q) + (i - Len(q))
      BY <1>4, <1>6 DEF New
    <3> QED BY <3>1, Zenon
  <2>2. r[i].kind = "connected" /\ r[i].block = A(k)
    BY <1>2, <1>4, <2>1, Zenon
  <2> QED BY <2>1, <2>2, Zenon DEF Connects, Under
<1>7. \A i \in 1..n : Len(q) + i \in 1..Len(r) /\ New(r, q, Len(q) + i) /\ (Len(q) + i) - Len(q) = i
  BY <1>4 DEF New
<1>8. /\ Len(q) + 1 \in 1..Len(r) /\ New(r, q, Len(q) + 1) /\ Connects(r, Len(q) + 1)
      /\ Parent[r[Len(q) + 1].block] = f
  <2>1. 1 \in 1..n
    OBVIOUS
  <2>2. Len(q) + 1 \in 1..Len(r) /\ New(r, q, Len(q) + 1) /\ (Len(q) + 1) - Len(q) = 1
    BY <1>7, <2>1, Zenon
  <2>3. Connects(r, Len(q) + 1) /\ r[Len(q) + 1].block = A(1)
    BY <1>6, <2>2, Zenon
  <2> QED BY <1>1, <2>1, <2>2, <2>3, Zenon
<1>9. ASSUME NEW j \in 1..Len(r), New(r, q, j),
             \A k \in 1..Len(r) : New(r, q, k) /\ k < j => ~Connects(r, k)
      PROVE  Under(r[j]) \in Ancestors(t)
  <2>1. j = Len(q) + 1
    <3>1. ~(Len(q) + 1 < j)
      BY <1>8, <1>9, Zenon
    <3> QED BY <1>4, <1>9, <3>1 DEF New
  <2> QED BY <1>8, <2>1, Zenon DEF Under, Connects
<1>10. ASSUME NEW i \in 1..Len(r), NEW j \in 1..Len(r), New(r, q, i), i < j, Connects(r, i),
              \A k \in 1..Len(r) : i < k /\ k < j => ~Connects(r, k)
       PROVE  Under(r[j]) \in Ancestors(r[i].block)
  <2>1. i + 1 \in 1..Len(r) /\ New(r, q, i + 1) /\ New(r, q, j)
    BY <1>4, <1>10 DEF New
  <2>2. j = i + 1
    <3>1. Connects(r, i + 1)
      BY <1>6, <2>1, Zenon
    <3>2. ~(i < i + 1 /\ i + 1 < j)
      BY <1>10, <2>1, <3>1, Zenon
    <3> QED BY <1>4, <1>10, <3>2
  <2>3. /\ i - Len(q) \in 1..n /\ j - Len(q) \in 1..n
        /\ r[i].block = A(i - Len(q)) /\ Under(r[j]) = Parent[A(j - Len(q))]
    BY <1>6, <1>10, <2>1, Zenon
  <2>4. j - Len(q) = (i - Len(q)) + 1
    BY <1>4, <2>2
  <2>5. Under(r[j]) = r[i].block /\ r[i].block \in Block
    BY <1>1, <2>3, <2>4, Zenon
  <2> QED BY <2>5, OwnBranch, Zenon
<1>11. ASSUME NEW i \in 1..Len(r), New(r, q, i), Connects(r, i),
              \A k \in 1..Len(r) : i < k => ~Connects(r, k)
       PROVE  b \in Ancestors(r[i].block)
  <2>1. n \in 1..n /\ Len(q) + n = Len(r)
    BY <1>4
  <2>2. Len(r) \in 1..Len(r) /\ New(r, q, Len(r))
    BY <1>7, <2>1, Zenon
  <2>3. Connects(r, Len(r))
    BY <1>6, <2>2, Zenon
  <2>4. i - Len(q) = n
    <3>1. ~(i < Len(r))
      BY <1>11, <2>2, <2>3, Zenon
    <3> QED BY <1>4, <2>1, <3>1
  <2>5. r[i].block = b
    BY <1>1, <1>6, <1>11, <2>1, <2>4, Zenon
  <2> QED BY <2>5, OwnBranch, Zenon
<1>12. IsNews(r, q, t, b)
  <2>1. \A i \in 1..Len(r) : New(r, q, i) /\ Connects(r, i) => r[i].block # Genesis
    <3> SUFFICES ASSUME NEW i \in 1..Len(r), New(r, q, i) PROVE r[i].block # Genesis
      BY Zenon
    <3>1. PICK k \in 1..n : r[i].block = A(k)
      BY <1>6, Zenon
    <3> QED BY <1>1, <3>1, Zenon
  <2>2. ~\A k \in 1..Len(r) : New(r, q, k) => ~Connects(r, k)
    BY <1>8, Zenon
  <2> QED BY <1>9, <1>10, <1>11, <2>1, <2>2, Zenon DEF IsNews
<1> QED BY <1>5, <1>6, <1>8, <1>12, Zenon DEF OneBranch

\* A step that queues events leaves the caller where it is if none is a promise.
LEMMA Waits ==
  ASSUME Waiter, index' = index, synced' = synced, wait' = wait, IsLonger(queue', queue),
         \A i \in 1..Len(queue') : New(queue', queue, i) => queue'[i].kind # "sync"
  PROVE  Waiter'
<1>1. \A i \in 1..Len(queue') :
        queue'[i].kind = "sync" => i \in 1..Len(queue) /\ queue'[i] = queue[i]
  BY LongerConnects, Zenon DEF IsLonger
<1>2. \A s \in 1..Len(queue') : queue'[s].kind = "sync" =>
        wait'.at = "queued" /\ queue'[s].block = wait'.block
  BY <1>1, Zenon DEF Waiter
<1>3. \A s, r \in 1..Len(queue') : queue'[s].kind = "sync" /\ queue'[r].kind = "sync" => s = r
  BY <1>1, Zenon DEF Waiter
<1> QED BY <1>2, <1>3, Zenon DEF Waiter

\* A step that queues events, or only moves the tip, and leaves the index alone.
LEMMA QueueStep ==
  ASSUME IInv, Runs, Started', TypeOK', UNCHANGED <<index, synced, pc, pindex, wrote>>,
         IsLonger(queue', queue), IsNews(queue', queue, tip, tip'), Waiter',
         IsAsked(queue', queue, tip, tip')
  PROVE  IInv'
<1>1. /\ TypeOK /\ Running(index) /\ Stored(index) /\ index.error = "none" /\ Level /\ Position
      /\ (synced => Promise(queue, index, tip)) /\ Events(queue, tip)
  BY WhileRunning, Zenon
<1>2. index' = index /\ synced' = synced /\ pc' = pc /\ pindex' = pindex
  BY Zenon
<1>3. tip \in Block /\ index.best \in Block \cup {NoBlock}
  BY <1>1, Fields, Zenon DEF TypeOK
<1>4. Events(queue', tip')
  BY <1>1, <1>3, LongerEvents, Zenon
<1>5. synced' => Promise(queue', index', tip')
  <2>1. ASSUME synced' PROVE Promise(queue', index', tip')
    <3>1. synced
      BY <1>2, <2>1
    <3>2. index.best = index.muhash /\ Promise(queue, index, tip)
      BY <1>1, <3>1, Zenon DEF Level
    <3>3. Promise(queue', index, tip')
      BY <1>3, <3>2, LongerPromise, Zenon
    <3> QED BY <1>2, <3>3, Zenon
  <2> QED BY <2>1, Zenon
<1>6. Running(index') /\ Stored(index') /\ index'.error = "none" /\ index'.error # "fatal"
  <2>1. index.error # "fatal"
    BY <1>1
  <2> QED BY <1>1, <1>2, <2>1, Zenon
<1>7. Level' /\ Position'
  <2>1. Level'
    BY <1>1, <1>2 DEF Level
  <2>2. Position'
    BY <1>1, <1>2 DEF Position
  <2> QED BY <2>1, <2>2, Zenon
<1> QED BY <1>4, <1>5, <1>6, <1>7, Assembled, Zenon

LEMMA SameQueue ==
  ASSUME NEW q \in Seq(Event), NEW t \in Block, NEW u \in Ancestors(t)
  PROVE  IsLonger(q, q) /\ IsNews(q, q, t, u) /\ \A i \in 1..Len(q) : ~New(q, q, i)
<1>1. IsLonger(q, q)
  BY DEF IsLonger
<1>2. \A i \in 1..Len(q) : ~New(q, q, i)
  BY DEF New
<1>3. IsNews(q, q, t, u)
  BY <1>2, Zenon DEF IsNews
<1> QED BY <1>1, <1>2, <1>3, Zenon

LEMMA BlockUntilSyncedStep ==
  ASSUME IInv, BlockUntilSyncedToCurrentChain PROVE IInv'
<1>0. /\ Runs /\ node # "stopping" /\ synced /\ wait.at = "no"
      /\ wait' = [at |-> IF IsCaughtUp THEN "done" ELSE "queued", block |-> tip]
      /\ queue' = IF IsCaughtUp THEN queue ELSE Append(queue, [kind |-> "sync", block |-> tip])
      /\ UNCHANGED <<tip, flushed, known, index, synced, pc, pindex, wrote, node, moves, stops>>
  BY Zenon DEF BlockUntilSyncedToCurrentChain
<1>1. TypeOK /\ Started /\ Running(index) /\ Level /\ Waiter
  BY <1>0, WhileRunning, Zenon
<1>2. /\ tip \in Block /\ queue \in Seq(Event) /\ tip \in Ancestors(tip)
      /\ index.best \in Block \cup {NoBlock}
  BY <1>1, Fields, OwnBranch, Zenon DEF TypeOK
<1>3. Started' /\ tip' = tip /\ synced' = synced /\ index' = index
  BY <1>0, <1>1, Zenon DEF Started
<1>4. \A s \in 1..Len(queue) : queue[s].kind # "sync"
  <2>1. wait.at # "queued"
    BY <1>0
  <2> QED BY <1>1, <2>1, Zenon DEF Waiter
<1>5. wait' \in [at : {"no", "queued", "done"}, block : Block \cup {NoBlock}] /\ wait'.block = tip
  BY <1>0, <1>2
<1>6. CASE IsCaughtUp
  <2>1. queue' = queue /\ wait'.at = "done"
    <3>1. wait' = [at |-> "done", block |-> tip] /\ queue' = queue
      BY <1>0, <1>6, Zenon
    <3> QED BY <3>1
  <2>2. Kept(index, tip)
    <3>1. tip \in Ancestors(index.best)
      BY <1>2, <1>6, AncestorFound, Zenon DEF IsCaughtUp
    <3> QED BY <1>0, <1>1, <3>1, Zenon DEF Kept, Level
  <2>3. Waiter'
    <3>1. wait'.at # "queued"
      BY <2>1
    <3> QED BY <1>0, <1>2, <1>3, <1>4, <1>5, <2>1, <2>2, <3>1 DEF Waiter
  <2>4. TypeOK'
    BY <1>0, <1>1, <1>5, <2>1, Zenon DEF TypeOK
  <2>5. /\ IsLonger(queue', queue) /\ IsNews(queue', queue, tip, tip')
        /\ \A i \in 1..Len(queue') : ~New(queue', queue, i)
    BY <1>2, <1>3, <2>1, SameQueue, Zenon
  <2> QED BY <1>0, <1>2, <1>3, <2>3, <2>4, <2>5, QueueStep, Zenon DEF IsAsked
<1>7. CASE ~IsCaughtUp
  <2>1. PICK e : e = [kind |-> "sync", block |-> tip]
    BY Zenon
  <2>2. e \in Event /\ e.kind = "sync" /\ e.kind # "connected" /\ e.block = tip
    BY <1>2, <2>1 DEF Event
  <2>3. queue' = Append(queue, e) /\ wait'.at = "queued"
    <3>1. wait' = [at |-> "queued", block |-> tip] /\ queue' = Append(queue, e)
      BY <1>0, <1>7, <2>1, Zenon
    <3> QED BY <3>1
  <2>4. /\ IsLonger(queue', queue) /\ IsNews(queue', queue, tip, tip)
        /\ \A i \in 1..Len(queue') : New(queue', queue, i) => queue'[i] = e
        /\ \A i, j \in 1..Len(queue') : New(queue', queue, i) /\ New(queue', queue, j) => i = j
    <3>1. OneMore(queue', queue, tip, e)
      BY <1>2, <2>2, <2>3, AppendNews, Zenon
    <3> QED BY <3>1, Zenon DEF OneMore
  <2>5. \A i \in 1..Len(queue') : queue'[i].kind = "sync" => New(queue', queue, i)
    BY <1>4, <2>4, LongerConnects, Zenon DEF IsLonger
  <2>6. wait'.at # "done"
    BY <2>3
  <2>7. Waiter'
    <3>1. synced' /\ wait'.block \in Block
      BY <1>0, <1>2, <1>3, <1>5
    <3>2. \A s \in 1..Len(queue') : queue'[s].kind = "sync" =>
            wait'.at = "queued" /\ queue'[s].block = wait'.block
      BY <1>5, <2>2, <2>3, <2>4, <2>5, Zenon
    <3>3. \A s, r \in 1..Len(queue') : queue'[s].kind = "sync" /\ queue'[r].kind = "sync" => s = r
      BY <2>4, <2>5, Zenon
    <3> QED BY <2>6, <3>1, <3>2, <3>3, Zenon DEF Waiter
  <2>8. TypeOK'
    <3>1. queue' \in Seq(Event)
      BY <2>4, Zenon DEF IsLonger
    <3> QED BY <1>0, <1>1, <1>5, <3>1, Zenon DEF TypeOK
  <2>9. IsNews(queue', queue, tip, tip')
    BY <1>3, <2>4, Zenon
  <2> QED BY <1>0, <1>2, <1>3, <2>2, <2>4, <2>7, <2>8, <2>9, QueueStep, Zenon DEF IsAsked
<1> QED BY <1>6, <1>7, Zenon

LEMMA ChainChangesFacts ==
  ASSUME IInv, ChainChanges
  PROVE  /\ Runs /\ TypeOK /\ Started' /\ Waiter /\ moves' \in 0..MaxMoves
         /\ UNCHANGED <<index, synced, pc, pindex, wrote, node, wait, stops>>
         /\ tip \in Block /\ queue \in Seq(Event) /\ tip \in Ancestors(tip)
<1>1. Runs /\ TypeOK /\ Started /\ Waiter
  BY WhileRunning, Zenon DEF ChainChanges
<1>2. Started'
  BY <1>1, Zenon DEF ChainChanges, Started
<1>3. moves' \in 0..MaxMoves
  BY <1>1, IndexAssumption DEF TypeOK, ChainChanges
<1> QED BY <1>1, <1>2, <1>3, OwnBranch, Zenon DEF ChainChanges, TypeOK

LEMMA ActivateBestChainStep ==
  ASSUME IInv, NEW b \in Block, ActivateBestChain(b) PROVE IInv'
<1>0. /\ ChainChanges /\ Height(b) > Height(tip) /\ tip' = b /\ flushed' = flushed
      /\ known' = [known EXCEPT !.memory = @ \cup Ancestors(b)]
      /\ queue' = queue \o [i \in 1..(Height(b) - Height(FindFork(b, tip))) |->
                    [kind |-> "connected", block |-> GetAncestor(b, Height(FindFork(b, tip)) + i)]]
  BY Zenon DEF ActivateBestChain
<1>1. /\ Runs /\ TypeOK /\ Started' /\ Waiter /\ moves' \in 0..MaxMoves
      /\ UNCHANGED <<index, synced, pc, pindex, wrote, node, wait, stops>>
      /\ tip \in Block /\ queue \in Seq(Event) /\ tip \in Ancestors(tip)
  BY <1>0, ChainChangesFacts, Zenon
<1>2. PICK f \in Block : f = FindFork(b, tip) /\ f \in Ancestors(b) /\ f \in Ancestors(tip)
  <2>1. Genesis \in Ancestors(b) \cap Ancestors(tip)
    BY <1>1, Branches, Zenon
  <2>2. PICK T \in SUBSET Ancestors(b) : T = Ancestors(b) \cap Ancestors(tip)
    BY Zenon
  <2>3. Highest(T) \in T
    BY <2>1, <2>2, HighestOf, Zenon
  <2> QED BY <2>2, <2>3, InBranch, Zenon DEF FindFork
<1>3. PICK n \in Nat \ {0} : n = Height(b) - Height(f)
  <2>1. Height(f) \in Nat /\ Height(b) \in Nat /\ Height(tip) \in Nat
    BY <1>1, HeightRec, Zenon
  <2>2. Height(f) <= Height(tip)
    BY <1>1, <1>2, Lower, Zenon
  <2> QED BY <1>0, <2>1, <2>2
<1>4. queue' = queue \o
        [i \in 1..n |-> [kind |-> "connected", block |-> GetAncestor(b, Height(f) + i)]]
  BY <1>0, <1>2, <1>3, Zenon
<1>5. /\ IsLonger(queue', queue) /\ IsNews(queue', queue, tip, b)
      /\ \A i \in 1..Len(queue') : New(queue', queue, i) => queue'[i].kind = "connected"
      /\ \E j \in 1..Len(queue') : Connects(queue', j) /\ Parent[queue'[j].block] \in Ancestors(tip)
  <2>1. OneBranch(queue', queue, tip, b)
    BY <1>1, <1>2, <1>3, <1>4, BranchNews, Zenon
  <2> QED BY <2>1, Zenon DEF OneBranch
<1>6. \A i \in 1..Len(queue') : New(queue', queue, i) => queue'[i].kind # "sync"
  <2>1. "connected" # "sync"
    OBVIOUS
  <2> QED BY <1>5, <2>1, Zenon
<1>7. Waiter'
  BY <1>1, <1>5, <1>6, Waits, Zenon
<1>8. TypeOK'
  <2>1. queue' \in Seq(Event)
    BY <1>5, Zenon DEF IsLonger
  <2>2. Ancestors(b) \subseteq Block
    BY InBranch, Zenon
  <2>3. known' \in [memory : SUBSET Block, disk : SUBSET Block]
    BY <1>0, <1>1, <2>2 DEF TypeOK
  <2> QED BY <1>0, <1>1, <2>1, <2>3, Zenon DEF TypeOK
<1>9. IsNews(queue', queue, tip, tip')
  BY <1>0, <1>5, Zenon
<1> QED BY <1>1, <1>5, <1>6, <1>7, <1>8, <1>9, QueueStep, Zenon DEF IsAsked

LEMMA InvalidateBlockStep == ASSUME IInv, InvalidateBlock PROVE IInv'
<1>0. /\ ChainChanges /\ tip # Genesis /\ tip' = Parent[tip]
      /\ queue' = queue /\ flushed' = flushed /\ known' = known
  BY Zenon DEF InvalidateBlock
<1>1. /\ Runs /\ TypeOK /\ Started' /\ Waiter /\ moves' \in 0..MaxMoves
      /\ UNCHANGED <<index, synced, pc, pindex, wrote, node, wait, stops>>
      /\ tip \in Block /\ queue \in Seq(Event) /\ tip \in Ancestors(tip)
  BY <1>0, ChainChangesFacts, Zenon
<1>2. tip' \in Ancestors(tip) /\ tip' \in Block
  BY <1>0, <1>1, Branches, ParentType, Zenon
<1>3. /\ IsLonger(queue', queue) /\ IsNews(queue', queue, tip, tip')
      /\ \A i \in 1..Len(queue') : ~New(queue', queue, i)
  BY <1>0, <1>1, <1>2, SameQueue, Zenon
<1>4. Waiter'
  BY <1>1, <1>3, Waits, Zenon
<1>5. TypeOK'
  BY <1>0, <1>1, <1>2, Zenon DEF TypeOK
<1> QED BY <1>1, <1>2, <1>3, <1>4, <1>5, QueueStep, Zenon DEF IsAsked

\* A flush is queued.
LEMMA FlushStep ==
  ASSUME IInv, Runs, Started', tip' = tip, flushed' = tip,
         known' = [known EXCEPT !.disk = known.memory],
         queue' = Append(queue, [kind |-> "flushed", block |-> tip]),
         UNCHANGED <<index, synced, pc, pindex, wrote, wait, stops>>, moves' \in 0..MaxMoves,
         node' \in {"down", "up", "interrupted", "stopping", "failed"}
  PROVE  IInv'
<1>1. TypeOK /\ Waiter
  BY WhileRunning, Zenon
<1>2. tip \in Block /\ queue \in Seq(Event) /\ tip \in Ancestors(tip)
  BY <1>1, OwnBranch, Zenon DEF TypeOK
<1>3. PICK e : e = [kind |-> "flushed", block |-> tip]
  BY Zenon
<1>4. e \in Event /\ e.kind # "sync" /\ e.kind # "connected" /\ e.block = tip
  BY <1>2, <1>3 DEF Event
<1>5. /\ IsLonger(queue', queue) /\ IsNews(queue', queue, tip, tip)
      /\ \A i \in 1..Len(queue') : New(queue', queue, i) => queue'[i] = e
  <2>1. OneMore(queue', queue, tip, e)
    BY <1>2, <1>3, <1>4, AppendNews, Zenon
  <2> QED BY <2>1, Zenon DEF OneMore
<1>6. Waiter'
  BY <1>1, <1>4, <1>5, Waits, Zenon
<1>7. TypeOK'
  <2>1. queue' \in Seq(Event)
    BY <1>5, Zenon DEF IsLonger
  <2>2. known' \in [memory : SUBSET Block, disk : SUBSET Block]
    BY <1>1 DEF TypeOK
  <2> QED BY <1>1, <1>2, <2>1, <2>2, Zenon DEF TypeOK
<1>8. IsNews(queue', queue, tip, tip') /\ tip' \in Ancestors(tip)
  BY <1>2, <1>5, Zenon
<1> QED BY <1>4, <1>5, <1>6, <1>7, <1>8, QueueStep, Zenon DEF IsAsked

LEMMA FlushStateToDiskStep == ASSUME IInv, FlushStateToDisk PROVE IInv'
<1>1. /\ Runs /\ TypeOK /\ Started' /\ moves' \in 0..MaxMoves
      /\ UNCHANGED <<index, synced, pc, pindex, wrote, node, wait, stops>>
  BY ChainChangesFacts, Zenon DEF FlushStateToDisk
<1>2. node' \in {"down", "up", "interrupted", "stopping", "failed"}
  BY <1>1, Zenon DEF TypeOK
<1> QED BY <1>1, <1>2, FlushStep, Zenon DEF FlushStateToDisk

LEMMA FlushAtShutdownStep == ASSUME IInv, FlushAtShutdown PROVE IInv'
<1>1. Runs /\ TypeOK
  BY WhileRunning, Zenon DEF FlushAtShutdown
<1>2. Started' /\ node' \in {"down", "up", "interrupted", "stopping", "failed"}
  BY DEF FlushAtShutdown, Started
<1>3. moves' \in 0..MaxMoves
  BY <1>1, Zenon DEF FlushAtShutdown, TypeOK
<1> QED BY <1>1, <1>2, <1>3, FlushStep, Zenon DEF FlushAtShutdown

\* The block the locator leads to is a block.
LEMMA ForkFound ==
  ASSUME NEW b \in Block, NEW stored, tip \in Block
  PROVE  FindForkInGlobalIndex(b, stored) \in Block
<1>1. PICK T \in SUBSET Ancestors(b) : T = {a \in Ancestors(b) \cap stored :
                                          a \in Ancestors(tip) \/ GetAncestor(a, Height(tip)) = tip}
  BY Zenon
<1>2. T # {} => Highest(T) \in Ancestors(b)
  BY HighestOf, Zenon
<1>3. T # {} => Highest(T) \in Block
  BY <1>2, InBranch, Zenon
<1> QED BY <1>1, <1>3, ParentType, Zenon DEF FindForkInGlobalIndex

LEMMA StartStep == ASSUME IInv, NEW last, Start(last) PROVE IInv'
<1> DEFINE stored == known.disk \cup Ancestors(last)
           b == IF index.db.best = NoBlock THEN NoBlock
                ELSE FindForkInGlobalIndex(index.db.best, stored)
           x == [index EXCEPT !.best = b, !.muhash = index.db.muhash, !.error = "none"]
           ok == b = NoBlock \/ (LookUpOne(x, b) # NoBlock /\ LookUpOne(x, b) = x.muhash)
<1>1. /\ known' = [memory |-> stored, disk |-> stored]
      /\ index' = x /\ synced' = (b = tip) /\ pindex' = b
      /\ pc' = (IF ok /\ b # tip THEN "loop" ELSE "off")
      /\ node' = (IF ok THEN "up" ELSE "failed")
  BY Zenon DEF Start
<1> HIDE DEF ok
<1>2. /\ node = "down" /\ last \in known.memory /\ wrote' = FALSE
      /\ UNCHANGED <<tip, flushed, queue, wait, moves, stops>>
  BY Zenon DEF Start
<1>3. /\ TypeOK /\ Stored(index) /\ Events(queue, tip) /\ queue = <<>> /\ wait = NoWait
  <2>1. ~Started
    BY <1>2 DEF Started
  <2> QED BY <2>1, Zenon DEF IInv
<1>4. index \in Index /\ index.db.muhash = index.db.best /\ index.db.best \in Block \cup {NoBlock}
  BY <1>3, Fields, Zenon DEF Stored
<1>5. b \in Block \cup {NoBlock} /\ (index.db.best # NoBlock => b \in Block)
  <2>1. tip \in Block
    BY <1>3, Zenon DEF TypeOK
  <2> QED BY <1>4, <2>1, ForkFound, Zenon
<1> HIDE DEF b, stored
<1>6. /\ x \in Index /\ x.best = b /\ x.muhash = index.db.best /\ x.error = "none"
      /\ x.db = index.db /\ x.byHeight = index.byHeight /\ x.byHash = index.byHash
  BY <1>4, <1>5 DEF Index, Stats
<1> HIDE DEF x
<1>7. Stored(x) /\ Trail(x, index.db.best)
  <2>1. Entries(x)
    BY <1>3, <1>6 DEF Stored, Entries
  <2>2. Trail(x, index.db.best)
    BY <1>3, <1>6 DEF Stored, Trail
  <2> QED BY <1>3, <1>6, <2>1, <2>2, Zenon DEF Stored
<1>8. TypeOK'
  <2>1. Ancestors(last) \subseteq Block
    <3>1. known.memory \subseteq Block
      BY <1>3 DEF TypeOK
    <3> QED BY <1>2, <3>1, InBranch, Zenon
  <2>2. known' \in [memory : SUBSET Block, disk : SUBSET Block]
    BY <1>1, <1>3, <2>1 DEF TypeOK, stored
  <2>3. /\ pc' \in {"off", "loop", "write", "append"}
        /\ node' \in {"down", "up", "interrupted", "stopping", "failed"}
        /\ synced' \in BOOLEAN /\ wrote' \in BOOLEAN
    BY <1>1, <1>2
  <2>4. index' \in Index /\ pindex' \in Block \cup {NoBlock}
    BY <1>1, <1>5, <1>6, Zenon
  <2> QED BY <1>2, <1>3, <2>2, <2>3, <2>4, Zenon DEF TypeOK
<1>9. Events(queue', tip') /\ queue' = <<>> /\ wait' = NoWait /\ tip' = tip
  BY <1>2, <1>3, Zenon
<1>10. index'.error # "fatal" /\ Stored(index')
  BY <1>1, <1>6, <1>7
<1>11. CASE ~ok
  <2>1. ~Started'
    BY <1>1, <1>11 DEF Started
  <2> QED BY <1>8, <1>9, <1>10, <2>1, Assembled, Zenon
<1>12. CASE ok
  \* The statistics read are those of the block found.
  <2>1. b = index.db.best
    <3>1. CASE b = NoBlock
      <4>1. b \notin Block
        BY <3>1, TreeAssumption, Zenon
      <4> QED BY <1>5, <3>1, <4>1, Zenon
    <3>2. CASE b # NoBlock
      <4>1. b \in Block /\ LookUpOne(x, b) # NoBlock /\ LookUpOne(x, b) = x.muhash
        BY <1>5, <1>12, <3>2, Zenon DEF ok
      <4>2. LookUpOne(x, b) \in {NoBlock, b}
        BY <1>6, <1>7, <4>1, FoundIsExact, Zenon DEF Stored
      <4> QED BY <1>6, <4>1, <4>2, Zenon
    <3> QED BY <3>1, <3>2, Zenon
  <2>2. b # Bad /\ Within(b, b)
    BY <1>5, IndexAssumption, OwnBranch, Zenon DEF Within
  <2>3. Running(x)
    BY <1>6, <1>7, <2>1, <2>2, Zenon DEF Running
  <2>4. b = tip => b # NoBlock
    BY <1>3, TreeAssumption, Zenon DEF TypeOK
  <2>5. Level'
    BY <1>1, <1>6, <2>1, <2>4, Zenon DEF Level
  <2>6. Position'
    <3>1. pc' \notin {"write", "append"}
      BY <1>1
    <3> QED BY <1>1, <1>6, <2>1, <3>1, Zenon DEF Position
  <2>7. Waiter'
    <3>1. wait'.at = "no" /\ \A s : s \notin 1..Len(queue')
      BY <1>9 DEF NoWait
    <3>2. wait'.at # "done"
      BY <3>1
    <3> QED BY <3>1, <3>2, Zenon DEF Waiter
  <2>8. synced' => Promise(queue', index', tip')
    <3>1. \A s : s \notin 1..Len(queue')
      BY <1>9
    <3>2. b = tip => tip \in Ancestors(b)
      BY <1>3, OwnBranch, Zenon DEF TypeOK
    <3> QED BY <1>1, <1>6, <1>9, <3>1, <3>2, Zenon DEF Promise
  <2>9. Started' /\ Running(index')
    <3>1. Started'
      BY <1>1, <1>12 DEF Started
    <3> QED BY <1>1, <2>3, <3>1, Zenon
  <2> QED BY <1>8, <1>9, <1>10, <2>5, <2>6, <2>7, <2>8, <2>9, Assembled, Zenon
<1> QED BY <1>11, <1>12, Zenon

\* No event is queued.
LEMMA NoEvents == ASSUME NEW t PROVE Events(<<>>, t)
<1>1. \A i : i \notin 1..Len(<<>>)
  OBVIOUS
<1> QED BY <1>1, Zenon DEF Events, Follows, Leads

LEMMA EndsStep == ASSUME IInv, Ends, stops' \in 0..MaxStops PROVE IInv'
<1>1. TypeOK /\ Stored(index) /\ index.error # "fatal"
  BY Zenon DEF IInv
<1>2. /\ node' = "down" /\ tip' = flushed /\ queue' = <<>> /\ pc' = "off" /\ wait' = NoWait
      /\ UNCHANGED <<flushed, known, index, synced, pindex, wrote, moves>>
  BY Zenon DEF Ends
<1>3. ~Started'
  BY <1>2 DEF Started
<1>4. queue' \in Seq(Event) /\ wait' \in [at : {"no", "queued", "done"}, block : Block \cup {NoBlock}]
  BY <1>2 DEF NoWait
<1>5. TypeOK'
  BY <1>1, <1>2, <1>4 DEF TypeOK
<1>6. Events(queue', tip')
  BY <1>2, NoEvents, Zenon
<1>7. Stored(index') /\ index'.error # "fatal"
  BY <1>1, <1>2, Zenon
<1> QED BY <1>2, <1>3, <1>5, <1>6, <1>7, Assembled, Zenon

LEMMA InterruptStep == ASSUME IInv, Interrupt PROVE IInv'
<1>1. /\ Runs /\ stops < MaxStops /\ stops' = stops + 1 /\ node' = "interrupted"
      /\ UNCHANGED <<tip, flushed, known, queue, index, synced, pc, pindex, wrote, wait, moves>>
  BY Zenon DEF Interrupt
<1>2. /\ TypeOK /\ Running(index) /\ Stored(index) /\ index.error = "none" /\ Started
      /\ Level /\ Waiter /\ Position /\ (synced => Promise(queue, index, tip))
      /\ Events(queue, tip)
  BY <1>1, WhileRunning, Zenon
<1>3. stops' \in 0..MaxStops
  BY <1>1, <1>2, IndexAssumption DEF TypeOK
<1>4. Started' /\ node' \in {"down", "up", "interrupted", "stopping", "failed"}
  BY <1>1 DEF Started
<1>5. TypeOK'
  BY <1>1, <1>2, <1>3, <1>4, Zenon DEF TypeOK
<1>6. index'.error # "fatal"
  BY <1>1, <1>2
<1>7. Level' /\ Waiter' /\ Position'
  BY <1>1, <1>2, Zenon DEF Level, Waiter, Position
<1>8. /\ Stored(index') /\ Running(index') /\ Events(queue', tip')
      /\ synced' => Promise(queue', index', tip')
  BY <1>1, <1>2, Zenon
<1> QED BY <1>4, <1>5, <1>6, <1>7, <1>8, Assembled, Zenon

LEMMA IndexInit == Init => IInv
<1> SUFFICES ASSUME Init PROVE IInv
  BY Zenon
<1>1. tip \in Block /\ Ancestors(tip) \subseteq Block
  BY IndexAssumption, InBranch, Zenon DEF Init
<1>2. \A h \in Heights : NoEntry \in [block : Block \cup {NoBlock}, stats : Stats]
  BY DEF NoEntry, Stats
<1>3. /\ index \in Index /\ index.best = NoBlock /\ index.muhash = NoBlock /\ index.error = "none"
      /\ index.byHeight = [h \in Heights |-> NoEntry] /\ index.byHash = [b \in Block |-> NoBlock]
      /\ index.db.muhash = NoBlock /\ index.db.best = NoBlock
  BY <1>2 DEF Init, Index, Stats
<1>4. TypeOK
  <2>1. /\ queue \in Seq(Event)
        /\ wait \in [at : {"no", "queued", "done"}, block : Block \cup {NoBlock}]
        /\ known \in [memory : SUBSET Block, disk : SUBSET Block]
        /\ moves \in 0..MaxMoves /\ stops \in 0..MaxStops
    BY <1>1, IndexAssumption DEF Init, NoWait
  <2> QED BY <1>1, <1>3, <2>1 DEF Init, TypeOK
<1>5. Stored(index)
  <2>1. Entries(index)
    <3>1. NoEntry.block = NoBlock /\ NoEntry.stats = NoBlock
      BY DEF NoEntry
    <3> QED BY <1>3, <3>1 DEF Entries
  <2>2. Ancestors(NoBlock) = {}
    BY DEF Ancestors, Chain
  <2> QED BY <1>3, <2>1, <2>2, Zenon DEF Stored, Trail
<1>6. ~Started /\ index.error # "fatal"
  BY <1>3 DEF Init, Started
<1>7. Events(queue, tip)
  BY NoEvents, Zenon DEF Init
<1> QED BY <1>4, <1>5, <1>6, <1>7, Zenon DEF IInv, Init

LEMMA IndexStep == IInv /\ [Next]_vars => IInv'
<1> SUFFICES ASSUME IInv, [Next]_vars PROVE IInv'
  BY Zenon
<1>1. CASE ThreadSync
  BY <1>1, SyncInterruptedStep, SyncDoneStep, SyncNextStep, SyncWriteStep, SyncAppendStep, Zenon
     DEF ThreadSync
<1>2. CASE Callback
  BY <1>2, BlockConnectedStep, ChainStateFlushedStep, SyncPromiseStep, Zenon DEF Callback
<1>3. CASE BlockUntilSyncedToCurrentChain
  BY <1>3, BlockUntilSyncedStep, Zenon
<1>4. CASE \E b \in Block : ActivateBestChain(b)
  BY <1>4, ActivateBestChainStep, Zenon
<1>5. CASE InvalidateBlock
  BY <1>5, InvalidateBlockStep, Zenon
<1>6. CASE FlushStateToDisk
  BY <1>6, FlushStateToDiskStep, Zenon
<1>7. CASE \E last \in Block : Start(last)
  BY <1>7, StartStep, Zenon
<1>8. CASE Crash
  <2>1. TypeOK
    BY Zenon DEF IInv
  <2>2. stops' \in 0..MaxStops
    BY <1>8, <2>1, IndexAssumption DEF Crash, TypeOK
  <2> QED BY <1>8, <2>2, EndsStep, Zenon DEF Crash
<1>9. CASE Interrupt
  BY <1>9, InterruptStep, Zenon
<1>10. CASE Shutdown
  <2>1. stops \in 0..MaxStops
    BY Zenon DEF IInv, TypeOK
  <2> QED BY <1>10, <2>1, FlushAtShutdownStep, EndsStep, Zenon DEF Shutdown, Stop, Abort
<1>11. CASE UNCHANGED vars
  BY <1>11 DEF vars, IInv, TypeOK, Started, Level, Waiter, Position
<1> QED BY <1>1, <1>2, <1>3, <1>4, <1>5, <1>6, <1>7, <1>8, <1>9, <1>10, <1>11, Zenon DEF Next

LEMMA IndexInvariant == Spec => []IInv
<1>1. Init => IInv
  BY IndexInit
<1>2. IInv /\ [Next]_vars => IInv'
  BY IndexStep
<1> QED BY <1>1, <1>2, PTL DEF Spec
-----------------------------------------------------------------------------
\* The variables keep their types, whatever the order of the thread's steps, the
\* callbacks, the changes of the chain and the stops.
THEOREM TypeCorrect == Spec => []TypeOK
<1>1. IInv => TypeOK
  BY Zenon DEF IInv
<1> QED BY <1>1, IndexInvariant, PTL

\* LookUpOne finds the statistics of the block it is asked for or nothing, those
\* of every block up to the best one are found, and DB_MUHASH belongs to
\* DB_BEST_BLOCK, for every tree of blocks and any number of crashes.
THEOREM StatsCorrect == Spec => []StatsExact
<1>1. IInv => StatsExact
  <2> SUFFICES ASSUME IInv PROVE StatsExact
    BY Zenon
  <2>1. Stored(index) /\ index \in Index /\ Entries(index) /\ index.db.muhash = index.db.best
    BY Zenon DEF IInv, Stored
  <2>2. \A b \in Block : LookUpOne(index, b) \in {NoBlock, b}
    BY <2>1, FoundIsExact, Zenon
  <2>3. ASSUME Started, NEW b \in Ancestors(index.best) PROVE LookUpOne(index, b) = b
    <3>1. Running(index)
      BY <2>3, Zenon DEF IInv
    <3>2. /\ Trail(index, index.muhash) /\ Within(index.muhash, index.best)
          /\ index.muhash \in Block \cup {NoBlock} /\ index.best \in Block \cup {NoBlock}
      BY <2>1, <3>1, MuhashType, Fields, Zenon DEF Running, Stored
    <3>3. index.best \in Block
      BY <2>3, <3>2, InBranch, Zenon
    <3>4. index.best \in Ancestors(index.muhash) /\ index.muhash \in Block
      BY <3>2, <3>3, OwnBranch, InBranch, Zenon DEF Within
    <3>5. b \in Ancestors(index.muhash) /\ b \in Block
      BY <2>3, <3>3, <3>4, InBranch, Zenon
    <3> QED BY <2>1, <3>2, <3>5, TrailFound, Zenon
  <2> QED BY <2>1, <2>2, <2>3, Zenon DEF StatsExact
<1> QED BY <1>1, IndexInvariant, PTL

\* The index is never stopped by a callback of a stale branch, and once it is
\* synced and the queue empty its best block is at or past the tip.
THEOREM DrainedCorrect == Spec => []SyncedWhenDrained
<1>1. IInv => SyncedWhenDrained
  <2> SUFFICES ASSUME IInv PROVE SyncedWhenDrained
    BY Zenon
  <2>1. index.error # "fatal" /\ index \in Index /\ tip \in Block
    BY Zenon DEF IInv, Stored, TypeOK
  <2>2. ASSUME Started, synced, queue = <<>> PROVE IsCaughtUp
    <3>1. Promise(queue, index, tip)
      BY <2>2, Zenon DEF IInv
    <3>2. \A s : s \notin 1..Len(queue)
      BY <2>2
    <3>3. tip \in Ancestors(index.best)
      BY <3>1, <3>2, Zenon DEF Promise, Accepts
    <3> QED BY <2>1, <3>3, AncestorFound, Fields, Zenon DEF IsCaughtUp
  <2> QED BY <2>1, <2>2, Zenon DEF SyncedWhenDrained
<1> QED BY <1>1, IndexInvariant, PTL

\* A caller of BlockUntilSyncedToCurrentChain that was told yes finds the block
\* that was the tip when it called, however the chain has moved since.
THEOREM WaitCorrect == Spec => []WaitKeepsPromise
<1>1. IInv => WaitKeepsPromise
  <2> SUFFICES ASSUME IInv, wait.at = "done" PROVE LookUpOne(index, wait.block) = wait.block
    BY Zenon DEF WaitKeepsPromise
  <2>1. Started
    <3>1. wait # NoWait
      BY DEF NoWait
    <3> QED BY <3>1, Zenon DEF IInv
  <2>2. Running(index) /\ Waiter
    BY <2>1, Zenon DEF IInv
  <2>3. wait.at # "no"
    OBVIOUS
  <2>4. wait.block \in Block /\ Kept(index, wait.block)
    BY <2>2, <2>3, Zenon DEF Waiter
  <2>5. index \in Index /\ Entries(index) /\ Trail(index, index.muhash)
    BY <2>2, Zenon DEF Running, Stored
  <2> QED BY <2>4, <2>5, FoundIsExact, Zenon
<1> QED BY <1>1, IndexInvariant, PTL
=============================================================================
