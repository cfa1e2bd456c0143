------------------------ MODULE ChainSelectionProofs ------------------------
(***************************************************************************)
(* Proofs about ChainSelection, for every block tree, every set of invalid *)
(* blocks and any number of calls.                                         *)
(*                                                                         *)
(* The inductive invariant comes in layers, each proved with the help of   *)
(* the ones before: Basis (types, the shape of the index, which branches   *)
(* were received, where a round stands), CleanTips (failure marks stay off *)
(* the active chain and the branch to the target), Marks, Waiting and      *)
(* Avoid (what a failure mark, or its absence, says of a block), Sequence  *)
(* and Choice (every good block not worse than the tip is a candidate).    *)
(*                                                                         *)
(* The last section is about Pow, whose targets decide the work that       *)
(* ChainSelection compares: every target CalculateNextWorkRequired can     *)
(* demand is one that PermittedDifficultyTransition lets through, so the   *)
(* download of headers never turns away a chain whose targets are right,   *)
(* for every interval, limit, height and timespan, rounding included.      *)
(***************************************************************************)
EXTENDS ChainSelection, Pow, NaturalsInduction, WellFoundedInduction, TLAPS

-----------------------------------------------------------------------------
\* The tree.

\* Induction along the tree, for a set of blocks.
LEMMA TreeInduction ==
  ASSUME NEW S \in SUBSET Block, Genesis \in S,
         \A b \in Block \ {Genesis} : Parent[b] \in S => b \in S
  PROVE  S = Block
BY TreeAssumption, Zenon

LEMMA ParentType == Genesis \in Block /\ \A b \in Block \ {Genesis} : Parent[b] \in Block
BY TreeAssumption, Zenon

\* The recursive definition of the branch of a block has a solution: the least
\* set with the block that is closed under Parent.
LEMMA BranchEquation ==
  Branch = [b \in Block |-> IF b = Genesis THEN {b} ELSE {b} \cup Branch[Parent[b]]]
<1> DEFINE F(f) == [b \in Block |-> IF b = Genesis THEN {b} ELSE {b} \cup f[Parent[b]]]
           Closed(b, S) == b \in S /\ \A x \in S \ {Genesis} : Parent[x] \in S
           Least(b) == {a \in Block : \A S \in SUBSET Block : Closed(b, S) => a \in S}
           w == [b \in Block |-> Least(b)]
<1>1. ASSUME NEW b \in Block
      PROVE  Least(b) = IF b = Genesis THEN {b} ELSE {b} \cup Least(Parent[b])
  <2>1. CASE b = Genesis
    <3>1. Closed(b, {b})
      BY <2>1, Zenon
    <3>2. \A a \in Least(b) : a = b
      BY <3>1, <2>1, TreeAssumption, Zenon
    <3> QED BY <3>2, <2>1, Zenon
  <2>2. CASE b # Genesis
    <3> DEFINE p == Parent[b]
    <3>0. p \in Block
      BY <2>2, ParentType, Zenon
    <3>1. \A S \in SUBSET Block : Closed(p, S) => Closed(b, S \cup {b})
      BY <3>0, Zenon
    <3>2. \A S \in SUBSET Block : Closed(b, S) => Closed(p, S)
      BY <2>2, Zenon
    <3>3. Least(b) \subseteq {b} \cup Least(p)
      BY <3>1, Zenon
    <3>4. {b} \cup Least(p) \subseteq Least(b)
      BY <3>2, Zenon
    <3> QED BY <3>3, <3>4, <2>2, Zenon
  <2> QED BY <2>1, <2>2, Zenon
<1>2. w = F(w)
  <2>1. ASSUME NEW b \in Block PROVE w[b] = F(w)[b]
    <3>1. CASE b = Genesis
      BY <3>1, <1>1, Zenon
    <3>2. CASE b # Genesis
      <4>1. Parent[b] \in Block
        BY <3>2, ParentType, Zenon
      <4> HIDE DEF Least
      <4> QED BY <3>2, <1>1, <4>1, Zenon
    <3> QED BY <3>1, <3>2, Zenon
  <2> HIDE DEF Least
  <2> QED BY <2>1, Zenon
<1>3. \E f : f = F(f)
  <2> HIDE DEF w, F
  <2> QED BY <1>2, Zenon
<1>4. (CHOOSE f : f = F(f)) = F(CHOOSE f : f = F(f))
  <2> HIDE DEF F
  <2> QED BY <1>3, Zenon
<1> QED BY <1>4, Zenon DEF Branch

\* What the definition of Ancestors says of a block and its parent.
LEMMA AncestorsRec ==
  /\ Ancestors[Genesis] = {Genesis}
  /\ \A b \in Block \ {Genesis} : Ancestors[b] = {b} \cup Ancestors[Parent[b]]
  /\ \A b \in Block : b \in Ancestors[b] /\ Ancestors[b] \subseteq Block /\ Genesis \in Ancestors[b]
<1>1. \A b \in Block : Ancestors[b] = IF b = Genesis THEN {b} ELSE {b} \cup Ancestors[Parent[b]]
  BY BranchEquation, ParentType, Zenon DEF Ancestors
<1> DEFINE S == {b \in Block : Ancestors[b] \subseteq Block /\ Genesis \in Ancestors[b]}
<1>2. Genesis \in S
  BY <1>1, ParentType, Zenon
<1>3. \A b \in Block \ {Genesis} : Parent[b] \in S => b \in S
  BY <1>1, Zenon
<1>4. S = Block
  <2> HIDE DEF S
  <2>1. S \in SUBSET Block
    BY Zenon DEF S
  <2> QED BY <1>2, <1>3, <2>1, TreeInduction, Zenon
<1>5. \A b \in Block : Ancestors[b] \subseteq Block /\ Genesis \in Ancestors[b]
  BY <1>4, Zenon
<1>6. Ancestors[Genesis] = {Genesis}
  BY <1>1, ParentType, Zenon
<1>7. \A b \in Block \ {Genesis} : Ancestors[b] = {b} \cup Ancestors[Parent[b]]
  BY <1>1, Zenon
<1>8. \A b \in Block : b \in Ancestors[b]
  BY <1>6, <1>7, Zenon
<1> QED BY <1>5, <1>6, <1>7, <1>8, Zenon

\* A branch holds the branches of its blocks.
LEMMA AncestorsTransitive ==
  ASSUME NEW b \in Block, NEW a \in Ancestors[b]
  PROVE  a \in Block /\ Ancestors[a] \subseteq Ancestors[b]
<1> DEFINE S == {x \in Block : \A y \in Ancestors[x] : Ancestors[y] \subseteq Ancestors[x]}
<1>1. Genesis \in S
  BY AncestorsRec, ParentType, Zenon
<1>2. \A x \in Block \ {Genesis} : Parent[x] \in S => x \in S
  BY AncestorsRec
<1>3. S = Block
  <2> HIDE DEF S
  <2>1. S \in SUBSET Block
    BY Zenon DEF S
  <2> QED BY <1>1, <1>2, <2>1, TreeInduction, Zenon
<1> QED BY <1>3, AncestorsRec, Zenon

LEMMA AncestorsClosed ==
  ASSUME NEW b \in Block, NEW a \in Ancestors[b], a # Genesis
  PROVE  Parent[a] \in Ancestors[b]
BY AncestorsTransitive, AncestorsRec, ParentType, Zenon

\* The tree has no cycle.
LEMMA NotOwnAncestor ==
  ASSUME NEW b \in Block \ {Genesis}
  PROVE  b \notin Ancestors[Parent[b]]
<1> SUFFICES ASSUME b \in Ancestors[Parent[b]] PROVE FALSE
  BY Zenon
<1> DEFINE S == {x \in Block : b \notin Ancestors[x]}
<1>1. Genesis \in S
  BY AncestorsRec, ParentType, Zenon
<1>2. \A x \in Block \ {Genesis} : Parent[x] \in S => x \in S
  BY AncestorsRec, Zenon
<1>3. S = Block
  <2> HIDE DEF S
  <2>1. S \in SUBSET Block
    BY Zenon DEF S
  <2> QED BY <1>1, <1>2, <2>1, TreeInduction, Zenon
<1> QED BY <1>3, ParentType, Zenon

\* The recursive definition of the chain work has a solution: every branch has
\* exactly one, and they agree.
LEMMA ChainWorkEquation ==
  /\ ChainWork \in [Block -> Nat]
  /\ ChainWork[Genesis] = Proof[Genesis]
  /\ \A b \in Block \ {Genesis} : ChainWork[b] = ChainWork[Parent[b]] + Proof[b]
<1> DEFINE F(f) == [b \in Block |->
                      IF b = Genesis THEN Proof[b] ELSE f[Parent[b]] + Proof[b]]
           Solves(g, b) ==
             /\ g \in [Ancestors[b] -> Nat]
             /\ \A a \in Ancestors[b] :
                  g[a] = IF a = Genesis THEN Proof[a] ELSE g[Parent[a]] + Proof[a]
           w == [b \in Block |-> (CHOOSE g : Solves(g, b))[b]]
<1>1. \A b \in Block : \E g : Solves(g, b)
  <2> DEFINE S == {b \in Block : \E g : Solves(g, b)}
  <2>1. Genesis \in S
    <3> DEFINE g == [a \in {Genesis} |-> Proof[a]]
    <3>1. Solves(g, Genesis)
      <4>1. Proof[Genesis] \in Nat
        BY ChainAssumption, ParentType, Zenon
      <4> QED BY <4>1, AncestorsRec, Zenon
    <3> QED BY <3>1, ParentType, Zenon
  <2>2. ASSUME NEW b \in Block \ {Genesis}, Parent[b] \in S
        PROVE  b \in S
    <3>1. PICK g : Solves(g, Parent[b])
      BY <2>2, Zenon
    <3> DEFINE h == [a \in Ancestors[b] |-> IF a = b THEN g[Parent[b]] + Proof[b] ELSE g[a]]
    <3>2. /\ Ancestors[b] = {b} \cup Ancestors[Parent[b]]
          /\ Parent[b] \in Ancestors[Parent[b]]
          /\ b \notin Ancestors[Parent[b]]
      BY AncestorsRec, NotOwnAncestor, ParentType, Zenon
    <3>3. \A a \in Ancestors[Parent[b]] : a # Genesis => Parent[a] \in Ancestors[Parent[b]]
      BY ParentType, AncestorsClosed, Zenon
    <3>4. g[Parent[b]] \in Nat /\ Proof[b] \in Nat
      BY <3>1, <3>2, ChainAssumption, Zenon
    <3>5. h \in [Ancestors[b] -> Nat]
      BY <3>1, <3>2, <3>4
    <3>6. ASSUME NEW a \in Ancestors[b]
          PROVE  h[a] = IF a = Genesis THEN Proof[a] ELSE h[Parent[a]] + Proof[a]
      <4>1. CASE a = b
        BY <4>1, <3>2, Zenon
      <4>2. CASE a # b
        BY <4>2, <3>2, <3>3, <3>1, Zenon
      <4> QED BY <4>1, <4>2, Zenon
    <3>7. Solves(h, b)
      BY <3>5, <3>6, Zenon
    <3> QED BY <3>7, Zenon
  <2>3. S = Block
    <3> HIDE DEF S
    <3>1. S \in SUBSET Block
      BY Zenon DEF S
    <3> QED BY <2>1, <2>2, <3>1, TreeInduction, Zenon
  <2> QED BY <2>3, Zenon
<1>2. ASSUME NEW b \in Block PROVE Solves(CHOOSE g : Solves(g, b), b)
  <2>1. \E g : Solves(g, b)
    BY <1>1, Zenon
  <2> HIDE DEF Solves
  <2> QED BY <2>1, Zenon
<1>3. ASSUME NEW b \in Block
      PROVE  \A g, h, c : c \in Block /\ b \in Ancestors[c] /\ Solves(g, b)
                           /\ Solves(h, c) => g[b] = h[b]
  <2> DEFINE S == {x \in Block : \A g, h, c : c \in Block /\ x \in Ancestors[c] /\ Solves(g, x) /\ Solves(h, c) => g[x] = h[x]}
  <2>1. Genesis \in S
    BY AncestorsRec, ParentType, Zenon
  <2>2. ASSUME NEW x \in Block \ {Genesis}, Parent[x] \in S PROVE x \in S
    <3>1. ASSUME NEW g, NEW h, NEW c \in Block, x \in Ancestors[c], Solves(g, x), Solves(h, c)
          PROVE  g[x] = h[x]
      <4> DEFINE p == Parent[x]
                 r == [a \in Ancestors[p] |-> g[a]]
      <4>1. /\ p \in Block /\ p \in Ancestors[p]
            /\ Ancestors[x] = {x} \cup Ancestors[p]
            /\ p \in Ancestors[c] /\ x \in Ancestors[x]
            /\ \A a \in Ancestors[p] : a # Genesis => Parent[a] \in Ancestors[p]
        BY <3>1, AncestorsRec, ParentType, AncestorsClosed, Zenon
      <4>2. Solves(r, p)
        BY <3>1, <4>1, Zenon
      <4>3. r[p] = h[p] /\ r[p] = g[p]
        <5>1. \A f, k, d : d \in Block /\ p \in Ancestors[d] /\ Solves(f, p) /\ Solves(k, d)
                             => f[p] = k[p]
          BY <2>2, Zenon
        <5>2. r[p] = g[p]
          BY <4>1, Zenon
        <5> HIDE DEF r, Solves
        <5> QED BY <5>1, <5>2, <4>1, <4>2, <3>1, Zenon
      <4>4. g[x] = g[p] + Proof[x] /\ h[x] = h[p] + Proof[x]
        BY <3>1, <4>1, Zenon
      <4> QED BY <4>3, <4>4, Zenon
    <3> QED BY <3>1, Zenon
  <2>3. S = Block
    <3> HIDE DEF S
    <3>1. S \in SUBSET Block
      BY Zenon DEF S
    <3> QED BY <2>1, <2>2, <3>1, TreeInduction, Zenon
  <2> QED BY <2>3, Zenon
<1>4. ASSUME NEW b \in Block
      PROVE  /\ w[b] \in Nat
             /\ w[b] = IF b = Genesis THEN Proof[b] ELSE w[Parent[b]] + Proof[b]
  <2> DEFINE h == CHOOSE g : Solves(g, b)
  <2>1. Solves(h, b)
    BY <1>2, Zenon
  <2>2. w[b] = h[b] /\ b \in Ancestors[b]
    BY AncestorsRec, Zenon
  <2> HIDE DEF h
  <2>3. CASE b = Genesis
    <3> HIDE DEF w
    <3> QED BY <2>1, <2>2, <2>3, Zenon
  <2>4. CASE b # Genesis
    <3> DEFINE k == CHOOSE g : Solves(g, Parent[b])
    <3>1. Parent[b] \in Block
      BY <2>4, ParentType, Zenon
    <3>2. Solves(k, Parent[b]) /\ w[Parent[b]] = k[Parent[b]]
      BY <1>2, <3>1, Zenon
    <3> HIDE DEF k, w
    <3>3. Parent[b] \in Ancestors[b]
      BY <3>1, <2>4, AncestorsRec, Zenon
    <3>4. k[Parent[b]] = h[Parent[b]]
      <4> HIDE DEF Solves
      <4> QED BY <3>1, <3>2, <3>3, <2>1, <1>3, Zenon
    <3> QED BY <2>1, <2>2, <2>4, <3>2, <3>4, Zenon
  <2> QED BY <2>3, <2>4, Zenon
<1>5. w = F(w)
  <2>1. \A b \in Block : F(w)[b] = w[b]
    <3> HIDE DEF w
    <3> QED BY <1>4, Zenon
  <2>2. w = [b \in Block |-> w[b]]
    OBVIOUS
  <2> HIDE DEF w
  <2> QED BY <2>1, <2>2, Zenon
<1>6. \E f : f = F(f)
  <2> HIDE DEF w, F
  <2> QED BY <1>5, Zenon
<1>7. (CHOOSE f : f = F(f)) = F(CHOOSE f : f = F(f))
  <2> HIDE DEF F
  <2> QED BY <1>6, Zenon
<1>8. ChainWork = F(ChainWork)
  BY <1>7, Zenon DEF ChainWork
<1>9. \A b \in Block : ChainWork[b] = IF b = Genesis THEN Proof[b] ELSE ChainWork[Parent[b]] + Proof[b]
  BY <1>8, Zenon
<1>10. \A b \in Block : ChainWork[b] \in Nat
  <2> DEFINE S == {b \in Block : ChainWork[b] \in Nat}
  <2>1. Genesis \in S
    BY <1>9, ParentType, ChainAssumption, Zenon
  <2>2. ASSUME NEW b \in Block \ {Genesis}, Parent[b] \in S PROVE b \in S
    BY <2>2, <1>9, ChainAssumption
  <2>3. S = Block
    <3> HIDE DEF S
    <3>1. S \in SUBSET Block
      BY Zenon DEF S
    <3> QED BY <2>1, <2>2, <3>1, TreeInduction, Zenon
  <2> QED BY <2>3, Zenon
<1> QED
  <2>1. ChainWork \in [Block -> Nat]
    BY <1>8, <1>10, Zenon
  <2> QED BY <2>1, <1>9, ParentType, Zenon

LEMMA WorkType == \A b \in Block : Work[b] \in Nat
BY ChainWorkEquation, Zenon DEF Work

\* Work grows along a branch.
LEMMA AncestorsGrow ==
  ASSUME NEW b \in Block, NEW a \in Ancestors[b], a # b
  PROVE  Work[a] < Work[b]
<1> DEFINE S == {x \in Block : \A y \in Ancestors[x] : y # x => Work[y] < Work[x]}
<1>1. Genesis \in S
  BY AncestorsRec, ParentType, Zenon
<1>2. ASSUME NEW x \in Block \ {Genesis}, Parent[x] \in S PROVE x \in S
  <2> DEFINE p == Parent[x]
  <2>1. p \in Block /\ Work[x] = Work[p] + Proof[x] /\ Proof[x] \in Nat \ {0}
    BY ParentType, ChainWorkEquation, ChainAssumption, Zenon DEF Work
  <2>2. ASSUME NEW y \in Ancestors[x], y # x PROVE Work[y] < Work[x]
    <3>1. y \in Ancestors[p] /\ y \in Block
      BY <2>2, AncestorsRec, Zenon
    <3>2. Work[y] \in Nat /\ Work[p] \in Nat
      BY <3>1, <2>1, WorkType, Zenon
    <3>3. y = p \/ Work[y] < Work[p]
      BY <3>1, <1>2, Zenon
    <3> HIDE DEF p
    <3> QED BY <3>2, <3>3, <2>1
  <2> QED BY <2>2, Zenon
<1>3. S = Block
  <2> HIDE DEF S
  <2>1. S \in SUBSET Block
    BY Zenon DEF S
  <2> QED BY <1>1, <1>2, <2>1, TreeInduction, Zenon
<1> QED BY <1>3, Zenon

LEMMA AncestorsOrder ==
  ASSUME NEW b \in Block, NEW a \in Ancestors[b], b \in Ancestors[a]
  PROVE  a = b
<1>1. a \in Block /\ Work[a] \in Nat /\ Work[b] \in Nat
  BY AncestorsRec, WorkType, Zenon
<1>2. a # b => Work[a] < Work[b] /\ Work[b] < Work[a]
  BY <1>1, AncestorsGrow, Zenon
<1> QED BY <1>1, <1>2

\* A branch is a line.
LEMMA AncestorsLine ==
  ASSUME NEW b \in Block, NEW x \in Ancestors[b], NEW y \in Ancestors[b]
  PROVE  x \in Ancestors[y] \/ y \in Ancestors[x]
<1> DEFINE S == {c \in Block : \A u, v \in Ancestors[c] : u \in Ancestors[v] \/ v \in Ancestors[u]}
<1>1. Genesis \in S
  BY AncestorsRec, ParentType, Zenon
<1>2. \A c \in Block \ {Genesis} : Parent[c] \in S => c \in S
  BY AncestorsRec
<1>3. S = Block
  <2> HIDE DEF S
  <2>1. S \in SUBSET Block
    BY Zenon DEF S
  <2> QED BY <1>1, <1>2, <2>1, TreeInduction, Zenon
<1> QED BY <1>3, Zenon

-----------------------------------------------------------------------------
\* The order of CBlockIndexWorkComparator.

LEMMA WorseOrder ==
  ASSUME NEW s \in [Block -> Int], NEW a \in Block, NEW b \in Block, NEW c \in Block
  PROVE  /\ ~Worse(s, a, a)
         /\ Worse(s, a, b) => ~Worse(s, b, a)
         /\ Worse(s, a, b) /\ Worse(s, b, c) => Worse(s, a, c)
         /\ a # b => Worse(s, a, b) \/ Worse(s, b, a)
<1>1. /\ Work[a] \in Nat /\ Work[b] \in Nat /\ Work[c] \in Nat
      /\ s[a] \in Int /\ s[b] \in Int /\ s[c] \in Int
      /\ Addr[a] \in Nat /\ Addr[b] \in Nat /\ Addr[c] \in Nat
      /\ Addr[a] = Addr[b] => a = b
  BY WorkType, ChainAssumption, Zenon
<1> QED BY <1>1 DEF Worse

\* A block is worse than its descendants.
LEMMA WorseAncestor ==
  ASSUME NEW s, NEW b \in Block, NEW a \in Ancestors[b], a # b
  PROVE  Worse(s, a, b) /\ (s \in [Block -> Int] => ~Worse(s, b, a))
<1>1. Worse(s, a, b)
  BY AncestorsGrow, Zenon DEF Worse
<1>2. a \in Block
  BY AncestorsRec, Zenon
<1> QED BY <1>1, <1>2, WorseOrder, Zenon

LEMMA WorseLocal ==
  ASSUME NEW s, NEW t, NEW a, NEW b, s[a] = t[a], s[b] = t[b]
  PROVE  Worse(s, a, b) <=> Worse(t, a, b)
BY Zenon DEF Worse

\* The best candidate is the last in the order.
LEMMA BestIsBest ==
  ASSUME candidates \subseteq Block, seq \in [Block -> Int], NEW c, Best(c)
  PROVE  c \in candidates /\ c \in Block /\ \A d \in candidates : ~Worse(seq, c, d)
BY WorseOrder, Zenon DEF Best

-----------------------------------------------------------------------------
\* What holds of the block index, the tips and the control at all times.

Ops == {"invalidate", "reconsider", "precious", "restart"}

Types ==
  /\ known \subseteq Block /\ have \subseteq known /\ scripts \subseteq have
  /\ failedBlocks \subseteq known
  /\ failed \in [Block -> SUBSET {"VALID", "CHILD"}]
  /\ seq \in [Block -> Int]
  /\ nextSeq \in Nat /\ lastPrecious \in Nat /\ revSeq \in Int
  /\ tip \in Block /\ coinsTip \in Block
  /\ pc \in {"idle", "loop", "find", "connect", "check", "invalidate"}
  /\ mostWork \in Block \cup {NoBlock} /\ startTip \in Block \cup {NoBlock}
  /\ oldTip \in Block \cup {NoBlock}
  /\ inv \in [block : Block \cup {NoBlock}, mark : Block \cup {NoBlock}, byWork : SUBSET Block]
  /\ wanted \in BOOLEAN
  /\ done \in [Ops -> Nat] /\ \A k \in Ops : done[k] <= Bounds[k]

\* linked is closed under Parent, and a block waits in unlinked for its parent.
Index ==
  /\ Genesis \in known /\ Genesis \in linked
  /\ \A b \in known \ {Genesis} : Parent[b] \in known
  /\ linked \subseteq have
  /\ \A b \in linked \ {Genesis} : Parent[b] \in linked
  /\ unlinked \subseteq have \ linked
  /\ \A b \in unlinked : Parent[b] \notin linked
  /\ have \cap BadBody = {}
  /\ \A b \in Block \ known : failed[b] = {}
  /\ \A b \in failedBlocks : failed[b] # {}
  /\ \A b \in Block \ linked : seq[b] <= 0
  /\ nextSeq >= 1 /\ revSeq <= -1
  /\ candidates \subseteq linked

\* The branch of b was received and ConnectBlock rejects none of it.
Sound(b) == Ancestors[b] \subseteq have \ Bad

Tips ==
  /\ tip \in linked /\ Sound(tip)
  /\ Sound(coinsTip)
  /\ \A b \in scripts : Sound(b)
  /\ startTip # NoBlock => startTip \in linked /\ Sound(startTip)
  /\ mostWork # NoBlock => mostWork \in linked

Locked == pc \in {"find", "connect", "check"}

\* The target stays above the tip, and InvalidateBlock marks what it left last.
Control ==
  /\ pc \in {"idle", "invalidate"} => mostWork = NoBlock
  /\ Locked <=> startTip # NoBlock
  /\ mostWork # NoBlock => tip \in Ancestors[mostWork]
  /\ pc = "loop" => tip # mostWork
  /\ pc = "find" => tip = startTip \/ Worse(seq, tip, startTip)
  /\ pc = "connect" => oldTip # NoBlock /\ mostWork # NoBlock /\ tip # mostWork
  /\ pc = "check" => oldTip # NoBlock
  /\ pc = "invalidate" =>
       /\ inv.block \in Block \ {Genesis} /\ inv.mark \in known \ {Genesis}
       /\ inv.mark = inv.block \/ Parent[inv.mark] = tip
       /\ inv.byWork \subseteq linked

Basis == Types /\ Index /\ Tips /\ Control

LEMMA OpsDomain == DOMAIN Bounds = Ops /\ \A k \in Ops : Bounds[k] \in Nat
BY ChainAssumption DEF Bounds, Ops

LEMMA LinkedBranch ==
  ASSUME Index, Types, NEW b \in linked
  PROVE  Ancestors[b] \subseteq linked
<1> DEFINE S == {x \in Block : x \in linked => Ancestors[x] \subseteq linked}
<1>1. Genesis \in S
  BY AncestorsRec, ParentType, Zenon
<1>2. \A x \in Block \ {Genesis} : Parent[x] \in S => x \in S
  BY AncestorsRec DEF Index
<1>3. S = Block
  <2> HIDE DEF S
  <2>1. S \in SUBSET Block
    BY Zenon DEF S
  <2> QED BY <1>1, <1>2, <2>1, TreeInduction, Zenon
<1> QED BY <1>3, Zenon DEF Index, Types

\* The lowest block of a branch that is not linked stands on a linked one.
LEMMA LowestUnlinked ==
  ASSUME Index, NEW b \in Block \ linked
  PROVE  \E y \in Ancestors[b] : y # Genesis /\ y \notin linked /\ Parent[y] \in linked
<1> DEFINE S == {x \in Block : x \notin linked =>
                   \E y \in Ancestors[x] : y # Genesis /\ y \notin linked /\ Parent[y] \in linked}
<1>1. Genesis \in S
  BY ParentType, Zenon DEF Index
<1>2. \A x \in Block \ {Genesis} : Parent[x] \in S => x \in S
  BY AncestorsRec, Zenon
<1>3. S = Block
  <2> HIDE DEF S
  <2>1. S \in SUBSET Block
    BY Zenon DEF S
  <2> QED BY <1>1, <1>2, <2>1, TreeInduction, Zenon
<1> QED BY <1>3, Zenon

LEMMA KnownBranch ==
  ASSUME Index, Types, NEW b \in known
  PROVE  Ancestors[b] \subseteq known
<1> DEFINE S == {x \in Block : x \in known => Ancestors[x] \subseteq known}
<1>1. Genesis \in S
  BY AncestorsRec, ParentType, Zenon
<1>2. \A x \in Block \ {Genesis} : Parent[x] \in S => x \in S
  BY AncestorsRec DEF Index
<1>3. S = Block
  <2> HIDE DEF S
  <2>1. S \in SUBSET Block
    BY Zenon DEF S
  <2> QED BY <1>1, <1>2, <2>1, TreeInduction, Zenon
<1> QED BY <1>3, Zenon DEF Types

\* The blocks that one block links: the waiting blocks above it.
LEMMA LinkedByBranch ==
  ASSUME Types, Index, NEW b \in Block \ {Genesis}, b \notin have
  PROVE  /\ LinkedBy(b) \subseteq Block /\ b \in LinkedBy(b)
         /\ Cardinality(LinkedBy(b)) \in Nat
         /\ \A d \in LinkedBy(b) : d = b \/ (d \in unlinked /\ d # Genesis /\ Parent[d] \in LinkedBy(b))
         /\ \A d \in unlinked : Parent[d] \in LinkedBy(b) => d \in LinkedBy(b)
<1>1. LinkedBy(b) \subseteq Block /\ b \in LinkedBy(b)
  BY AncestorsRec, Zenon DEF LinkedBy, Descendants
<1>2. Cardinality(LinkedBy(b)) \in Nat
  BY <1>1, ChainAssumption, Zenon
<1>3. ASSUME NEW d \in LinkedBy(b), d # b
      PROVE  d \in unlinked /\ d # Genesis /\ Parent[d] \in LinkedBy(b)
  <2>1. d \in Block /\ b \in Ancestors[d] /\ \A x \in (Ancestors[d] \ Ancestors[b]) : x \in unlinked
    BY Zenon DEF LinkedBy, Descendants
  <2>2. d # Genesis
    BY <2>1, AncestorsRec, Zenon
  <2>3. d \notin Ancestors[b]
    BY <2>1, <1>3, AncestorsOrder, Zenon
  <2>4. Ancestors[d] = {d} \cup Ancestors[Parent[d]] /\ Parent[d] \in Block /\ d \in Ancestors[d]
    BY <2>1, <2>2, AncestorsRec, ParentType, Zenon
  <2>5. Parent[d] \in LinkedBy(b)
    BY <2>1, <2>4, <1>3, Zenon DEF LinkedBy, Descendants
  <2> QED BY <2>1, <2>2, <2>3, <2>4, <2>5, Zenon
<1>4. ASSUME NEW d \in unlinked, Parent[d] \in LinkedBy(b) PROVE d \in LinkedBy(b)
  <2>1. d \in Block /\ d # Genesis
    BY DEF Types, Index
  <2>2. Ancestors[d] = {d} \cup Ancestors[Parent[d]]
    BY <2>1, AncestorsRec, Zenon
  <2> QED BY <1>4, <2>1, <2>2, Zenon DEF LinkedBy, Descendants
<1> QED BY <1>1, <1>2, <1>3, <1>4, Zenon

LEMMA NextBlock ==
  ASSUME mostWork \in Block, NEW n, NextToConnect(n)
  PROVE  /\ n \in Ancestors[mostWork] /\ n \in Block /\ n # Genesis /\ Parent[n] = tip
         /\ Ancestors[n] = {n} \cup Ancestors[tip] /\ tip # n
<1>1. n \in Ancestors[mostWork] /\ n \in Block /\ n # Genesis /\ Parent[n] = tip
  BY AncestorsRec, Zenon DEF NextToConnect
<1>2. Ancestors[n] = {n} \cup Ancestors[tip] /\ n \notin Ancestors[tip] /\ tip \in Ancestors[tip]
  BY <1>1, AncestorsRec, NotOwnAncestor, ParentType, Zenon
<1> QED BY <1>1, <1>2, Zenon

\* A target is linked, and the tip leaves the active chain only for the fork.
LEMMA TargetBlock ==
  ASSUME Types, Index, Tips, NEW t \in Targets \ {NoBlock}
  PROVE  /\ t \in Block /\ t \in linked
         /\ mostWork = t \/ (mostWork = NoBlock /\ candidates # {} /\ Usable(t))
<1>1. mostWork = t \/ (mostWork = NoBlock /\ candidates # {} /\ Usable(t))
  BY Zenon DEF Targets
<1>2. Usable(t) => t \in candidates
  BY Zenon DEF Usable, Best
<1> QED BY <1>1, <1>2, Zenon DEF Types, Index, Tips

LEMMA ForkBlock ==
  ASSUME tip \in Block, NEW t \in Block, NEW fork \in Chain \cap Ancestors[t],
         Chain \cap Ancestors[t] \subseteq Ancestors[fork]
  PROVE  /\ fork \in Block /\ Ancestors[fork] \subseteq Ancestors[tip]
         /\ tip \in Ancestors[t] => fork = tip
<1>1. fork \in Block /\ fork \in Ancestors[tip] /\ Ancestors[fork] \subseteq Ancestors[tip]
  BY AncestorsRec, AncestorsTransitive, Zenon DEF Chain
<1>2. tip \in Ancestors[t] => tip \in Ancestors[fork]
  BY AncestorsRec, Zenon DEF Chain
<1> QED BY <1>1, <1>2, AncestorsOrder, Zenon

LEMMA BaseInit == Init => Basis
<1> SUFFICES ASSUME Init PROVE Basis
  BY Zenon
<1>1. Types
  <2>1. done \in [Ops -> Nat] /\ \A k \in Ops : done[k] <= Bounds[k]
    BY OpsDomain DEF Init
  <2>2. seq \in [Block -> Int] /\ failed \in [Block -> SUBSET {"VALID", "CHILD"}]
    BY DEF Init
  <2>3. inv \in [block : Block \cup {NoBlock}, mark : Block \cup {NoBlock}, byWork : SUBSET Block]
    BY Zenon DEF Init, NoInv
  <2>4. nextSeq \in Nat /\ lastPrecious \in Nat /\ revSeq \in Int
    BY DEF Init
  <2> QED BY <2>1, <2>2, <2>3, <2>4, ParentType, Zenon DEF Init, Types
<1>2. Index
  BY ParentType, ChainAssumption DEF Init, Index
<1>3. Tips
  BY AncestorsRec, ChainAssumption, Zenon DEF Init, Tips, Sound
<1>4. Control
  BY Zenon DEF Init, Control, Locked
<1> QED BY <1>1, <1>2, <1>3, <1>4, Zenon DEF Basis

\* A call that is counted keeps the other counts.
LEMMA UsesCount ==
  ASSUME Types, NEW op \in Ops, Uses(op)
  PROVE  /\ done' \in [Ops -> Nat] /\ \A k \in Ops : done'[k] <= Bounds[k]
         /\ done'[op] = done[op] + 1 /\ \A k \in Ops : k # op => done'[k] = done[k]
<1>1. done \in [Ops -> Nat] /\ Bounds[op] \in Nat /\ done[op] \in Nat
  BY OpsDomain, Zenon DEF Types
<1>2. done' = [done EXCEPT ![op] = @ + 1] /\ done[op] < Bounds[op]
  BY Zenon DEF Uses
<1>3. done'[op] = done[op] + 1 /\ \A k \in Ops : k # op => done'[k] = done[k]
  BY <1>1, <1>2, Zenon
<1> QED BY <1>1, <1>2, <1>3 DEF Types

\* The tip that InvalidateBlock disconnects is not the genesis block.
LEMMA WalkedTip ==
  ASSUME Basis, pc = "invalidate", inv.block \in Chain
  PROVE  /\ tip # Genesis /\ Parent[tip] \in Block /\ Parent[tip] \in linked
         /\ Ancestors[tip] = {tip} \cup Ancestors[Parent[tip]]
         /\ tip \notin Ancestors[Parent[tip]] /\ Parent[tip] \in Ancestors[Parent[tip]]
<1>1. tip # Genesis
  BY AncestorsRec, Zenon DEF Basis, Control, Chain
<1>2. tip \in Block /\ tip \in linked
  BY Zenon DEF Basis, Types, Tips
<1> QED BY <1>1, <1>2, AncestorsRec, ParentType, NotOwnAncestor, Zenon DEF Basis, Index

\* After LoadBlockIndex exactly the received branches are linked.
LEMMA LoadedBranch ==
  ASSUME Basis
  PROVE  /\ Genesis \in LoadedLinked /\ LoadedLinked \subseteq have
         /\ \A b \in LoadedLinked \ {Genesis} : Parent[b] \in LoadedLinked
         /\ linked \subseteq LoadedLinked
<1> USE DEF Basis
<1>1. Genesis \in LoadedLinked
  BY AncestorsRec DEF LoadedLinked, Index
<1>2. LoadedLinked \subseteq have
  BY AncestorsRec, Zenon DEF LoadedLinked, Types
<1>3. ASSUME NEW b \in LoadedLinked \ {Genesis} PROVE Parent[b] \in LoadedLinked
  BY AncestorsRec DEF LoadedLinked, Types, Index
<1>4. linked \subseteq LoadedLinked
  BY LinkedBranch, Zenon DEF LoadedLinked, Types, Index
<1> QED BY <1>1, <1>2, <1>3, <1>4, Zenon

\* The block index, the tips and the control are consistent at all times.
LEMMA BaseStep == Basis /\ [Next]_vars => Basis'
<1> SUFFICES ASSUME Basis, [Next]_vars PROVE Basis'
  BY Zenon
<1>3. ASSUME NEW b \in Block \ {Genesis}, AcceptBlockHeader(b) PROVE Basis'
  <2> USE <1>3
  <2> USE DEF Basis
  <2>1. Types'
    BY ParentType DEF AcceptBlockHeader, Types, order, locals
  <2>2. Index'
    <3>1. /\ known' = known \cup {b} /\ failed' = failed
          \/ /\ known' = known
             /\ \A x \in Block : failed[x] \subseteq failed'[x]
             /\ \A x \in Block \ known : failed'[x] = failed[x]
      <4>1. Ancestors[Parent[b]] \subseteq known
        BY KnownBranch, Zenon DEF AcceptBlockHeader
      <4> QED BY <4>1 DEF AcceptBlockHeader, Types
    <3> QED BY <3>1 DEF AcceptBlockHeader, Types, Index, order
  <2>3. Tips'
    BY Zenon DEF AcceptBlockHeader, Tips, Sound, locals
  <2>4. Control'
    BY Zenon DEF AcceptBlockHeader, Control, Locked, locals, order
  <2> QED BY <2>1, <2>2, <2>3, <2>4, Zenon
<1>4. ASSUME NEW b \in Block, NEW requested \in BOOLEAN, AcceptBlock(b, requested) PROVE Basis'
  <2> USE <1>4
  <2> USE DEF Basis
  <2>0. b # Genesis /\ b \notin have /\ b \in known /\ Parent[b] \in Block /\ b \notin linked
    BY ParentType, Zenon DEF AcceptBlock, Takes, Index, Types
  <2>1. CASE b \in BadBody
    <3>1. Types'
      BY <2>1, <2>0 DEF AcceptBlock, Types, locals
    <3>2. Index'
      BY <2>1, <2>0 DEF AcceptBlock, Types, Index
    <3>3. Tips'
      BY <2>1, Zenon DEF AcceptBlock, Tips, Sound, locals
    <3>4. Control'
      BY <2>1, Zenon DEF AcceptBlock, Control, Locked, locals
    <3> QED BY <3>1, <3>2, <3>3, <3>4, Zenon
  <2>2. CASE b \notin BadBody /\ Parent[b] \in linked
    <3> DEFINE S == LinkedBy(b)
    <3>1. PICK f \in Orders(S) :
            /\ linked' = linked \cup S
            /\ seq' = [x \in Block |-> IF x \in S THEN f[x] ELSE seq[x]]
            /\ nextSeq' = nextSeq + Cardinality(S)
            /\ unlinked' = unlinked \ S
            /\ candidates' = candidates \cup {x \in S : ~Worse(seq', x, tip)}
      BY <2>2, Zenon DEF AcceptBlock, ReceivedBlockTransactions
    <3>2. f \in [S -> Int]
      BY DEF Orders
    <3>3. /\ S \subseteq Block /\ b \in S /\ Cardinality(S) \in Nat
          /\ \A d \in S : d = b \/ (d \in unlinked /\ d # Genesis /\ Parent[d] \in S)
          /\ \A d \in unlinked : Parent[d] \in S => d \in S
      BY <2>0, LinkedByBranch, Zenon
    <3> HIDE DEF S
    <3>4. have' = have \cup {b} /\ failed' = failed /\ wanted' = TRUE
      BY <2>2, Zenon DEF AcceptBlock
    <3>5. Types'
      <4>1. seq' \in [Block -> Int] /\ nextSeq' \in Nat
        BY <3>1, <3>2, <3>3 DEF Types
      <4> QED BY <4>1, <3>4, <2>0, Zenon DEF AcceptBlock, Types, locals
    <3>6. Index'
      <4>1. \A x \in Block \ linked' : seq'[x] <= 0
        BY <3>1, <3>3, Zenon DEF Index, Types
      <4>2. nextSeq' >= 1 /\ revSeq' <= -1
        BY <3>1, <3>3 DEF Index, Types, AcceptBlock
      <4>3. linked' \subseteq have' /\ \A d \in linked' \ {Genesis} : Parent[d] \in linked'
        BY <3>1, <3>3, <3>4, <2>2, <2>0, Zenon DEF Index, Types
      <4>4. unlinked' \subseteq have' \ linked' /\ \A d \in unlinked' : Parent[d] \notin linked'
        BY <3>1, <3>3, <3>4, <2>0, Zenon DEF Index, Types
      <4>5. candidates' \subseteq linked'
        BY <3>1, Zenon DEF Index
      <4> QED BY <4>1, <4>2, <4>3, <4>4, <4>5, <3>1, <3>4, <2>0, <2>2 DEF AcceptBlock, Index
    <3>7. Tips'
      BY <3>1, <3>4, Zenon DEF AcceptBlock, Tips, Sound, locals
    <3>8. Control'
      <4>1. pc # "find" /\ pc # "connect" /\ pc # "check" /\ pc' = pc /\ inv' = inv /\ tip' = tip
            /\ UNCHANGED locals /\ known' = known
        BY Zenon DEF AcceptBlock, Unlocked
      <4> QED BY <4>1, <3>1, Zenon DEF Control, Locked, locals
    <3> QED BY <3>5, <3>6, <3>7, <3>8, Zenon
  <2>3. CASE b \notin BadBody /\ Parent[b] \notin linked
    <3>1. /\ unlinked' = unlinked \/ unlinked' = unlinked \cup {b}
          /\ UNCHANGED <<linked, seq, nextSeq, candidates, failed>> /\ have' = have \cup {b}
          /\ wanted' = TRUE
      BY <2>3, Zenon DEF AcceptBlock, ReceivedBlockTransactions
    <3>2. Types'
      BY <3>1, <2>0, Zenon DEF AcceptBlock, Types, locals
    <3>3. Index'
      BY <3>1, <2>0, <2>3 DEF AcceptBlock, Types, Index
    <3>4. Tips'
      BY <3>1, Zenon DEF AcceptBlock, Tips, Sound, locals
    <3>5. Control'
      BY <3>1, Zenon DEF AcceptBlock, Control, Locked, locals
    <3> QED BY <3>2, <3>3, <3>4, <3>5, Zenon
  <2> QED BY <2>1, <2>2, <2>3, Zenon
<1>5. CASE ActivateBestChain
  <2> USE <1>5
  <2> USE DEF Basis
  <2>1. Types'
    BY Zenon DEF ActivateBestChain, Types, index, order, locals
  <2>2. Index'
    BY Zenon DEF ActivateBestChain, Index, index, order
  <2>3. Tips'
    BY Zenon DEF ActivateBestChain, Tips, Sound, index, locals
  <2>4. Control'
    BY ChainAssumption, Zenon
       DEF ActivateBestChain, MutexFree, Types, Control, Locked, index, order, locals
  <2> QED BY <2>1, <2>2, <2>3, <2>4, Zenon
<1>6. CASE StartRound
  <2> USE <1>6
  <2> USE DEF Basis
  <2>1. Types'
    BY Zenon DEF StartRound, Types, index, order
  <2>2. Index'
    BY Zenon DEF StartRound, Index, index, order
  <2>3. Tips'
    BY Zenon DEF StartRound, Tips, Sound, index
  <2>4. Control'
    BY ChainAssumption, Zenon DEF StartRound, Types, Control, Locked, index, order
  <2> QED BY <2>1, <2>2, <2>3, <2>4, Zenon
<1>7. CASE DropFailedCandidate
  <2> USE <1>7
  <2> USE DEF Basis
  <2>1. PICK c \in candidates : \E w \in FailedPath(c) :
          /\ failed' = [x \in Block |-> IF x \in Ancestors[c] \ Ancestors[w]
                                          THEN failed[x] \cup {"CHILD"} ELSE failed[x]]
          /\ candidates' \subseteq candidates
    BY Zenon DEF DropFailedCandidate
  <2>2. Ancestors[c] \subseteq known
    BY KnownBranch, Zenon DEF Types, Index
  <2>3. Types'
    BY <2>1 DEF DropFailedCandidate, Types, order, locals
  <2>4. Index'
    <3>1. \A x \in Block : failed[x] \subseteq failed'[x] /\ (x \notin known => failed'[x] = failed[x])
      BY <2>1, <2>2, Zenon
    <3>2. UNCHANGED <<known, have, linked, unlinked, failedBlocks, seq, nextSeq, revSeq>>
      BY Zenon DEF DropFailedCandidate, order
    <3>3. failedBlocks \subseteq Block
      BY Zenon DEF Types
    <3> QED BY <2>1, <3>1, <3>2, <3>3 DEF Index
  <2>5. Tips'
    BY Zenon DEF DropFailedCandidate, Tips, Sound, locals
  <2>6. Control'
    BY Zenon DEF DropFailedCandidate, Control, Locked, locals, order
  <2> QED BY <2>3, <2>4, <2>5, <2>6, Zenon
<1>8. CASE NothingToActivate
  <2> USE <1>8
  <2> USE DEF Basis
  <2>0. /\ pc' = "idle" \/ (pc' = "loop" /\ mostWork' = NoBlock)
        /\ pc' = "idle" => mostWork' = NoBlock
        /\ startTip' = NoBlock /\ oldTip' = NoBlock
        /\ UNCHANGED <<index, order, candidates, tip, coinsTip, inv, wanted, done>>
    BY Zenon DEF NothingToActivate, EndRound
  <2>2. Types'
    BY <2>0, Zenon DEF Types, index, order
  <2>3. Index'
    BY <2>0, Zenon DEF Index, index, order
  <2>4. Tips'
    BY <2>0, Zenon DEF Tips, Sound, index
  <2>5. Control'
    BY <2>0, ChainAssumption, Zenon DEF Types, Control, Locked, index, order
  <2> QED BY <2>2, <2>3, <2>4, <2>5, Zenon
<1>9. CASE DisconnectToFork
  <2> USE <1>9
  <2> USE DEF Basis
  <2>0. PICK t \in Targets \ {NoBlock, tip} : \E fork \in Chain \cap Ancestors[t] :
          /\ Chain \cap Ancestors[t] \subseteq Ancestors[fork]
          /\ mostWork' = t /\ tip' = fork /\ oldTip' = tip
          /\ pc' = IF fork = t THEN "check" ELSE "connect"
    BY Zenon DEF DisconnectToFork
  <2>1. t \in Block /\ t \in linked
    BY TargetBlock, Zenon
  <2>2. tip' \in Chain /\ tip' \in Ancestors[t] /\ tip' \in Block /\ Ancestors[tip'] \subseteq Ancestors[tip]
    BY <2>0, <2>1, ForkBlock DEF Types
  <2>3. pc = "find" /\ UNCHANGED <<index, order, candidates, coinsTip, startTip, inv, wanted, done>>
    BY Zenon DEF DisconnectToFork
  <2>4. Types'
    BY <2>0, <2>1, <2>2, <2>3, Zenon DEF Types, index, order
  <2>5. Index'
    BY <2>3, Zenon DEF Index, index, order
  <2>6. Tips'
    <3>1. tip' \in linked
      BY <2>2, LinkedBranch, Zenon DEF Chain, Tips
    <3> QED BY <3>1, <2>0, <2>2, <2>3, <2>1, ChainAssumption, Zenon DEF Tips, Sound, index
  <2>7. Control'
    BY <2>0, <2>1, <2>2, <2>3, ChainAssumption, Zenon DEF Types, Control, Locked, index, order
  <2> QED BY <2>4, <2>5, <2>6, <2>7, Zenon
<1>10. CASE ConnectTip
  <2> USE <1>10
  <2> USE DEF Basis
  <2>1. PICK n \in Block \ Bad :
          /\ pc = "connect" /\ NextToConnect(n) /\ tip' = n /\ scripts' = scripts \cup {n}
          /\ candidates' \subseteq candidates
          /\ pc' = IF Work[n] > Work[oldTip] \/ n = mostWork THEN "check" ELSE "connect"
    BY Zenon DEF ConnectTip, Pruned
  <2>2. mostWork \in Block
    BY <2>1, Zenon DEF Control, Types
  <2>3. n \in Ancestors[mostWork] /\ Ancestors[n] = {n} \cup Ancestors[tip]
    BY <2>1, <2>2, NextBlock, Zenon
  <2>4. n \in linked /\ n \in have
    BY <2>2, <2>3, LinkedBranch, ChainAssumption, Zenon DEF Tips, Index
  <2>5. Types'
    BY <2>1, <2>4, Zenon DEF ConnectTip, Types, order, locals
  <2>6. Index'
    BY <2>1, Zenon DEF ConnectTip, Index, order
  <2>7. Tips'
    BY <2>1, <2>3, <2>4, Zenon DEF ConnectTip, Tips, Sound, locals
  <2>8. Control'
    BY <2>1, <2>3, Zenon DEF ConnectTip, Control, Locked, locals, order
  <2> QED BY <2>5, <2>6, <2>7, <2>8, Zenon
<1>11. CASE ConnectTipFails
  <2> USE <1>11
  <2> USE DEF Basis
  <2>1. PICK n \in Bad :
          /\ pc = "connect" /\ NextToConnect(n)
          /\ failed' = [failed EXCEPT ![n] = @ \cup {"VALID"}]
          /\ failedBlocks' = failedBlocks \cup {n}
          /\ candidates' = candidates \ {n}
    BY Zenon DEF ConnectTipFails, InvalidBlockFound
  <2>2. n \in Block /\ n \in linked /\ n \in known
    <3>1. mostWork \in Block /\ mostWork \in linked
      BY <2>1, ChainAssumption, Zenon DEF Control, Types, Tips
    <3> QED BY <2>1, <3>1, NextBlock, LinkedBranch, Zenon DEF Index, Types
  <2>4. Types'
    BY <2>1, <2>2, Zenon DEF ConnectTipFails, Types, order
  <2>5. Index'
    BY <2>1, <2>2 DEF ConnectTipFails, Index, Types, order
  <2>6. Tips'
    BY Zenon DEF ConnectTipFails, Tips, Sound
  <2>7. Control'
    BY Zenon DEF ConnectTipFails, Control, Locked
  <2> QED BY <2>4, <2>5, <2>6, <2>7, Zenon
<1>12. CASE CheckProgress
  <2> USE <1>12
  <2> USE DEF Basis
  <2>1. CASE KeepsLock
    <3>1. pc' = "find" /\ UNCHANGED locals
      BY <2>1, Zenon DEF CheckProgress
    <3>2. Types'
      BY <3>1, Zenon DEF CheckProgress, Types, index, order, locals
    <3>3. Index'
      BY Zenon DEF CheckProgress, Index, index, order
    <3>4. Tips'
      BY <3>1, Zenon DEF CheckProgress, Tips, Sound, index, locals
    <3>5. Control'
      BY <3>1, <2>1, Zenon DEF CheckProgress, KeepsLock, Control, Locked, locals, order, index
    <3> QED BY <3>2, <3>3, <3>4, <3>5, Zenon
  <2>2. CASE ~KeepsLock
    <3>1. /\ pc' = IF tip # mostWork THEN "loop" ELSE "idle"
          /\ mostWork' = IF tip # mostWork THEN mostWork ELSE NoBlock
          /\ startTip' = NoBlock /\ oldTip' = NoBlock
      BY <2>2, Zenon DEF CheckProgress, EndRound
    <3>2. Types'
      BY <3>1, Zenon DEF CheckProgress, Types, index, order
    <3>3. Index'
      BY Zenon DEF CheckProgress, Index, index, order
    <3>4. Tips'
      BY <3>1, Zenon DEF CheckProgress, Tips, Sound, index
    <3>5. Control'
      BY <3>1, Zenon DEF CheckProgress, Control, Locked, order, index
    <3> QED BY <3>2, <3>3, <3>4, <3>5, Zenon
  <2> QED BY <2>1, <2>2, Zenon
<1>13. ASSUME NEW b \in Block, PreciousBlock(b) PROVE Basis'
  <2> USE <1>13
  <2> USE DEF Basis
  <2> DEFINE rev == IF Work[tip] > lastPrecious THEN -1 ELSE revSeq
  <2>1. rev \in Int /\ rev <= -1 /\ Work[tip] \in Nat
    BY WorkType DEF Types, Index
  <2>2. seq' = [seq EXCEPT ![b] = rev] /\ revSeq' = rev - 1 /\ lastPrecious' = Work[tip]
    BY Zenon DEF PreciousBlock
  <2>3. candidates' \subseteq linked
    BY DEF PreciousBlock, Pruned, Eligible, Index
  <2> HIDE DEF rev
  <2>4. Types'
    <3>1. seq' \in [Block -> Int] /\ revSeq' \in Int /\ lastPrecious' \in Nat
      BY <2>1, <2>2 DEF Types
    <3>2. done' \in [Ops -> Nat] /\ \A k \in Ops : done'[k] <= Bounds[k]
      BY UsesCount, Zenon DEF PreciousBlock, Ops
    <3>3. wanted' \in BOOLEAN
      BY Zenon DEF PreciousBlock
    <3> QED BY <3>1, <3>2, <3>3, Zenon DEF PreciousBlock, Types, index, locals
  <2>5. Index'
    <3>1. \A x \in Block \ linked : seq'[x] <= 0
      BY <2>1, <2>2 DEF Types, Index
    <3>2. nextSeq' >= 1 /\ revSeq' <= -1
      BY <2>1, <2>2 DEF PreciousBlock, Index
    <3> QED BY <3>1, <3>2, <2>3, Zenon DEF PreciousBlock, Index, index
  <2>6. Tips'
    BY Zenon DEF PreciousBlock, Tips, Sound, index, locals
  <2>7. Control'
    BY Zenon DEF PreciousBlock, Unlocked, Control, Locked, index, locals
  <2> QED BY <2>4, <2>5, <2>6, <2>7, Zenon
<1>14. ASSUME NEW b \in Block, InvalidateBlock(b) PROVE Basis'
  <2> USE <1>14
  <2> USE DEF Basis
  <2> DEFINE C == {c \in known \ Chain : Eligible(c) /\ ~Worse(seq, c, Parent[b])}
  <2>1. inv' = [block |-> b, mark |-> b, byWork |-> C]
    BY Zenon DEF InvalidateBlock
  <2>2. C \subseteq Block /\ C \subseteq linked
    BY Zenon DEF Types, Eligible
  <2> HIDE DEF C
  <2>3. Types'
    <3>1. inv' \in [block : Block \cup {NoBlock}, mark : Block \cup {NoBlock}, byWork : SUBSET Block]
      BY <2>1, <2>2, Zenon
    <3>2. done' \in [Ops -> Nat] /\ \A k \in Ops : done'[k] <= Bounds[k]
      BY UsesCount, Zenon DEF InvalidateBlock, Ops
    <3> QED BY <3>1, <3>2, Zenon DEF InvalidateBlock, Types, index, order, locals
  <2>4. Index'
    BY Zenon DEF InvalidateBlock, Index, index, order
  <2>5. Tips'
    BY Zenon DEF InvalidateBlock, Tips, Sound, index, locals
  <2>6. Control'
    BY <2>1, <2>2 DEF InvalidateBlock, MutexFree, Control, Locked, index, locals
  <2> QED BY <2>3, <2>4, <2>5, <2>6, Zenon
<1>15. CASE InvalidateStep
  <2> USE <1>15
  <2> USE DEF Basis
  <2>1. /\ tip # Genesis /\ Parent[tip] \in Block /\ Parent[tip] \in linked
        /\ Ancestors[tip] = {tip} \cup Ancestors[Parent[tip]]
    BY WalkedTip, Zenon DEF InvalidateStep
  <2>2. /\ inv.mark \in known /\ inv.byWork \subseteq linked /\ tip \in known
    BY Zenon DEF InvalidateStep, Control, Tips, Index, Types
  <2>3. /\ tip' = Parent[tip] /\ candidates' \subseteq candidates \cup {Parent[tip]} \cup inv.byWork
        /\ inv'.mark = tip /\ inv'.block = inv.block /\ inv'.byWork \subseteq inv.byWork
        /\ inv' \in [block : Block \cup {NoBlock}, mark : Block \cup {NoBlock},
                     byWork : SUBSET Block]
    BY Zenon DEF InvalidateStep, Types
  <2>4. failed' \in [Block -> SUBSET {"VALID", "CHILD"}]
    BY Zenon DEF InvalidateStep, Types, WalkMark
  <2>5. \A x \in Block : /\ failed[x] # {} => failed'[x] # {}
                         /\ x \notin known => failed'[x] = failed[x]
    BY <2>2, Zenon DEF InvalidateStep, Types
  <2>6. Types'
    BY <2>1, <2>3, <2>4, Zenon DEF InvalidateStep, Types, order, locals
  <2>7. Index'
    <3>1. UNCHANGED <<known, have, linked, unlinked, failedBlocks, seq, nextSeq, revSeq>>
      BY Zenon DEF InvalidateStep, order
    <3>2. \A x \in failedBlocks : failed'[x] # {}
      BY <2>5, Zenon DEF Types, Index
    <3>3. \A x \in Block \ known : failed'[x] = {}
      BY <2>5, Zenon DEF Index
    <3> QED BY <2>1, <2>2, <2>3, <3>1, <3>2, <3>3, Zenon DEF Index
  <2>8. Tips'
    BY <2>1, <2>3, Zenon DEF InvalidateStep, Tips, Sound, locals
  <2>9. Control'
    BY <2>1, <2>2, <2>3, Zenon DEF InvalidateStep, Control, Locked, locals, order
  <2> QED BY <2>6, <2>7, <2>8, <2>9, Zenon
<1>16. CASE InvalidateFinish
  <2> USE <1>16
  <2> USE DEF Basis
  <2>1. inv.mark \in known
    BY Zenon DEF InvalidateFinish, Control
  <2>2. failed' = [failed EXCEPT ![inv.mark] = @ \cup {"VALID"}] /\ failedBlocks' = failedBlocks \cup {inv.mark}
    BY Zenon DEF InvalidateFinish
  <2>3. candidates' \subseteq linked
    BY Zenon DEF InvalidateFinish, MissedCandidates, Index
  <2>4. Types'
    <3>1. inv' \in [block : Block \cup {NoBlock}, mark : Block \cup {NoBlock}, byWork : SUBSET Block]
      BY Zenon DEF InvalidateFinish, NoInv
    <3>2. failed' \in [Block -> SUBSET {"VALID", "CHILD"}]
      BY <2>1, <2>2, Zenon DEF Types
    <3> QED BY <3>1, <3>2, <2>1, <2>2, Zenon DEF InvalidateFinish, Types, order, locals
  <2>5. Index'
    <3>1. UNCHANGED <<known, have, linked, unlinked, seq, nextSeq, revSeq>>
      BY Zenon DEF InvalidateFinish, order
    <3>2. \A x \in failedBlocks' : failed'[x] # {}
      BY <2>1, <2>2 DEF Types, Index
    <3>3. \A x \in Block \ known : failed'[x] = {}
      BY <2>1, <2>2, Zenon DEF Types, Index
    <3> QED BY <2>3, <3>1, <3>2, <3>3, Zenon DEF Index
  <2>6. Tips'
    BY Zenon DEF InvalidateFinish, Tips, Sound, locals
  <2>7. Control'
    BY Zenon DEF InvalidateFinish, Control, Locked, locals
  <2> QED BY <2>4, <2>5, <2>6, <2>7, Zenon
<1>17. ASSUME NEW b \in Block, ResetBlockFailureFlags(b) PROVE Basis'
  <2> USE <1>17
  <2> USE DEF Basis
  <2>1. PICK cleared \in SUBSET known :
          /\ failed' = [x \in Block |-> IF x \in cleared \cup Ancestors[b] THEN {} ELSE failed[x]]
          /\ candidates' \subseteq candidates \cup linked
          /\ failedBlocks' = failedBlocks \ (cleared \cup {a \in Ancestors[b] : failed[a] # {}})
    <3> DEFINE C == {d \in Descendants(b) \cap known : failed[d] # {} \/ d \notin have}
    <3> WITNESS C \in SUBSET known
    <3> QED BY Zenon DEF ResetBlockFailureFlags
  <2>2. Types'
    <3>1. done' \in [Ops -> Nat] /\ \A k \in Ops : done'[k] <= Bounds[k]
      BY UsesCount, Zenon DEF ResetBlockFailureFlags, Ops
    <3>2. wanted' \in BOOLEAN
      BY Zenon DEF ResetBlockFailureFlags
    <3> QED BY <2>1, <3>1, <3>2, Zenon DEF ResetBlockFailureFlags, Types, order, locals
  <2>3. Index'
    BY <2>1, Zenon DEF ResetBlockFailureFlags, Types, Index, order
  <2>4. Tips'
    BY Zenon DEF ResetBlockFailureFlags, Tips, Sound, locals
  <2>5. Control'
    BY Zenon DEF ResetBlockFailureFlags, Control, Locked, locals, order
  <2> QED BY <2>2, <2>3, <2>4, <2>5, Zenon
<1>18. CASE FlushStateToDisk
  <2> USE <1>18
  <2> USE DEF Basis
  <2>1. Types'
    BY Zenon DEF FlushStateToDisk, Types, index, order, locals
  <2>2. Index'
    BY Zenon DEF FlushStateToDisk, Index, index, order
  <2>3. Tips'
    BY Zenon DEF FlushStateToDisk, Tips, Sound, index, locals
  <2>4. Control'
    BY Zenon DEF FlushStateToDisk, Control, Locked, index, locals, order
  <2> QED BY <2>1, <2>2, <2>3, <2>4, Zenon
<1>19. CASE Restart
  <2> USE <1>19
  <2> USE DEF Basis
  <2>1. /\ Genesis \in LoadedLinked /\ LoadedLinked \subseteq have
        /\ \A b \in LoadedLinked \ {Genesis} : Parent[b] \in LoadedLinked
    BY LoadedBranch, Zenon
  <2>2. /\ linked' = LoadedLinked /\ unlinked' = {b \in have \ {Genesis} : Parent[b] \notin LoadedLinked}
        /\ failedBlocks' = {} /\ candidates' \subseteq LoadedLinked
        /\ seq' = [b \in Block |-> 0] /\ nextSeq' = 1 /\ revSeq' = -1 /\ lastPrecious' = 0
        /\ UNCHANGED <<known, have, scripts, coinsTip>> /\ tip' = coinsTip
    BY Zenon DEF Restart, Pruned, LoadedCandidates
  <2>3. failed' \in [Block -> SUBSET {"VALID", "CHILD"}] /\ \A b \in Block \ known : failed'[b] = failed[b]
    BY Zenon DEF Restart, LoadedFailed, Types
  <2>4. coinsTip \in LoadedLinked
    BY AncestorsRec, Zenon DEF LoadedLinked, Tips, Sound, Types
  <2> HIDE DEF LoadedLinked
  <2>5. Types'
    <3>1. inv' \in [block : Block \cup {NoBlock}, mark : Block \cup {NoBlock}, byWork : SUBSET Block]
      BY Zenon DEF Restart, NoInv
    <3>2. done' \in [Ops -> Nat] /\ \A k \in Ops : done'[k] <= Bounds[k]
      BY UsesCount, Zenon DEF Restart, Ops
    <3>3. wanted' \in BOOLEAN
      BY Zenon DEF Restart
    <3>4. seq' \in [Block -> Int] /\ nextSeq' \in Nat /\ lastPrecious' \in Nat /\ revSeq' \in Int
      BY <2>2
    <3> QED BY <3>1, <3>2, <3>3, <3>4, <2>2, <2>3, Zenon DEF Restart, Types
  <2>6. Index'
    <3>1. nextSeq' >= 1 /\ revSeq' <= -1 /\ \A b \in Block : seq'[b] <= 0
      BY <2>2
    <3>2. \A b \in unlinked' : b \notin LoadedLinked
      BY <2>1, <2>2, Zenon
    <3> QED BY <3>1, <3>2, <2>1, <2>2, <2>3, Zenon DEF Index
  <2>7. Tips'
    BY <2>2, <2>4, Zenon DEF Restart, Tips, Sound
  <2>8. Control'
    BY <2>2, Zenon DEF Restart, Control, Locked
  <2> QED BY <2>5, <2>6, <2>7, <2>8, Zenon
<1>1. CASE UNCHANGED vars
  <2> USE DEF vars, index, order, locals, Basis
  <2>1. Types'
    BY <1>1, Zenon DEF Types
  <2>2. Index'
    BY <1>1, Zenon DEF Index
  <2>3. Tips'
    BY <1>1, Zenon DEF Tips, Sound
  <2>4. Control'
    BY <1>1, Zenon DEF Control, Locked
  <2> QED BY <2>1, <2>2, <2>3, <2>4, Zenon
<1>2. CASE Next
  BY <1>2, <1>3, <1>4, <1>5, <1>6, <1>7,
     <1>8, <1>9, <1>10, <1>11,
     <1>12, <1>13, <1>14, <1>15,
     <1>16, <1>17, <1>18, <1>19, Zenon
     DEF Next, Activate
<1> QED BY <1>1, <1>2, Zenon

LEMMA BaseAlways == Spec => []Basis
BY BaseInit, BaseStep, PTL DEF Spec

\* Every variable stays in its type.
THEOREM TypeCorrect == Spec => []TypeOK
<1>1. Basis => TypeOK
  <2> SUFFICES ASSUME Basis PROVE TypeOK
    BY Zenon
  <2>1. known \in SUBSET Block /\ {have, linked, unlinked, scripts, failedBlocks, candidates} \subseteq SUBSET known
    BY DEF Basis, Types, Index
  <2>2. \A k \in DOMAIN Bounds : done[k] \in 0..Bounds[k]
    BY OpsDomain DEF Basis, Types
  <2> QED BY <2>1, <2>2, Zenon DEF Basis, Types, TypeOK
<1> QED BY <1>1, BaseAlways, PTL

\* ActiveChainValid's first half: no block that ConnectBlock rejects is ever on
\* the active chain.
LEMMA ChainSound == Basis => Chain \cap Bad = {}
BY Zenon DEF Basis, Tips, Sound, Chain

-----------------------------------------------------------------------------
\* Failure marks.

\* The counts of the calls only grow.
LEMMA DoneGrows ==
  ASSUME Types, [Next]_vars
  PROVE  \A k \in Ops : done[k] \in Nat /\ done'[k] \in Nat /\ done[k] <= done'[k]
<1>1. done \in [Ops -> Nat]
  BY Zenon DEF Types
<1>2. CASE done' = done
  BY <1>1, <1>2
<1>3. ASSUME NEW op \in Ops, Uses(op)
      PROVE  \A k \in Ops : done[k] \in Nat /\ done'[k] \in Nat /\ done[k] <= done'[k]
  BY <1>1, <1>3, UsesCount
<1>4. CASE UNCHANGED vars
  BY <1>4, <1>2, Zenon DEF vars
<1>5. CASE Activate
  BY <1>5, <1>2, Zenon
     DEF Activate, StartRound, DropFailedCandidate, NothingToActivate, DisconnectToFork,
     ConnectTip, ConnectTipFails, CheckProgress
<1>6. CASE (\E b \in Block : PreciousBlock(b) \/ InvalidateBlock(b) \/ ResetBlockFailureFlags(b)) \/ Restart
  BY <1>6, <1>3, Zenon DEF PreciousBlock, InvalidateBlock, ResetBlockFailureFlags, Restart, Ops
<1>7. CASE (\E b \in Block \ {Genesis} : AcceptBlockHeader(b)) \/ ActivateBestChain
           \/ InvalidateStep \/ InvalidateFinish \/ FlushStateToDisk
  BY <1>7, <1>2, Zenon
     DEF AcceptBlockHeader, ActivateBestChain, InvalidateStep, InvalidateFinish, FlushStateToDisk
<1>8. CASE \E b \in Block, requested \in BOOLEAN : AcceptBlock(b, requested)
  BY <1>8, <1>2, Zenon DEF AcceptBlock
<1> QED BY <1>4, <1>5, <1>6, <1>7, <1>8, Zenon DEF Next

LEMMA ConditionsShrink ==
  ASSUME Types, [Next]_vars
  PROVE  /\ NoFailedTip' => NoFailedTip
         /\ FlagsIntact' => FlagsIntact
         /\ Intact' => Intact
         /\ (done.invalidate = 0)' => done.invalidate = 0
         /\ (done.reconsider = 0)' => done.reconsider = 0
<1>1. \A k \in Ops : done[k] \in Nat /\ done'[k] \in Nat /\ done[k] <= done'[k]
  BY DoneGrows, Zenon
<1>2. /\ done.invalidate \in Nat /\ done'.invalidate \in Nat /\ done.invalidate <= done'.invalidate
      /\ done.reconsider \in Nat /\ done'.reconsider \in Nat /\ done.reconsider <= done'.reconsider
      /\ done.precious \in Nat /\ done'.precious \in Nat /\ done.precious <= done'.precious
      /\ done.restart \in Nat /\ done'.restart \in Nat /\ done.restart <= done'.restart
  BY <1>1, Zenon DEF Ops
<1> QED BY <1>2 DEF NoFailedTip, FlagsIntact, Intact

\* No block of the branch of b is marked failed.
Clean(b) == \A x \in Ancestors[b] : failed[x] = {}

\* The active chain and the branch to the target are clean, until a restart
\* follows invalidateblock.
CleanTips ==
  /\ pc = "invalidate" => done.invalidate # 0
  /\ NoFailedTip => Clean(tip) /\ (mostWork # NoBlock => Clean(mostWork))
  /\ done.invalidate = 0 => Clean(coinsTip)

\* Marking the blocks of a branch above a failed one leaves clean branches alone.
LEMMA MarkedAbove ==
  ASSUME NEW c \in Block, NEW w \in Ancestors[c], failed[w] # {}, NEW t \in Block, Clean(t)
  PROVE  \A x \in Ancestors[t] : x \notin Ancestors[c] \ Ancestors[w]
<1> SUFFICES ASSUME NEW x \in Ancestors[t], x \in Ancestors[c], x \notin Ancestors[w]
             PROVE  FALSE
  BY Zenon
<1>1. w \in Ancestors[x]
  BY AncestorsLine, Zenon
<1>2. w \in Ancestors[t]
  BY <1>1, AncestorsTransitive, Zenon
<1> QED BY <1>2, Zenon DEF Clean

\* The branch that FindMostWorkChain drops, from its highest failed block.
LEMMA DroppedBranch ==
  ASSUME Basis, DropFailedCandidate
  PROVE  \E c \in candidates : \E w \in Ancestors[c] :
           /\ c \in Block /\ failed[w] # {} /\ w \notin Chain
           /\ failed' = [x \in Block |-> IF x \in Ancestors[c] \ Ancestors[w]
                                           THEN failed[x] \cup {"CHILD"} ELSE failed[x]]
           /\ candidates' = candidates \ Erased(c, w)
<1>1. candidates \subseteq Block
  BY Zenon DEF Basis, Types, Index
<1> QED BY <1>1, Zenon DEF DropFailedCandidate, FailedPath

LEMMA CleanStep == Basis /\ CleanTips /\ [Next]_vars => CleanTips'
<1> SUFFICES ASSUME Basis, CleanTips, [Next]_vars PROVE CleanTips'
  BY Zenon
<1>9. ASSUME NEW b \in Block \ {Genesis}, AcceptBlockHeader(b) PROVE CleanTips'
  <2> USE <1>9
  <2> DEFINE prev == Parent[b]
  <2>1. prev \in Block
    BY ParentType, Zenon
  <2>2. ASSUME NEW t \in Block, Clean(t) PROVE Clean(t)'
    <3>1. CASE UNCHANGED failed
      BY <3>1, <2>2, Zenon DEF Clean
    <3>2. ASSUME NEW f \in FailedAncestors(prev),
                 failed' = [x \in Block |-> IF x \in Ancestors[prev] \ Ancestors[f]
                                              THEN failed[x] \cup {"CHILD"} ELSE failed[x]]
          PROVE  Clean(t)'
      <4>1. f \in Ancestors[prev] /\ failed[f] # {}
        BY Zenon DEF FailedAncestors, Basis, Index
      <4>2. \A x \in Ancestors[t] : x \notin Ancestors[prev] \ Ancestors[f] /\ x \in Block
        BY <4>1, <2>1, <2>2, MarkedAbove, AncestorsRec, Zenon
      <4> QED BY <4>2, <3>2, <2>2, Zenon DEF Clean
    <3> QED BY <3>1, <3>2, Zenon DEF AcceptBlockHeader
  <2>3. UNCHANGED <<tip, mostWork, coinsTip, done, pc>>
    BY Zenon DEF AcceptBlockHeader, locals
  <2> QED BY <2>2, <2>3, Zenon DEF CleanTips, NoFailedTip, Basis, Types
<1>10. ASSUME NEW b \in Block, NEW requested \in BOOLEAN, AcceptBlock(b, requested)
       PROVE  CleanTips'
  <2> USE <1>10
  <2>1. ASSUME NEW t \in Block, Clean(t), Ancestors[t] \subseteq have PROVE Clean(t)'
    <3>1. failed' = failed \/ (failed' = [failed EXCEPT ![b] = @ \cup {"VALID"}] /\ b \notin have)
      BY Zenon DEF AcceptBlock, Takes
    <3> QED BY <3>1, <2>1, AncestorsRec DEF Clean, Basis, Types
  <2>2. UNCHANGED <<tip, mostWork, coinsTip, done, pc>>
    BY Zenon DEF AcceptBlock, locals
  <2>3. Ancestors[tip] \subseteq have /\ Ancestors[coinsTip] \subseteq have
    BY Zenon DEF Basis, Tips, Sound
  <2>4. mostWork # NoBlock => Ancestors[mostWork] \subseteq have
    BY LinkedBranch, Zenon DEF Basis, Tips, Index
  <2> QED BY <2>1, <2>2, <2>3, <2>4, Zenon DEF CleanTips, NoFailedTip, Basis, Types
<1>11. CASE DropFailedCandidate
  <2> USE <1>11
  <2>1. PICK c \in candidates : \E w \in Ancestors[c] :
           /\ c \in Block /\ failed[w] # {}
           /\ failed' = [x \in Block |-> IF x \in Ancestors[c] \ Ancestors[w]
                                           THEN failed[x] \cup {"CHILD"} ELSE failed[x]]
    BY DroppedBranch, Zenon
  <2>2. PICK w \in Ancestors[c] :
           /\ c \in Block /\ failed[w] # {}
           /\ failed' = [x \in Block |-> IF x \in Ancestors[c] \ Ancestors[w]
                                           THEN failed[x] \cup {"CHILD"} ELSE failed[x]]
    BY <2>1, Zenon
  <2>3. ASSUME NEW t \in Block, Clean(t) PROVE Clean(t)'
    <3>1. \A x \in Ancestors[t] : x \notin Ancestors[c] \ Ancestors[w] /\ x \in Block
      BY <2>2, <2>3, MarkedAbove, AncestorsRec, Zenon
    <3> QED BY <3>1, <2>2, <2>3, Zenon DEF Clean
  <2>4. UNCHANGED <<tip, mostWork, coinsTip, done, pc>>
    BY Zenon DEF DropFailedCandidate, locals
  <2> QED BY <2>3, <2>4, Zenon DEF CleanTips, NoFailedTip, Basis, Types
<1>12. CASE DisconnectToFork
  <2> USE <1>12
  <2>1. PICK t \in Targets \ {NoBlock, tip} : \E fork \in Chain \cap Ancestors[t] :
          Chain \cap Ancestors[t] \subseteq Ancestors[fork] /\ mostWork' = t /\ tip' = fork
    BY Zenon DEF DisconnectToFork
  <2>2. t \in Block /\ (mostWork = t \/ (mostWork = NoBlock /\ Usable(t)))
    BY TargetBlock, Zenon DEF Basis
  <2>3. Ancestors[tip'] \subseteq Ancestors[tip]
    BY <2>1, <2>2, ForkBlock, Zenon DEF Basis, Types
  <2>4. NoFailedTip => Clean(t)
    BY <2>1, <2>2, Zenon DEF CleanTips, Usable, FailedPath, Clean, Chain
  <2>5. UNCHANGED <<failed, coinsTip, done>> /\ pc' # "invalidate"
    BY Zenon DEF DisconnectToFork, index
  <2> QED BY <2>1, <2>3, <2>4, <2>5, Zenon DEF CleanTips, NoFailedTip, Clean
<1>13. CASE ConnectTip
  <2> USE <1>13
  <2>1. mostWork \in Block /\ mostWork # NoBlock
    BY Zenon DEF ConnectTip, Basis, Control, Types
  <2>2. tip' \in Ancestors[mostWork] /\ UNCHANGED <<failed, coinsTip, done, mostWork>> /\ pc' # "invalidate"
    BY <2>1, Zenon DEF ConnectTip, NextToConnect, locals
  <2>3. Ancestors[tip'] \subseteq Ancestors[mostWork]
    BY <2>1, <2>2, AncestorsTransitive, Zenon
  <2> QED BY <2>1, <2>2, <2>3, Zenon DEF CleanTips, NoFailedTip, Clean
<1>14. CASE ConnectTipFails
  <2> USE <1>14
  <2>1. PICK n \in Bad : failed' = [failed EXCEPT ![n] = @ \cup {"VALID"}]
    BY Zenon DEF ConnectTipFails, InvalidBlockFound
  <2>2. mostWork' = NoBlock /\ UNCHANGED <<tip, coinsTip, done>> /\ pc' # "invalidate"
    BY Zenon DEF ConnectTipFails
  <2>3. Ancestors[tip] \cap Bad = {} /\ Ancestors[coinsTip] \cap Bad = {}
    BY Zenon DEF Basis, Tips, Sound
  <2>4. ASSUME NEW t \in Block, Clean(t), Ancestors[t] \cap Bad = {} PROVE Clean(t)'
    BY <2>1, <2>4, AncestorsRec, Zenon DEF Clean, Basis, Types
  <2> QED BY <2>2, <2>3, <2>4, Zenon DEF CleanTips, NoFailedTip, Basis, Types
<1>15. CASE InvalidateStep
  <2> USE <1>15
  <2>1. /\ Ancestors[tip] = {tip} \cup Ancestors[Parent[tip]] /\ Parent[tip] \in Block
        /\ tip \notin Ancestors[Parent[tip]] /\ Parent[tip] \in Ancestors[Parent[tip]]
    BY WalkedTip, Zenon DEF InvalidateStep
  <2>2. pc = "invalidate" /\ tip' = Parent[tip] /\ UNCHANGED <<pc, mostWork, coinsTip, done>> /\ mostWork = NoBlock
    BY Zenon DEF InvalidateStep, locals, Basis, Control
  <2>3. ASSUME NoFailedTip PROVE \A x \in Ancestors[Parent[tip]] : failed'[x] = {}
    <3>1. \A x \in Ancestors[tip] : failed[x] = {}
      BY <2>3, Zenon DEF CleanTips, Clean
    <3>2. ~(Parent[tip] = inv.mark /\ "VALID" \in failed[inv.mark])
      BY <2>1, <3>1, Zenon
    <3>3. failed' = [x \in Block |-> IF x = tip THEN failed[x] \cup {WalkMark} ELSE failed[x]]
      BY <3>2, Zenon DEF InvalidateStep
    <3>4. \A x \in Ancestors[Parent[tip]] : x \in Block /\ x # tip
      BY <2>1, AncestorsRec, Zenon
    <3> QED BY <2>1, <3>1, <3>3, <3>4, Zenon
  <2> QED BY <2>2, <2>3, Zenon DEF CleanTips, NoFailedTip, Clean
<1>16. CASE InvalidateFinish
  <2> USE <1>16
  <2>1. inv.mark \in Block \ {Genesis} /\ (inv.mark = inv.block \/ Parent[inv.mark] = tip)
    BY Zenon DEF InvalidateFinish, Basis, Control, Types
  <2>2. inv.mark \notin Ancestors[tip]
    BY <2>1, NotOwnAncestor, Zenon DEF InvalidateFinish, Chain
  <2>3. /\ failed' = [failed EXCEPT ![inv.mark] = @ \cup {"VALID"}]
        /\ UNCHANGED <<tip, mostWork, coinsTip, done>> /\ mostWork = NoBlock /\ pc' = "idle"
        /\ pc = "invalidate"
    BY Zenon DEF InvalidateFinish, locals, Basis, Control
  <2>4. NoFailedTip => Clean(tip)'
    BY <2>2, <2>3, AncestorsRec, Zenon DEF CleanTips, Clean, Basis, Types
  <2> QED BY <2>3, <2>4, Zenon DEF CleanTips, NoFailedTip
<1>17. ASSUME NEW b \in Block, ResetBlockFailureFlags(b) PROVE CleanTips'
  <2> USE <1>17
  <2>1. \A x \in Block : failed'[x] = {} \/ failed'[x] = failed[x]
    BY Zenon DEF ResetBlockFailureFlags
  <2>2. ASSUME NEW t \in Block, Clean(t) PROVE Clean(t)'
    BY <2>1, <2>2, AncestorsRec, Zenon DEF Clean
  <2>3. UNCHANGED <<tip, mostWork, coinsTip, pc>> /\ done'.invalidate = done.invalidate
    BY UsesCount, Zenon DEF ResetBlockFailureFlags, locals, Ops, Basis
  <2>4. NoFailedTip' => NoFailedTip
    BY ConditionsShrink, Zenon DEF Basis
  <2> QED BY <2>2, <2>3, <2>4, Zenon DEF CleanTips, Basis, Types
<1>18. CASE Restart
  <2> USE <1>18
  <2>1. done'.invalidate = done.invalidate /\ done'.restart # 0
    <3>1. done'.restart = done.restart + 1 /\ done'.invalidate = done.invalidate
      BY UsesCount, Zenon DEF Restart, Ops, Basis
    <3>2. done.restart \in Nat
      BY Zenon DEF Basis, Types, Ops
    <3> QED BY <3>1, <3>2
  <2>2. pc' = "idle" /\ tip' = coinsTip /\ coinsTip' = coinsTip /\ mostWork' = NoBlock /\ failed' = LoadedFailed
    BY Zenon DEF Restart
  <2>3. ASSUME done.invalidate = 0 PROVE Clean(coinsTip)'
    <3>1. \A x \in Ancestors[coinsTip] : x \in Block /\ Ancestors[x] \subseteq Ancestors[coinsTip]
      BY AncestorsTransitive, Zenon DEF Basis, Types
    <3> QED BY <3>1, <2>2, <2>3, Zenon DEF CleanTips, Clean, LoadedFailed
  <2> QED BY <2>1, <2>2, <2>3, Zenon DEF CleanTips, NoFailedTip, Clean
<1> USE DEF CleanTips, NoFailedTip, Clean
<1>1. CASE UNCHANGED vars
  BY <1>1, Zenon DEF vars, index, locals
<1>2. CASE ActivateBestChain
  BY <1>2, Zenon DEF ActivateBestChain, index, locals
<1>3. CASE StartRound
  BY <1>3, Zenon DEF StartRound, index
<1>4. CASE NothingToActivate
  <2>1. pc' # "invalidate" /\ (mostWork' = NoBlock \/ mostWork' = mostWork \/ mostWork' = tip)
    BY <1>4, Zenon DEF NothingToActivate, EndRound
  <2> QED BY <1>4, <2>1, Zenon DEF NothingToActivate, index
<1>5. CASE CheckProgress
  <2>1. pc' # "invalidate" /\ (mostWork' = NoBlock \/ mostWork' = mostWork)
    BY <1>5, Zenon DEF CheckProgress, EndRound, locals
  <2> QED BY <1>5, <2>1, Zenon DEF CheckProgress, index
<1>6. ASSUME NEW b \in Block, PreciousBlock(b) PROVE CleanTips'
  <2>1. done'.invalidate = done.invalidate /\ done'.restart = done.restart
    BY <1>6, UsesCount, Zenon DEF PreciousBlock, Ops, Basis
  <2> QED BY <1>6, <2>1, Zenon DEF PreciousBlock, index, locals
<1>7. ASSUME NEW b \in Block, InvalidateBlock(b) PROVE CleanTips'
  <2>1. done'.invalidate = done.invalidate + 1 /\ done'.restart = done.restart /\ done.invalidate \in Nat
    BY <1>7, UsesCount, Zenon DEF InvalidateBlock, Ops, Basis, Types
  <2>2. done'.invalidate # 0 /\ (NoFailedTip' => NoFailedTip)
    BY <2>1
  <2> QED BY <1>7, <2>2, Zenon DEF InvalidateBlock, index, locals
<1>8. CASE FlushStateToDisk
  BY <1>8, Zenon DEF FlushStateToDisk, index, locals
<1> QED BY <1>1, <1>2, <1>3, <1>4, <1>5, <1>6, <1>7, <1>8, <1>9, <1>10,
     <1>11, <1>12, <1>13, <1>14,
     <1>15, <1>16, <1>17, <1>18, Zenon
     DEF Next, Activate

LEMMA CleanAlways == Spec => []CleanTips
<1>1. Init => CleanTips
  <2> SUFFICES ASSUME Init PROVE CleanTips
    BY Zenon
  <2>1. Clean(Genesis)
    BY AncestorsRec, ParentType, Zenon DEF Init, Clean
  <2> QED BY <2>1, Zenon DEF Init, CleanTips
<1> QED BY <1>1, CleanStep, BaseAlways, PTL DEF Spec

\* The active chain never holds a block that ConnectBlock rejects, and none
\* that is marked failed when cs_main is free.
THEOREM ActiveChainIsValid == Spec => []ActiveChainValid
<1>1. Basis /\ CleanTips => ActiveChainValid
  BY ChainSound, Zenon DEF CleanTips, Clean, ActiveChainValid, Chain
<1> QED BY <1>1, BaseAlways, CleanAlways, PTL

-----------------------------------------------------------------------------
\* What is known to be invalid, and which blocks are linked.

\* The blocks that the candidates must account for: those with no invalid
\* ancestor, and after reconsiderblock those no rule rejects.
Good(b) ==
  IF done.reconsider = 0 THEN ~HasInvalidAncestor(b)
                         ELSE Ancestors[b] \cap (Bad \cup BadBody) = {}

Marks ==
  /\ done.invalidate = 0 => \A b \in Block : "VALID" \in failed[b] => b \in Bad \cup BadBody
  /\ FlagsIntact => \A b \in Block : Good(b) => failed[b] = {}
  /\ FlagsIntact => \A b \in have : Good(b) => b \in linked \cup unlinked
  /\ FlagsIntact /\ startTip # NoBlock => Good(startTip)

Certain == Basis /\ CleanTips /\ Marks

LEMMA GoodBranch ==
  ASSUME NEW b \in Block, NEW a \in Ancestors[b], Good(b)
  PROVE  a \in Block /\ Good(a)
<1>1. a \in Block /\ Ancestors[a] \subseteq Ancestors[b]
  BY AncestorsTransitive, Zenon
<1> QED BY <1>1, Zenon DEF Good, HasInvalidAncestor

LEMMA FlagsCases ==
  ASSUME Types, FlagsIntact
  PROVE  NoFailedTip /\ (done.invalidate = 0 \/ done.reconsider = 0)
BY Zenon DEF FlagsIntact, NoFailedTip

\* Blocks do not become good again: a mark FAILED_VALID is removed by
\* reconsiderblock only, and that leaves those that no rule rejects.
LEMMA GoodShrinks ==
  ASSUME Basis, CleanTips, Marks, [Next]_vars, FlagsIntact', NEW b \in Block, Good(b)'
  PROVE  Good(b)
<1>1. FlagsIntact /\ ((done.reconsider = 0)' => done.reconsider = 0)
  BY ConditionsShrink, Zenon DEF Basis
<1>2. NoFailedTip
  BY <1>1, FlagsCases, Zenon DEF Basis
<1>3. CASE \A x \in Block : "VALID" \in failed[x] => "VALID" \in failed'[x]
  <2>1. CASE done'.reconsider = 0
    BY <1>1, <1>3, <2>1, AncestorsRec, Zenon DEF Good, HasInvalidAncestor
  <2>2. CASE done'.reconsider # 0
    <3>1. Ancestors[b] \cap (Bad \cup BadBody) = {}
      BY <2>2, Zenon DEF Good
    <3>2. CASE done.reconsider # 0
      BY <3>1, <3>2, Zenon DEF Good
    <3>3. CASE done.reconsider = 0
      <4>1. done'.invalidate = 0
        BY <2>2, Zenon DEF FlagsIntact
      <4>2. done.invalidate = 0
        BY <4>1, ConditionsShrink, Zenon DEF Basis
      <4> QED BY <3>1, <3>3, <4>2, AncestorsRec, Zenon DEF Good, HasInvalidAncestor, Marks
    <3> QED BY <3>2, <3>3, Zenon
  <2> QED BY <2>1, <2>2, Zenon
<1>4. ASSUME NEW c \in Block, ResetBlockFailureFlags(c) PROVE Good(b)
  <2>1. done'.reconsider = done.reconsider + 1 /\ done'.invalidate = done.invalidate /\ done.reconsider \in Nat
    BY <1>4, UsesCount, Zenon DEF ResetBlockFailureFlags, Basis, Ops, Types
  <2>2. done'.reconsider # 0
    BY <2>1
  <2>3. Ancestors[b] \cap (Bad \cup BadBody) = {} /\ done.invalidate = 0
    BY <2>1, <2>2, Zenon DEF Good, FlagsIntact
  <2> QED BY <2>3, AncestorsRec DEF Good, HasInvalidAncestor, Marks
<1>5. CASE InvalidateStep
  <2>1. Parent[tip] \in Ancestors[tip]
    BY <1>5, WalkedTip, Zenon DEF InvalidateStep
  <2>2. failed[Parent[tip]] = {}
    BY <1>2, <2>1, Zenon DEF CleanTips, Clean
  <2>3. ~(Parent[tip] = inv.mark /\ "VALID" \in failed[inv.mark])
    BY <2>2, Zenon
  <2>4. failed' = [x \in Block |-> IF x = tip THEN failed[x] \cup {WalkMark} ELSE failed[x]]
    BY <1>5, <2>3, Zenon DEF InvalidateStep
  <2> QED BY <2>4, <1>3, Zenon
<1>6. CASE failed' = failed
  BY <1>6, <1>3, Zenon
<1>7. CASE UNCHANGED vars
  BY <1>7, <1>6, Zenon DEF vars, index
<1>8. CASE Activate
  <2>1. CASE DropFailedCandidate
    BY <2>1, <1>3, DroppedBranch, Zenon
  <2>2. CASE ConnectTipFails
    BY <2>2, <1>3 DEF ConnectTipFails, InvalidBlockFound, Basis, Types
  <2>3. CASE StartRound \/ NothingToActivate \/ DisconnectToFork \/ CheckProgress
    BY <2>3, <1>6, Zenon DEF StartRound, NothingToActivate, DisconnectToFork, CheckProgress, index
  <2>4. CASE ConnectTip
    BY <2>4, <1>6, Zenon DEF ConnectTip
  <2> QED BY <1>8, <2>1, <2>2, <2>3, <2>4, Zenon DEF Activate
<1>9. CASE \E c \in Block \ {Genesis} : AcceptBlockHeader(c)
  BY <1>9, <1>3, <1>6, Zenon DEF AcceptBlockHeader
<1>10. CASE \E c \in Block, requested \in BOOLEAN : AcceptBlock(c, requested)
  BY <1>10, <1>3, <1>6 DEF AcceptBlock, Basis, Types
<1>11. CASE ActivateBestChain \/ FlushStateToDisk \/ \E c \in Block : PreciousBlock(c) \/ InvalidateBlock(c)
  BY <1>11, <1>6, Zenon
     DEF ActivateBestChain, FlushStateToDisk, PreciousBlock, InvalidateBlock, index
<1>12. CASE InvalidateFinish
  BY <1>12, <1>3, Zenon DEF InvalidateFinish, Basis, Types
<1>13. CASE Restart
  <2>1. \A x \in Block : "VALID" \in failed[x] => "VALID" \in failed'[x]
    BY <1>13, Zenon DEF Restart, LoadedFailed
  <2> QED BY <2>1, <1>3, Zenon
<1> QED BY <1>4, <1>5, <1>7, <1>8, <1>9, <1>10, <1>11, <1>12, <1>13, Zenon DEF Next

LEMMA MarksStep == Certain /\ [Next]_vars => Marks'
<1> SUFFICES ASSUME Certain, [Next]_vars PROVE Marks'
  BY Zenon
\* A step that leaves the marks, the received and the linked blocks alone.
<1>9. ASSUME UNCHANGED <<failed, have, linked, unlinked>>,
             startTip' \in {NoBlock, tip, startTip}
      PROVE  Marks'
  <2> USE <1>9
  <2> USE DEF Certain
  <2>1. (done.invalidate = 0)' => done.invalidate = 0
    BY ConditionsShrink, Zenon DEF Basis
  <2>2. FlagsIntact' => FlagsIntact
    BY ConditionsShrink, Zenon DEF Basis
  <2>3. ASSUME FlagsIntact' PROVE \A b \in Block : Good(b)' => Good(b)
    BY <2>3, GoodShrinks, Zenon
  <2>4. ASSUME FlagsIntact', startTip' # NoBlock PROVE Good(startTip)'
    <3>1. FlagsIntact /\ startTip' \in Block
      BY <2>2, <2>4, Zenon DEF Basis, Types
    <3>2. CASE done'.reconsider = 0
      <4>1. done.reconsider = 0
        BY <3>2, ConditionsShrink, Zenon DEF Basis
      <4>2. startTip' = tip => \A x \in Ancestors[tip] : failed[x] = {}
        BY <3>1, FlagsCases, Zenon DEF CleanTips, Clean, Basis
      <4>3. startTip' # tip => ~HasInvalidAncestor(startTip)
        BY <3>1, <2>4, <4>1, Zenon DEF Marks, Good
      <4> QED BY <4>2, <4>3, <3>2, <2>4, Zenon DEF Good, HasInvalidAncestor
    <3>3. CASE done'.reconsider # 0
      <4>1. Ancestors[startTip'] \cap (Bad \cup BadBody) = {}
        BY <2>4, Zenon DEF Basis, Tips, Sound, Index
      <4> QED BY <4>1, <3>3, Zenon DEF Good
    <3> QED BY <3>2, <3>3, Zenon
  <2>5. \A b \in Block : FlagsIntact' /\ Good(b)' => failed'[b] = {}
    BY <2>2, <2>3, Zenon DEF Marks
  <2>6. \A b \in have' : FlagsIntact' /\ Good(b)' => b \in linked' \cup unlinked'
    BY <2>2, <2>3, Zenon DEF Marks, Basis, Types
  <2> QED BY <2>1, <2>4, <2>5, <2>6, Zenon DEF Marks
\* A step that marks blocks above a failed one.
<1>10. ASSUME UNCHANGED <<have, linked, unlinked, startTip, done>>, NEW c \in Block,
              NEW w \in Ancestors[c], failed[w] # {},
              failed' = [x \in Block |-> IF x \in Ancestors[c] \ Ancestors[w] THEN failed[x] \cup {"CHILD"} ELSE failed[x]]
       PROVE  Marks'
  <2> USE <1>10
  <2> USE DEF Certain
  <2>1. \A x \in Block : "VALID" \in failed'[x] <=> "VALID" \in failed[x]
    BY Zenon
  <2>2. FlagsIntact' = FlagsIntact /\ NoFailedTip' = NoFailedTip
    BY Zenon DEF FlagsIntact, NoFailedTip
  <2>3. \A b \in Block : Good(b)' <=> Good(b)
    BY <2>1, AncestorsRec, Zenon DEF Good, HasInvalidAncestor
  <2>4. ASSUME FlagsIntact, NEW b \in Block, Good(b) PROVE failed'[b] = {}
    <3>1. failed[b] = {}
      BY <2>4, Zenon DEF Marks
    <3>2. b \notin Ancestors[c] \ Ancestors[w]
      <4> SUFFICES ASSUME b \in Ancestors[c], b \notin Ancestors[w] PROVE FALSE
        BY Zenon
      <4>1. w \in Ancestors[b]
        BY AncestorsLine, Zenon
      <4>2. w \in Block /\ Good(w)
        BY <4>1, <2>4, GoodBranch, Zenon
      <4> QED BY <4>2, <2>4, Zenon DEF Marks
    <3> QED BY <3>1, <3>2, Zenon
  <2>5. FlagsIntact' /\ startTip' # NoBlock => Good(startTip)'
    <3>1. startTip # NoBlock => startTip \in Block
      BY Zenon DEF Basis, Types
    <3>2. startTip # NoBlock /\ Good(startTip) => Good(startTip)'
      BY <3>1, <2>1, AncestorsRec, Zenon DEF Good, HasInvalidAncestor
    <3> QED BY <3>1, <3>2, <2>2, Zenon DEF Marks
  <2> QED BY <2>1, <2>2, <2>3, <2>4, <2>5, Zenon DEF Marks, Basis, Types
<1>11. ASSUME NEW b \in Block \ {Genesis}, AcceptBlockHeader(b) PROVE Marks'
  <2> USE <1>11
  <2>1. CASE failed' = failed
    BY <2>1, <1>9, Zenon DEF AcceptBlockHeader, locals
  <2>2. ASSUME NEW f \in FailedAncestors(Parent[b]),
               failed' = [x \in Block |-> IF x \in Ancestors[Parent[b]] \ Ancestors[f]
                                            THEN failed[x] \cup {"CHILD"} ELSE failed[x]]
        PROVE  Marks'
    <3>1. f \in Ancestors[Parent[b]] /\ failed[f] # {} /\ Parent[b] \in Block
      BY ParentType, Zenon DEF FailedAncestors, Certain, Basis, Index
    <3>2. UNCHANGED <<have, linked, unlinked, startTip, done>>
      BY Zenon DEF AcceptBlockHeader, locals
    <3> QED BY <3>1, <3>2, <2>2, <1>10, Zenon
  <2> QED BY <2>1, <2>2, Zenon DEF AcceptBlockHeader
\* A step that gives FAILED_VALID to blocks that ConnectBlock rejects or whose
\* body is bad, or that the RPC invalidates.
<1>12. ASSUME UNCHANGED <<have, linked, unlinked, done>>, startTip' = startTip, NEW n \in Block,
              n \in Bad \cup BadBody \/ done.invalidate # 0,
              startTip # NoBlock => n \notin Ancestors[startTip],
              NoFailedTip => failed' = [x \in Block |-> IF x = n THEN failed[x] \cup {"VALID"} ELSE failed[x]],
              done.invalidate = 0 => NoFailedTip
       PROVE  Marks'
  <2> USE <1>12
  <2> USE DEF Certain
  <2>1. FlagsIntact' = FlagsIntact /\ NoFailedTip' = NoFailedTip
    BY Zenon DEF FlagsIntact, NoFailedTip
  <2>2. ASSUME FlagsIntact PROVE \A b \in Block : Good(b)' => Good(b)
    BY <2>1, <2>2, GoodShrinks, Zenon
  <2>3. ASSUME FlagsIntact, NEW b \in Block, Good(b)' PROVE failed'[b] = {}
    <3>1. NoFailedTip /\ (done.invalidate = 0 \/ done.reconsider = 0)
      BY <2>3, FlagsCases, Zenon DEF Basis
    <3>2. failed' = [x \in Block |-> IF x = n THEN failed[x] \cup {"VALID"} ELSE failed[x]]
      BY <3>1, Zenon
    <3>3. failed[b] = {}
      BY <2>2, <2>3, Zenon DEF Marks
    <3>4. b # n
      <4>1. CASE done.reconsider = 0
        BY <4>1, <3>2, <2>3, AncestorsRec, Zenon DEF Good, HasInvalidAncestor
      <4>2. CASE done.reconsider # 0
        BY <4>2, <3>1, <2>3, AncestorsRec, Zenon DEF Good
      <4> QED BY <4>1, <4>2, Zenon
    <3> QED BY <3>2, <3>3, <3>4, Zenon
  <2>4. ASSUME FlagsIntact, startTip # NoBlock PROVE Good(startTip)'
    <3>1. failed' = [x \in Block |-> IF x = n THEN failed[x] \cup {"VALID"} ELSE failed[x]]
      BY <2>4, FlagsCases, Zenon DEF Basis
    <3>2. Good(startTip) /\ startTip \in Block
      BY <2>4, Zenon DEF Marks, Basis, Types
    <3> QED BY <3>1, <3>2, <2>4, AncestorsRec, Zenon DEF Good, HasInvalidAncestor
  <2>5. done.invalidate = 0 => \A b \in Block : "VALID" \in failed'[b] => b \in Bad \cup BadBody
    BY Zenon DEF Marks
  <2> QED BY <2>1, <2>2, <2>3, <2>4, <2>5, Zenon DEF Marks, Basis, Types
<1>13. ASSUME NEW b \in Block, NEW requested \in BOOLEAN, AcceptBlock(b, requested) PROVE Marks'
  <2> USE <1>13
  <2> USE DEF Certain
  <2>0. /\ b # Genesis /\ b \notin have /\ startTip = NoBlock /\ startTip' = startTip /\ done' = done
        /\ b \notin linked /\ Parent[b] \in Block
    BY ParentType, Zenon DEF AcceptBlock, Takes, Basis, Index, Control, Locked, Unlocked, locals
  <2>1. CASE b \in BadBody
    <3>1. /\ failed' = [failed EXCEPT ![b] = @ \cup {"VALID"}]
          /\ UNCHANGED <<have, linked, unlinked, done>>
      BY <2>1, Zenon DEF AcceptBlock
    <3>2. failed' = [x \in Block |-> IF x = b THEN failed[x] \cup {"VALID"} ELSE failed[x]]
      BY <3>1, Zenon DEF Basis, Types
    <3> QED BY <2>0, <2>1, <3>1, <3>2, <1>12, Zenon DEF NoFailedTip
  <2>2. CASE b \notin BadBody
    <3>1. failed' = failed /\ have' = have \cup {b}
      BY <2>2, Zenon DEF AcceptBlock
    <3>2. \A x \in Block : Good(x)' <=> Good(x)
      BY <3>1, <2>0, Zenon DEF Good, HasInvalidAncestor
    <3>3. FlagsIntact' = FlagsIntact
      BY <2>0, Zenon DEF FlagsIntact
    <3>4. linked \cup unlinked \subseteq linked' \cup unlinked'
      <4>1. CASE Parent[b] \in linked
        BY <4>1, <2>2, Zenon DEF AcceptBlock, ReceivedBlockTransactions
      <4>2. CASE Parent[b] \notin linked
        BY <4>2, <2>2, Zenon DEF AcceptBlock, ReceivedBlockTransactions
      <4> QED BY <4>1, <4>2, Zenon
    <3>5. ASSUME FlagsIntact, Good(b) PROVE b \in linked' \cup unlinked'
      <4>1. CASE Parent[b] \in linked
        <5>1. b \in LinkedBy(b)
          BY <2>0, LinkedByBranch, Zenon DEF Basis
        <5> QED BY <5>1, <4>1, <2>2, Zenon DEF AcceptBlock, ReceivedBlockTransactions
      <4>2. CASE Parent[b] \notin linked
        <5>1. Parent[b] \in Ancestors[b]
          BY <2>0, AncestorsRec, Zenon
        <5>2. failed[Parent[b]] = {}
          BY <5>1, <3>5, <2>0, GoodBranch, Zenon DEF Marks
        <5> QED BY <5>2, <4>2, <2>2, Zenon DEF AcceptBlock, ReceivedBlockTransactions
      <4> QED BY <4>1, <4>2, Zenon
    <3>6. \A x \in have' : FlagsIntact /\ Good(x) => x \in linked' \cup unlinked'
      BY <3>1, <3>4, <3>5, Zenon DEF Marks
    <3> QED BY <2>0, <3>1, <3>2, <3>3, <3>6, Zenon DEF Marks, Basis, Types
  <2> QED BY <2>1, <2>2, Zenon
<1>14. ASSUME NEW b \in Block, ResetBlockFailureFlags(b) PROVE Marks'
  <2> USE <1>14
  <2> USE DEF Certain
  <2>1. \A x \in Block : failed'[x] = {} \/ failed'[x] = failed[x]
    BY Zenon DEF ResetBlockFailureFlags
  <2>2. UNCHANGED <<have, linked, unlinked, startTip>> /\ startTip = NoBlock
    BY Zenon DEF ResetBlockFailureFlags, locals, Basis, Control, Locked, Unlocked
  <2>3. (done.invalidate = 0)' => done.invalidate = 0
    BY ConditionsShrink, Zenon DEF Basis
  <2>4. FlagsIntact' => FlagsIntact
    BY ConditionsShrink, Zenon DEF Basis
  <2>5. ASSUME FlagsIntact' PROVE \A x \in Block : Good(x)' => Good(x)
    BY <2>5, GoodShrinks, Zenon
  <2> QED BY <2>1, <2>2, <2>3, <2>4, <2>5, Zenon DEF Marks, Basis, Types
<1>15. CASE Restart
  <2> USE <1>15
  <2> USE DEF Certain
  <2>1. /\ failed' = LoadedFailed /\ linked' = LoadedLinked /\ have' = have
        /\ unlinked' = {b \in have \ {Genesis} : Parent[b] \notin LoadedLinked}
        /\ startTip' = NoBlock
    BY Zenon DEF Restart
  <2>2. (done.invalidate = 0)' => done.invalidate = 0
    BY ConditionsShrink, Zenon DEF Basis
  <2>3. FlagsIntact' => FlagsIntact
    BY ConditionsShrink, Zenon DEF Basis
  <2>4. ASSUME FlagsIntact', NEW b \in Block, Good(b)' PROVE failed'[b] = {}
    <3>1. Good(b) /\ FlagsIntact
      BY <2>3, <2>4, GoodShrinks, Zenon
    <3>2. \A a \in Ancestors[b] : failed[a] = {}
      BY <3>1, GoodBranch, Zenon DEF Marks
    <3>3. b \in Ancestors[b]
      BY AncestorsRec, Zenon
    <3> QED BY <3>2, <3>3, <2>1, Zenon DEF LoadedFailed
  <2>5. \A b \in have : b \in linked' \cup unlinked'
    <3> SUFFICES ASSUME NEW b \in have, b # Genesis, Parent[b] \in LoadedLinked PROVE b \in LoadedLinked
      BY <2>1, LoadedBranch, Zenon
    <3>1. Ancestors[b] = {b} \cup Ancestors[Parent[b]]
      BY AncestorsRec, Zenon DEF Basis, Types
    <3> QED BY <3>1, Zenon DEF LoadedLinked, Basis, Types
  <2>6. \A b \in Block : "VALID" \in failed'[b] => "VALID" \in failed[b]
    BY <2>1, Zenon DEF LoadedFailed
  <2> QED BY <2>1, <2>2, <2>4, <2>5, <2>6, Zenon DEF Marks
<1>1. CASE UNCHANGED vars
  BY <1>1, <1>9, Zenon DEF vars, index, locals
<1>2. CASE ActivateBestChain \/ FlushStateToDisk \/ \E b \in Block : PreciousBlock(b) \/ InvalidateBlock(b)
  BY <1>2, <1>9, Zenon
     DEF ActivateBestChain, FlushStateToDisk, PreciousBlock, InvalidateBlock, index, locals
<1>3. CASE StartRound \/ NothingToActivate \/ DisconnectToFork \/ CheckProgress
  BY <1>3, <1>9, Zenon
     DEF StartRound, NothingToActivate, DisconnectToFork, CheckProgress, EndRound, index, locals
<1>4. CASE ConnectTip
  BY <1>4, <1>9, Zenon DEF ConnectTip, locals
<1>5. CASE DropFailedCandidate
  <2>1. UNCHANGED <<have, linked, unlinked, startTip, done>>
    BY <1>5, Zenon DEF DropFailedCandidate, locals
  <2> QED BY <2>1, <1>5, DroppedBranch, <1>10, Zenon DEF Certain
<1>6. CASE ConnectTipFails
  <2>1. PICK n \in Bad : failed' = [failed EXCEPT ![n] = @ \cup {"VALID"}]
    BY <1>6, Zenon DEF ConnectTipFails, InvalidBlockFound
  <2>2. n \in Block /\ UNCHANGED <<have, linked, unlinked, startTip, done>>
    BY <1>6, ChainAssumption, Zenon DEF ConnectTipFails
  <2>3. failed' = [x \in Block |-> IF x = n THEN failed[x] \cup {"VALID"} ELSE failed[x]]
    BY <2>1, <2>2, Zenon DEF Certain, Basis, Types
  <2>4. startTip # NoBlock => n \notin Ancestors[startTip]
    BY <2>2, Zenon DEF Certain, Basis, Tips, Sound
  <2> QED BY <2>1, <2>2, <2>3, <2>4, <1>12, Zenon DEF NoFailedTip
<1>7. CASE InvalidateStep
  <2>1. /\ UNCHANGED <<have, linked, unlinked, startTip, done>> /\ tip \in Block
        /\ done.invalidate # 0 /\ startTip = NoBlock
    BY <1>7, Zenon DEF InvalidateStep, locals, Certain, CleanTips, Basis, Control, Locked, Types
  <2>2. ASSUME NoFailedTip
        PROVE  failed' = [x \in Block |-> IF x = tip THEN failed[x] \cup {"VALID"} ELSE failed[x]]
    <3>1. Parent[tip] \in Ancestors[tip]
      BY <1>7, WalkedTip, Zenon DEF InvalidateStep, Certain
    <3>2. failed[Parent[tip]] = {}
      BY <2>2, <3>1, Zenon DEF CleanTips, Clean, Certain
    <3>3. ~(Parent[tip] = inv.mark /\ "VALID" \in failed[inv.mark])
      BY <3>2, Zenon
    <3> QED BY <1>7, <3>3, Zenon DEF InvalidateStep, WalkMark
  <2> QED BY <2>1, <2>2, <1>12, Zenon
<1>8. CASE InvalidateFinish
  <2>1. /\ UNCHANGED <<have, linked, unlinked, startTip, done>> /\ inv.mark \in Block
        /\ done.invalidate # 0 /\ startTip = NoBlock
        /\ failed' = [failed EXCEPT ![inv.mark] = @ \cup {"VALID"}]
    BY <1>8, Zenon DEF InvalidateFinish, locals, Certain, CleanTips, Basis, Control, Locked, Types
  <2>2. failed' = [x \in Block |-> IF x = inv.mark THEN failed[x] \cup {"VALID"} ELSE failed[x]]
    BY <2>1, Zenon DEF Certain, Basis, Types
  <2> QED BY <2>1, <2>2, <1>12, Zenon
<1> QED BY <1>1, <1>2, <1>3, <1>4, <1>5, <1>6, <1>7, <1>8, <1>11, <1>13, <1>14, <1>15, Zenon
     DEF Next, Activate

LEMMA CertainAlways == Spec => []Certain
<1>1. Init => Marks
  <2> SUFFICES ASSUME Init PROVE Marks
    BY Zenon
  <2> QED BY ParentType, Zenon DEF Init, Marks
<1> QED BY <1>1, MarksStep, BaseAlways, CleanAlways, PTL DEF Spec, Certain

-----------------------------------------------------------------------------
\* Which blocks wait for good, and what a new header stands on.

\* Some ancestor of b was not received and never will be.
Stuck(b) == \E x \in Ancestors[b] : x \notin have /\ failed[x] # {}

\* A block that is not linked and failed, or was received without being put
\* into unlinked, waits for a block that AcceptBlock does not take any more.
Waiting ==
  done.invalidate = 0 /\ done.reconsider = 0 =>
    /\ failedBlocks \subseteq linked
    /\ \A b \in Block \ linked : failed[b] # {} \/ b \in have \ unlinked => Stuck(b)

LEMMA WaitingStep == Basis /\ CleanTips /\ Waiting /\ [Next]_vars => Waiting'
<1> SUFFICES ASSUME Basis, CleanTips, Waiting, [Next]_vars PROVE Waiting'
  BY Zenon
<1>11. ASSUME NEW b \in Block \ {Genesis}, AcceptBlockHeader(b) PROVE Waiting'
  <2> USE <1>11
  <2> SUFFICES ASSUME done.invalidate = 0, done.reconsider = 0
               PROVE  /\ failedBlocks' \subseteq linked'
                      /\ \A d \in Block \ linked' : failed'[d] # {} \/ d \in have' \ unlinked' => Stuck(d)'
    BY Zenon DEF Waiting, AcceptBlockHeader
  <2>1. UNCHANGED <<failedBlocks, linked, have, unlinked>>
    BY Zenon DEF AcceptBlockHeader
  <2>2. CASE failed' = failed
    BY <2>1, <2>2, Zenon DEF Waiting, Stuck
  <2>3. ASSUME NEW f \in FailedAncestors(Parent[b]),
               failed' = [x \in Block |-> IF x \in Ancestors[Parent[b]] \ Ancestors[f]
                                            THEN failed[x] \cup {"CHILD"} ELSE failed[x]],
               NEW d \in Block \ linked, failed'[d] # {} \/ d \in have \ unlinked
        PROVE  Stuck(d)'
    <3> DEFINE prev == Parent[b]
    <3>0. prev \in Block
      BY ParentType, Zenon
    <3>1. f \in Ancestors[prev] /\ f \in linked /\ f \in Block
      BY <3>0, AncestorsRec, Zenon DEF FailedAncestors, Waiting
    <3>2. \A x \in Block : Stuck(x) => Stuck(x)'
      BY <2>1, <2>3, AncestorsRec, Zenon DEF Stuck
    <3>3. CASE failed[d] # {} \/ d \in have \ unlinked
      BY <3>2, <3>3, Zenon DEF Waiting
    <3>4. CASE d \in Ancestors[prev] \ Ancestors[f]
      <4>4. PICK y \in Ancestors[d] : y # Genesis /\ y \notin linked /\ Parent[y] \in linked
        BY LowestUnlinked, Zenon DEF Basis
      <4>5. y \in Block /\ y \in Ancestors[prev] /\ Ancestors[y] \subseteq Ancestors[d]
        BY <3>4, <3>0, AncestorsTransitive, Zenon
      <4>6. y \notin Ancestors[f]
        BY <3>1, <4>4, LinkedBranch, Zenon DEF Basis
      <4>7. failed'[y] # {}
        BY <2>3, <4>5, <4>6, Zenon
      <4>8. CASE y \notin have
        BY <4>7, <4>8, <2>1, Zenon DEF Stuck
      <4>9. CASE y \in have
        <5>1. y \notin unlinked
          BY <4>4, Zenon DEF Basis, Index
        <5>2. Stuck(y)'
          BY <5>1, <4>9, <4>5, <4>4, <3>2, Zenon DEF Waiting
        <5> QED BY <5>2, <4>5, Zenon DEF Stuck
      <4> QED BY <4>8, <4>9, Zenon
    <3> QED BY <3>3, <3>4, <2>3, Zenon
  <2> QED BY <2>1, <2>2, <2>3, Zenon DEF AcceptBlockHeader, Waiting
<1>12. ASSUME NEW b \in Block, NEW requested \in BOOLEAN, AcceptBlock(b, requested) PROVE Waiting'
  <2> USE <1>12
  <2> SUFFICES ASSUME done.invalidate = 0, done.reconsider = 0
               PROVE  /\ failedBlocks' \subseteq linked'
                      /\ \A d \in Block \ linked' : failed'[d] # {} \/ d \in have' \ unlinked' => Stuck(d)'
    BY Zenon DEF Waiting, AcceptBlock
  <2>0. /\ b # Genesis /\ b \notin have /\ failed[b] = {} /\ Parent[b] \in Block /\ failedBlocks' = failedBlocks
        /\ b \in Ancestors[b]
    BY ParentType, AncestorsRec DEF AcceptBlock, Takes, Basis, Index
  <2>1. CASE b \in BadBody
    <3>1. failed' = [failed EXCEPT ![b] = @ \cup {"VALID"}] /\ UNCHANGED <<have, linked, unlinked>>
      BY <2>1, Zenon DEF AcceptBlock
    <3>2. \A x \in Block : (failed[x] # {} => failed'[x] # {}) /\ (x # b => failed'[x] = failed[x])
      BY <3>1, Zenon DEF Basis, Types
    <3>3. \A x \in Block : Stuck(x) => Stuck(x)'
      BY <3>1, <3>2, AncestorsRec, Zenon DEF Stuck
    <3>4. failed'[b] # {}
      BY <3>1, Zenon DEF Basis, Types
    <3>5. Stuck(b)'
      BY <3>1, <3>4, <2>0, Zenon DEF Stuck
    <3> QED BY <2>0, <3>1, <3>2, <3>3, <3>5, Zenon DEF Waiting
  <2>2. CASE b \notin BadBody
    <3>1. failed' = failed /\ have' = have \cup {b}
      BY <2>2, Zenon DEF AcceptBlock
    <3>2. \A x \in Block : Stuck(x) => Stuck(x)'
      BY <3>1, <2>0, Zenon DEF Stuck
    <3>3. CASE Parent[b] \in linked
      <4>1. b \in LinkedBy(b)
        BY <2>0, LinkedByBranch, Zenon DEF Basis
      <4>2. linked' = linked \cup LinkedBy(b) /\ unlinked' = unlinked \ LinkedBy(b)
        BY <2>2, <3>3, Zenon DEF AcceptBlock, ReceivedBlockTransactions
      <4> QED BY <2>0, <3>1, <3>2, <4>1, <4>2, Zenon DEF Waiting
    <3>4. CASE Parent[b] \notin linked
      <4>1. linked' = linked /\ unlinked' = IF failed[Parent[b]] = {} THEN unlinked \cup {b} ELSE unlinked
        BY <2>2, <3>4, Zenon DEF AcceptBlock, ReceivedBlockTransactions
      <4>2. ASSUME failed[Parent[b]] # {} PROVE Stuck(b)'
        <5>1. Stuck(Parent[b])'
          BY <4>2, <3>2, <3>4, <2>0, Zenon DEF Waiting
        <5>2. Ancestors[Parent[b]] \subseteq Ancestors[b]
          BY <2>0, AncestorsRec, Zenon
        <5> QED BY <5>1, <5>2, Zenon DEF Stuck
      <4> QED BY <2>0, <3>1, <3>2, <4>1, <4>2, Zenon DEF Waiting
    <3> QED BY <3>3, <3>4, Zenon
  <2> QED BY <2>1, <2>2, Zenon
<1>13. CASE Restart
  <2> USE <1>13
  <2> SUFFICES ASSUME done.invalidate = 0, done.reconsider = 0
               PROVE  /\ failedBlocks' \subseteq linked'
                      /\ \A d \in Block \ linked' : failed'[d] # {} \/ d \in have' \ unlinked' => Stuck(d)'
    BY ConditionsShrink, Zenon DEF Waiting, Basis
  <2>1. /\ failed' = LoadedFailed /\ linked' = LoadedLinked /\ have' = have /\ failedBlocks' = {}
        /\ unlinked' = {b \in have \ {Genesis} : Parent[b] \notin LoadedLinked}
    BY Zenon DEF Restart
  <2>2. \A x \in Block : failed[x] # {} => failed'[x] # {}
    BY <2>1, Zenon DEF LoadedFailed
  <2>3. \A x \in Block : Stuck(x) => Stuck(x)'
    BY <2>1, <2>2, AncestorsRec, Zenon DEF Stuck
  <2>4. linked \subseteq LoadedLinked /\ Genesis \in LoadedLinked
    BY LoadedBranch, Zenon
  <2>5. ASSUME NEW d \in have, d \notin LoadedLinked PROVE d \in unlinked'
    <3>1. d # Genesis /\ d \in Block
      BY <2>4, <2>5, Zenon DEF Basis, Types
    <3>2. Ancestors[d] = {d} \cup Ancestors[Parent[d]]
      BY <3>1, AncestorsRec, Zenon
    <3>3. Parent[d] \notin LoadedLinked
      BY <2>5, <3>2, Zenon DEF LoadedLinked, Basis, Types
    <3> QED BY <3>1, <3>3, <2>1, Zenon
  <2>6. ASSUME NEW d \in Block, d \notin LoadedLinked, failed'[d] # {} PROVE Stuck(d)'
    <3>1. d \in known
      <4>1. d \notin known => failed[d] = {} /\ LoadedFailed[d] = failed[d]
        BY Zenon DEF Basis, Index, LoadedFailed
      <4> QED BY <4>1, <2>1, <2>6, Zenon
    <3>2. PICK a \in Ancestors[d] : failed[a] # {}
      BY <2>1, <2>6, AncestorsRec, Zenon DEF LoadedFailed
    <3>3. PICK x \in Ancestors[d] : x \notin have
      BY <2>6, <3>1, Zenon DEF LoadedLinked
    <3>4. a \in Block /\ x \in Block /\ x \in known
      BY <3>1, AncestorsRec, KnownBranch, Zenon DEF Basis
    <3>5. CASE a \in Ancestors[x]
      <4>1. LoadedFailed[x] # {}
        BY <3>2, <3>4, <3>5, Zenon DEF LoadedFailed
      <4> QED BY <4>1, <3>3, <2>1, Zenon DEF Stuck
    <3>6. CASE x \in Ancestors[a]
      <4>1. a \notin linked
        BY <3>3, <3>6, LinkedBranch, Zenon DEF Basis, Index
      <4>2. Stuck(a)'
        BY <4>1, <3>2, <3>4, <2>3, Zenon DEF Waiting
      <4>3. Ancestors[a] \subseteq Ancestors[d]
        BY AncestorsTransitive, Zenon
      <4> QED BY <4>2, <4>3, Zenon DEF Stuck
    <3> QED BY <3>5, <3>6, AncestorsLine, Zenon
  <2> QED BY <2>1, <2>5, <2>6, Zenon
<1>0. ((done.invalidate = 0)' => done.invalidate = 0) /\ ((done.reconsider = 0)' => done.reconsider = 0)
  BY ConditionsShrink, Zenon DEF Basis
<1>1. ASSUME UNCHANGED <<failed, have, linked, unlinked, failedBlocks>> PROVE Waiting'
  BY <1>0, <1>1, Zenon DEF Waiting, Stuck
<1>2. CASE UNCHANGED vars
  BY <1>1, <1>2, Zenon DEF vars, index
<1>3. CASE ActivateBestChain \/ FlushStateToDisk \/ \E b \in Block : PreciousBlock(b) \/ InvalidateBlock(b)
  BY <1>3, <1>1, Zenon
     DEF ActivateBestChain, FlushStateToDisk, PreciousBlock, InvalidateBlock, index
<1>4. CASE StartRound \/ NothingToActivate \/ DisconnectToFork \/ CheckProgress
  BY <1>4, <1>1, Zenon DEF StartRound, NothingToActivate, DisconnectToFork, CheckProgress, index
<1>5. CASE ConnectTip
  BY <1>5, <1>1, Zenon DEF ConnectTip
<1>6. ASSUME \A x \in Block : failed'[x] = failed[x] \/ (x \in linked /\ failed[x] \subseteq failed'[x]),
             UNCHANGED <<have, linked, unlinked>>, failedBlocks' \subseteq failedBlocks \cup linked
      PROVE  Waiting'
  <2>1. \A x \in Block : Stuck(x) => Stuck(x)'
    BY <1>6, AncestorsRec, Zenon DEF Stuck
  <2> QED BY <1>0, <1>6, <2>1, Zenon DEF Waiting
<1>7. CASE DropFailedCandidate
  <2>0. PICK c \in candidates : \E w \in Ancestors[c] :
           failed' = [x \in Block |-> IF x \in Ancestors[c] \ Ancestors[w]
                                        THEN failed[x] \cup {"CHILD"} ELSE failed[x]]
    BY <1>7, DroppedBranch, Zenon
  <2>1. PICK w \in Ancestors[c] :
           failed' = [x \in Block |-> IF x \in Ancestors[c] \ Ancestors[w]
                                        THEN failed[x] \cup {"CHILD"} ELSE failed[x]]
    BY <2>0, Zenon
  <2>2. Ancestors[c] \subseteq linked
    BY LinkedBranch, Zenon DEF Basis, Index
  <2>3. UNCHANGED <<have, linked, unlinked, failedBlocks>>
    BY <1>7, Zenon DEF DropFailedCandidate
  <2> QED BY <2>1, <2>2, <2>3, <1>6, Zenon
<1>8. CASE ConnectTipFails
  <2>1. mostWork \in Block /\ mostWork \in linked
    BY <1>8, ChainAssumption, Zenon DEF ConnectTipFails, Basis, Control, Types, Tips
  <2>2. PICK n \in Bad :
          /\ NextToConnect(n) /\ failed' = [failed EXCEPT ![n] = @ \cup {"VALID"}]
          /\ failedBlocks' = failedBlocks \cup {n}
    BY <1>8, Zenon DEF ConnectTipFails, InvalidBlockFound
  <2>3. n \in linked /\ n \in Block
    BY <2>1, <2>2, NextBlock, LinkedBranch, Zenon DEF Basis
  <2>4. UNCHANGED <<have, linked, unlinked>>
    BY <1>8, Zenon DEF ConnectTipFails
  <2> QED BY <2>2, <2>3, <2>4, <1>6, Zenon DEF Basis, Types
<1>9. CASE InvalidateStep \/ InvalidateFinish
  <2>1. done.invalidate # 0
    BY <1>9, Zenon DEF InvalidateStep, InvalidateFinish, CleanTips
  <2> QED BY <2>1, <1>0, Zenon DEF Waiting
<1>10. ASSUME NEW b \in Block, ResetBlockFailureFlags(b) PROVE Waiting'
  <2>1. done'.reconsider = done.reconsider + 1 /\ done.reconsider \in Nat
    BY <1>10, UsesCount, Zenon DEF ResetBlockFailureFlags, Basis, Ops, Types
  <2>2. done'.reconsider # 0
    BY <2>1
  <2> QED BY <2>2, Zenon DEF Waiting
<1> QED BY <1>2, <1>3, <1>4, <1>5, <1>7, <1>8, <1>9, <1>10, <1>11, <1>12, <1>13, Zenon
     DEF Next, Activate

\* A block that is not marked failed descends from no block that ConnectTip
\* found invalid, unless that one is still in m_failed_blocks.
Avoid ==
  done.invalidate = 0 =>
    \A x \in known : failed[x] = {} =>
      \A a \in Ancestors[x] : "VALID" \in failed[a] => a \in BadBody \cup failedBlocks

LEMMA AvoidStep == Basis /\ CleanTips /\ Avoid /\ [Next]_vars => Avoid'
<1> SUFFICES ASSUME Basis, CleanTips, Avoid, [Next]_vars, done'.invalidate = 0
             PROVE  \A x \in known' : failed'[x] = {} =>
                      \A a \in Ancestors[x] : "VALID" \in failed'[a] => a \in BadBody \cup failedBlocks'
  BY Zenon DEF Avoid
<1>0. done.invalidate = 0
  BY ConditionsShrink, Zenon DEF Basis
<1> DEFINE Goal == \A x \in known' : failed'[x] = {} =>
                     \A a \in Ancestors[x] : "VALID" \in failed'[a] => a \in BadBody \cup failedBlocks'
<1>1. ASSUME known' = known, failedBlocks \subseteq failedBlocks',
             \A x \in Block : /\ failed[x] \subseteq failed'[x]
                              /\ "VALID" \in failed'[x] => "VALID" \in failed[x] \/ x \in BadBody \cup failedBlocks'
      PROVE  Goal
  <2> SUFFICES ASSUME NEW x \in known, failed'[x] = {}, NEW a \in Ancestors[x], "VALID" \in failed'[a]
               PROVE  a \in BadBody \cup failedBlocks'
    BY <1>1, Zenon
  <2>1. x \in Block /\ a \in Block /\ failed[x] = {}
    BY <1>1, AncestorsRec, Zenon DEF Basis, Types
  <2> QED BY <2>1, <1>0, <1>1, Zenon DEF Avoid
<1>2. CASE UNCHANGED vars
  BY <1>1, <1>2, Zenon DEF vars, index
<1>3. CASE ActivateBestChain \/ FlushStateToDisk \/ \E b \in Block : PreciousBlock(b) \/ InvalidateBlock(b)
  BY <1>3, <1>1, Zenon
     DEF ActivateBestChain, FlushStateToDisk, PreciousBlock, InvalidateBlock, index
<1>4. CASE StartRound \/ NothingToActivate \/ DisconnectToFork \/ CheckProgress
  BY <1>4, <1>1, Zenon DEF StartRound, NothingToActivate, DisconnectToFork, CheckProgress, index
<1>5. CASE ConnectTip
  BY <1>5, <1>1, Zenon DEF ConnectTip
<1>6. CASE DropFailedCandidate
  <2>1. UNCHANGED <<known, failedBlocks>>
    BY <1>6, Zenon DEF DropFailedCandidate
  <2> QED BY <2>1, <1>1, <1>6, DroppedBranch
<1>7. CASE ConnectTipFails
  BY <1>7, <1>1 DEF ConnectTipFails, InvalidBlockFound, Basis, Types
<1>8. CASE InvalidateStep \/ InvalidateFinish
  BY <1>8, <1>0, Zenon DEF InvalidateStep, InvalidateFinish, CleanTips
<1>9. ASSUME NEW b \in Block, NEW requested \in BOOLEAN, AcceptBlock(b, requested) PROVE Goal
  <2>1. known' = known /\ failedBlocks \subseteq failedBlocks'
    BY <1>9, Zenon DEF AcceptBlock
  <2>2. failed' = failed \/ (b \in BadBody /\ failed' = [failed EXCEPT ![b] = @ \cup {"VALID"}])
    BY <1>9, Zenon DEF AcceptBlock
  <2>3. \A x \in Block : /\ failed[x] \subseteq failed'[x]
                         /\ "VALID" \in failed'[x] => "VALID" \in failed[x] \/ x \in BadBody \cup failedBlocks'
    BY <2>2 DEF Basis, Types
  <2> HIDE DEF Goal
  <2> QED BY <1>1, <2>1, <2>3, Zenon
<1>10. ASSUME NEW b \in Block \ {Genesis}, AcceptBlockHeader(b) PROVE Goal
  <2>1. failedBlocks' = failedBlocks
    BY <1>10, Zenon DEF AcceptBlockHeader
  <2>2. CASE known' = known \cup {b} /\ failed' = failed
    <3>1. ASSUME NEW a \in Ancestors[b], "VALID" \in failed[a] PROVE a \in BadBody \cup failedBlocks
      <4>1. failed[b] = {} /\ Parent[b] \in known /\ failed[Parent[b]] = {}
        BY <1>10, Zenon DEF AcceptBlockHeader, Basis, Index
      <4>2. a \in Ancestors[Parent[b]]
        BY <3>1, <4>1, AncestorsRec
      <4> QED BY <4>1, <4>2, <3>1, <1>0, Zenon DEF Avoid
    <3> QED BY <2>1, <2>2, <3>1, <1>0, Zenon DEF Avoid
  <2>3. CASE ~(known' = known \cup {b} /\ failed' = failed)
    BY <1>10, <2>1, <2>3, <1>1 DEF AcceptBlockHeader
  <2> QED BY <2>2, <2>3, Zenon
<1>11. ASSUME NEW b \in Block, ResetBlockFailureFlags(b) PROVE Goal
  <2> DEFINE cleared == {d \in Descendants(b) \cap known : failed[d] # {} \/ d \notin have}
  <2>1. /\ known' = known
        /\ failed' = [x \in Block |-> IF x \in cleared \cup Ancestors[b] THEN {} ELSE failed[x]]
        /\ failedBlocks' = failedBlocks \ (cleared \cup {a \in Ancestors[b] : failed[a] # {}})
    BY <1>11, Zenon DEF ResetBlockFailureFlags
  <2> SUFFICES ASSUME NEW x \in known, failed'[x] = {}, NEW a \in Ancestors[x], "VALID" \in failed'[a]
               PROVE  a \in BadBody \cup failedBlocks'
    BY <2>1, Zenon
  <2>2. x \in Block /\ a \in Block /\ a \in known
    BY AncestorsRec, KnownBranch, Zenon DEF Basis, Types
  <2>3. a \notin cleared /\ a \notin Ancestors[b] /\ "VALID" \in failed[a]
    BY <2>1, <2>2, Zenon
  <2>4. CASE failed[x] = {}
    BY <2>1, <2>3, <2>4, <1>0, Zenon DEF Avoid
  <2>5. CASE x \in Ancestors[b]
    BY <2>5, <2>3, AncestorsTransitive, Zenon
  <2>6. CASE x \in cleared
    <3>1. b \in Ancestors[x]
      BY <2>6, Zenon DEF Descendants
    <3>2. b \in Ancestors[a]
      BY <3>1, <2>2, <2>3, AncestorsLine, Zenon
    <3> QED BY <3>2, <2>2, <2>3, Zenon DEF Descendants
  <2> QED BY <2>1, <2>2, <2>4, <2>5, <2>6, Zenon
<1>12. CASE Restart
  <2>1. failed' = LoadedFailed /\ known' = known
    BY <1>12, Zenon DEF Restart
  <2> SUFFICES ASSUME NEW x \in known, failed'[x] = {}, NEW a \in Ancestors[x], "VALID" \in failed'[a]
               PROVE  FALSE
    BY <2>1, Zenon
  <2>2. x \in Block /\ a \in Block
    BY AncestorsRec, Zenon DEF Basis, Types
  <2>3. failed[a] # {}
    BY <2>1, <2>2, Zenon DEF LoadedFailed
  <2> QED BY <2>1, <2>2, <2>3, Zenon DEF LoadedFailed
<1> QED BY <1>2, <1>3, <1>4, <1>5, <1>6, <1>7, <1>8, <1>9, <1>10, <1>11, <1>12, Zenon
           DEF Next, Activate

LEMMA WaitingAlways == Spec => [](Waiting /\ Avoid)
<1>1. Init => Waiting /\ Avoid
  <2> SUFFICES ASSUME Init PROVE Waiting /\ Avoid
    BY Zenon
  <2>1. \A x \in Block : failed[x] = {}
    BY Zenon DEF Init
  <2>2. Ancestors[Genesis] = {Genesis} /\ Genesis \in Block
    BY AncestorsRec, ParentType, Zenon
  <2>3. known = {Genesis} /\ have = {Genesis} /\ linked = {Genesis} /\ failedBlocks = {}
    BY Zenon DEF Init
  <2>4. Waiting
    BY <2>1, <2>3, Zenon DEF Waiting
  <2>5. Avoid
    BY <2>1, <2>2, <2>3, Zenon DEF Avoid
  <2> QED BY <2>4, <2>5, Zenon
<1> QED BY <1>1, WaitingStep, AvoidStep, BaseAlways, CleanAlways, PTL DEF Spec

\* No header enters the index above a block that ConnectTip found invalid.
THEOREM HeadersStandOnValid == Spec => HeadersAvoidFailed
<1> DEFINE A == done.invalidate = 0 =>
                  \A b \in known' \ known : \A a \in Ancestors[b] : "VALID" \in failed[a] => a \in BadBody
<1>1. Certain /\ Avoid /\ [Next]_vars => [A]_vars
  <2> SUFFICES ASSUME Certain, Avoid, [Next]_vars, done.invalidate = 0,
                      NEW b \in known' \ known, NEW a \in Ancestors[b], "VALID" \in failed[a]
               PROVE  a \in BadBody
    BY Zenon
  <2> USE DEF Certain
  <2>1. PICK c \in Block \ {Genesis} : AcceptBlockHeader(c)
    BY Zenon DEF Next, Activate, vars, index, AcceptBlock, ActivateBestChain, StartRound,
       DropFailedCandidate, NothingToActivate, DisconnectToFork, ConnectTip, ConnectTipFails,
       CheckProgress, PreciousBlock, InvalidateBlock, InvalidateStep, InvalidateFinish,
       ResetBlockFailureFlags, FlushStateToDisk, Restart
  <2> DEFINE prev == Parent[b]
  <2>2. c = b /\ b \in Block \ {Genesis} /\ prev \in known /\ failed[prev] = {} /\ FailedAncestors(prev) = {}
    BY <2>1, Zenon DEF AcceptBlockHeader
  <2>3. failed[b] = {}
    BY <2>2, Zenon DEF Basis, Index
  <2>4. a \in Ancestors[prev]
    BY <2>2, <2>3, AncestorsRec
  <2>5. a \in BadBody \cup failedBlocks
    BY <2>2, <2>4, Zenon DEF Avoid
  <2>6. CASE prev \in scripts
    <3>1. Ancestors[prev] \subseteq have \ Bad
      BY <2>6, Zenon DEF Basis, Tips, Sound
    <3>2. a \in Block
      BY <2>2, <2>4, ParentType, AncestorsRec, Zenon
    <3> QED BY <3>1, <3>2, <2>4, Zenon DEF Marks
  <2>7. CASE prev \notin scripts
    BY <2>7, <2>2, <2>4, <2>5, Zenon DEF FailedAncestors
  <2> QED BY <2>6, <2>7, Zenon
<1> QED BY <1>1, CertainAlways, WaitingAlways, PTL DEF Spec, HeadersAvoidFailed

-----------------------------------------------------------------------------
\* The candidates and the tip.

\* The sequence ids that preciousblock gives out go below all others, while it
\* was called once at most.
Sequence ==
  /\ done.precious = 0 => revSeq = -1 /\ \A b \in Block : seq[b] >= 0
  /\ done.precious <= 1 => \A b \in Block : seq[b] >= -1

LEMMA SequenceStep == Basis /\ Sequence /\ [Next]_vars => Sequence'
<1> SUFFICES ASSUME Basis, Sequence, [Next]_vars PROVE Sequence'
  BY Zenon
<1>0. done.precious \in Nat /\ done'.precious \in Nat /\ done.precious <= done'.precious
  BY DoneGrows, Zenon DEF Basis, Ops
<1>1. ASSUME revSeq' \in {revSeq, -1}, \A b \in Block : seq'[b] = seq[b] \/ (seq'[b] \in Int /\ seq'[b] >= 0)
      PROVE  Sequence'
  <2>1. \A b \in Block : seq[b] \in Int /\ seq'[b] \in Int
    BY <1>1, Zenon DEF Basis, Types
  <2> QED BY <1>0, <1>1, <2>1 DEF Sequence
<1>2. CASE UNCHANGED vars
  BY <1>1, <1>2, Zenon DEF vars, order
<1>3. CASE Activate \/ ActivateBestChain
  BY <1>3, <1>1, Zenon DEF Activate, ActivateBestChain, StartRound, DropFailedCandidate,
     NothingToActivate, DisconnectToFork,
     ConnectTip, ConnectTipFails, CheckProgress, order
<1>4. CASE InvalidateStep \/ InvalidateFinish \/ FlushStateToDisk \/ \E b \in Block : InvalidateBlock(b)
  BY <1>4, <1>1, Zenon
     DEF InvalidateStep, InvalidateFinish, FlushStateToDisk, InvalidateBlock, order
<1>5. CASE \E b \in Block : ResetBlockFailureFlags(b)
  BY <1>5, <1>1, Zenon DEF ResetBlockFailureFlags, order
<1>6. CASE \E b \in Block \ {Genesis} : AcceptBlockHeader(b)
  BY <1>6, <1>1, Zenon DEF AcceptBlockHeader, order
<1>7. CASE Restart
  BY <1>7, <1>1 DEF Restart
<1>8. ASSUME NEW b \in Block, NEW requested \in BOOLEAN, AcceptBlock(b, requested) PROVE Sequence'
  <2>1. revSeq' = revSeq
    BY <1>8, Zenon DEF AcceptBlock
  <2>2. CASE seq' = seq
    BY <2>1, <2>2, <1>1, Zenon
  <2>3. CASE seq' # seq
    <3>1. b # Genesis /\ b \notin have
      BY <1>8, Zenon DEF AcceptBlock, Takes, Basis, Index
    <3>2. PICK f \in Orders(LinkedBy(b)) : seq' = [x \in Block |-> IF x \in LinkedBy(b) THEN f[x] ELSE seq[x]]
      BY <1>8, <2>3, Zenon DEF AcceptBlock, ReceivedBlockTransactions
    <3>3. \A x \in LinkedBy(b) : f[x] \in nextSeq..(nextSeq + Cardinality(LinkedBy(b)) - 1)
      BY <3>2, Zenon DEF Orders
    <3>4. Cardinality(LinkedBy(b)) \in Nat /\ nextSeq \in Nat
      BY <3>1, LinkedByBranch, Zenon DEF Basis, Types
    <3>5. \A x \in LinkedBy(b) : f[x] \in Int /\ f[x] >= 0
      BY <3>3, <3>4
    <3> QED BY <2>1, <3>2, <3>5, <1>1, Zenon
  <2> QED BY <2>2, <2>3, Zenon
<1>9. ASSUME NEW b \in Block, PreciousBlock(b) PROVE Sequence'
  <2> DEFINE rev == IF Work[tip] > lastPrecious THEN -1 ELSE revSeq
  <2>1. done'.precious = done.precious + 1
    BY <1>9, UsesCount, Zenon DEF PreciousBlock, Basis, Ops
  <2>2. seq' = [seq EXCEPT ![b] = rev]
    BY <1>9, Zenon DEF PreciousBlock
  <2>3. done'.precious <= 1 => rev = -1 /\ \A x \in Block : seq[x] >= 0
    BY <2>1, <1>0 DEF Sequence
  <2>4. \A x \in Block : seq[x] \in Int
    BY Zenon DEF Basis, Types
  <2> HIDE DEF rev
  <2>5. done'.precious <= 1 => \A x \in Block : seq'[x] >= -1
    BY <2>2, <2>3, <2>4 DEF Basis, Types
  <2>6. done'.precious # 0
    BY <2>1, <1>0
  <2> QED BY <2>5, <2>6, Zenon DEF Sequence
<1> QED BY <1>2, <1>3, <1>4, <1>5, <1>6, <1>7, <1>8, <1>9, Zenon DEF Next

\* No candidate is worse than the tip.
NoneWorse == \A c \in candidates : ~Worse(seq, c, tip)

\* Every good block that is not worse than the tip is a candidate; during a
\* round, when it is not worse than the tip at the start of the round either.
Complete ==
  /\ pc \in {"idle", "loop"} =>
       \A b \in linked : Good(b) /\ ~Worse(seq, b, tip) => b \in candidates
  /\ Locked =>
       \A b \in linked : Good(b) /\ ~Worse(seq, b, tip) /\ ~Worse(seq, b, startTip)
                            => b \in candidates
  /\ pc = "invalidate" => tip \in candidates

\* The target of a round is a candidate and no step back; it is the best one
\* unless something happened since cs_main was released.
Aim ==
  mostWork # NoBlock =>
    /\ mostWork \in candidates
    /\ Locked => ~Worse(seq, mostWork, startTip)
    /\ pc = "find" => tip # mostWork
    /\ wanted = FALSE => \A c \in candidates : ~Worse(seq, mostWork, c)

\* When ActivateBestChain has returned the tip is the best candidate.
Settled == pc = "idle" /\ wanted = FALSE => \A c \in candidates : ~Worse(seq, tip, c)

Chosen == NoneWorse /\ Complete /\ Aim /\ Settled
Choice == Intact => Chosen

LEMMA Order ==
  ASSUME Types
  PROVE  \A a, b, c \in Block :
           /\ ~Worse(seq, a, a)
           /\ Worse(seq, a, b) => ~Worse(seq, b, a)
           /\ Worse(seq, a, b) /\ Worse(seq, b, c) => Worse(seq, a, c)
           /\ a # b => Worse(seq, a, b) \/ Worse(seq, b, a)
BY WorseOrder, Zenon DEF Types

\* The tip is a good block, so it is a candidate while cs_main is free.
LEMMA TipGood ==
  ASSUME Certain, Intact
  PROVE  Good(tip)
<1>1. Clean(tip)
  BY FlagsCases, Zenon DEF Intact, Certain, Basis, CleanTips
<1>2. Ancestors[tip] \cap (Bad \cup BadBody) = {}
  BY Zenon DEF Certain, Basis, Tips, Sound, Index
<1> QED BY <1>1, <1>2, Zenon DEF Good, HasInvalidAncestor, Clean

LEMMA TipCandidate ==
  ASSUME Certain, Intact, Chosen, Unlocked
  PROVE  tip \in candidates
<1>1. tip \in linked /\ ~Worse(seq, tip, tip)
  BY Order, Zenon DEF Certain, Basis, Types, Tips
<1> QED BY <1>1, TipGood, Zenon DEF Chosen, Complete, Unlocked

\* During a round the tip at its start is a candidate unless the tip is better.
LEMMA StartCandidate ==
  ASSUME Certain, Intact, Chosen, Locked
  PROVE  /\ startTip \in Block
         /\ ~Worse(seq, startTip, tip) => startTip \in candidates
         /\ ~Worse(seq, tip, startTip) => tip \in candidates
<1>1. startTip \in Block /\ startTip \in linked /\ Good(startTip)
  BY Zenon DEF Intact, Certain, Basis, Types, Control, Tips, Marks
<1>2. tip \in Block /\ tip \in linked /\ Good(tip)
  BY TipGood, Zenon DEF Certain, Basis, Types, Tips
<1>3. ~Worse(seq, tip, tip) /\ ~Worse(seq, startTip, startTip)
  BY <1>1, <1>2, Order, Zenon DEF Certain, Basis
<1> QED BY <1>1, <1>2, <1>3, Zenon DEF Chosen, Complete

\* FindMostWorkChain returns the best candidate, which is no step back.
LEMMA TargetBest ==
  ASSUME Certain, Chosen, Intact, pc = "find", mostWork = NoBlock, NEW t \in Targets
  PROVE  /\ t \in candidates /\ t \in Block
         /\ \A c \in candidates : ~Worse(seq, t, c)
         /\ ~Worse(seq, t, startTip)
<1>1. startTip \in Block /\ tip \in Block /\ Locked
  BY StartCandidate, Zenon DEF Certain, Basis, Types, Locked
<1>2. ~Worse(seq, startTip, tip)
  BY <1>1, Order, Zenon DEF Certain, Basis, Control
<1>3. startTip \in candidates
  BY <1>1, <1>2, StartCandidate, Zenon
<1>4. Best(t)
  BY <1>3, Zenon DEF Targets, Usable
<1>5. candidates \subseteq Block /\ seq \in [Block -> Int]
  BY Zenon DEF Certain, Basis, Types, Index
<1> QED BY <1>3, <1>4, <1>5, BestIsBest, Zenon

\* The sequence id that preciousblock gives a block is below that of the tip.
LEMMA PreciousOrder ==
  ASSUME Basis, Sequence, Intact', NEW b \in Block, PreciousBlock(b)
  PROVE  /\ \A x \in Block : x # b => seq'[x] = seq[x]
         /\ seq'[b] \in Int /\ seq'[b] <= seq[tip]
         /\ \A x \in Block : Worse(seq, x, tip) => Worse(seq', x, tip) \/ x = b
<1> DEFINE rev == IF Work[tip] > lastPrecious THEN -1 ELSE revSeq
<1>0. \A x \in Block : seq[x] \in Int /\ Work[x] \in Nat /\ Addr[x] \in Nat
  BY WorkType, ChainAssumption, Zenon DEF Basis, Types
<1>1. rev \in Int /\ rev <= -1
  BY DEF Basis, Types, Index
<1>2. seq' = [seq EXCEPT ![b] = rev]
  BY Zenon DEF PreciousBlock
<1>3. done'.precious = done.precious + 1 /\ done'.precious <= 2 /\ done.precious \in Nat
  BY UsesCount, Zenon DEF PreciousBlock, Basis, Ops, Intact, Types
<1>4. \A x \in Block : seq[x] >= -1
  BY <1>3 DEF Sequence
<1> HIDE DEF rev
<1>5. \A x \in Block : x # b => seq'[x] = seq[x]
  BY <1>2, Zenon DEF Basis, Types
<1>6. tip \in Block
  BY Zenon DEF Basis, Types
<1>7. seq'[b] = rev
  BY <1>2, Zenon DEF Basis, Types
<1>8. seq'[b] \in Int /\ seq'[b] <= seq[tip]
  BY <1>0, <1>1, <1>4, <1>6, <1>7
<1>9. seq'[tip] \in Int /\ seq'[tip] <= seq[tip]
  BY <1>0, <1>5, <1>6, <1>8
<1>10. ASSUME NEW x \in Block, Worse(seq, x, tip), x # b PROVE Worse(seq', x, tip)
  <2>1. seq'[x] = seq[x]
    BY <1>5, <1>10, Zenon
  <2> QED BY <2>1, <1>0, <1>6, <1>9, <1>10 DEF Worse
<1> QED BY <1>5, <1>8, <1>10, Zenon

LEMMA ChoiceStep ==
  Certain /\ Certain' /\ Sequence /\ Choice /\ [Next]_vars => Choice'
<1> SUFFICES ASSUME Certain, Certain', Sequence, Chosen, [Next]_vars, Intact, Intact'
             PROVE  Chosen'
  BY ConditionsShrink, Zenon DEF Certain, Basis, Choice
<1>0. \A b \in linked : Good(b)' => Good(b)
  BY GoodShrinks, Zenon DEF Intact, Certain, Basis, Types, Index
<1>12. ASSUME UNCHANGED <<seq, candidates, tip, linked, pc, mostWork, startTip, wanted>>
       PROVE  Chosen'
  <2> USE <1>12
  <2> QED BY <1>0, Zenon DEF Chosen, NoneWorse, Complete, Aim, Settled, Locked
<1>13. ASSUME NEW b \in Block, NEW requested \in BOOLEAN, AcceptBlock(b, requested),
              b \notin BadBody
       PROVE  Chosen'
  <2> USE <1>13
  <2>0. /\ b # Genesis /\ b \notin have /\ Unlocked /\ wanted' = TRUE
        /\ UNCHANGED <<tip, pc, mostWork, startTip, failed, done>>
    BY DEF AcceptBlock, Takes, Certain, Basis, Index, locals
  <2>1. \A x \in Block : Good(x)' => Good(x)
    BY GoodShrinks, Zenon DEF Intact, Certain
  <2>2. linked \subseteq Block /\ candidates \subseteq linked /\ tip \in linked
    BY Zenon DEF Certain, Basis, Types, Index, Tips
  <2>3. ~Locked' /\ ~Locked
    BY <2>0, Zenon DEF Unlocked, Locked
  <2>4. CASE Parent[b] \in linked
    <3> DEFINE S == LinkedBy(b)
    <3>1. PICK f : /\ seq' = [x \in Block |-> IF x \in S THEN f[x] ELSE seq[x]]
                   /\ linked' = linked \cup S
                   /\ candidates' = candidates \cup {x \in S : ~Worse(seq', x, tip)}
      BY <2>4, Zenon DEF AcceptBlock, ReceivedBlockTransactions
    <3>2. S \cap linked = {}
      BY <2>0, LinkedByBranch DEF Certain, Basis, Index
    <3> HIDE DEF S
    <3>3. \A x \in linked : seq'[x] = seq[x]
      BY <3>1, <3>2, <2>2, Zenon
    <3>4. \A x \in linked : Worse(seq', x, tip) <=> Worse(seq, x, tip)
      BY <3>3, <2>2, WorseLocal, Zenon
    <3>5. NoneWorse'
      BY <3>1, <3>4, <2>0, <2>2, Zenon DEF NoneWorse, Chosen
    <3>6. Complete'
      BY <3>1, <3>4, <2>0, <2>1, <2>2, <2>3, Zenon DEF Complete, Chosen
    <3>7. Aim' /\ Settled'
      BY <3>1, <2>0, <2>3, Zenon DEF Aim, Settled, Chosen, Unlocked
    <3> QED BY <3>5, <3>6, <3>7, Zenon DEF Chosen
  <2>5. CASE Parent[b] \notin linked
    <3>1. UNCHANGED <<linked, seq, candidates>>
      BY <2>5, Zenon DEF AcceptBlock, ReceivedBlockTransactions
    <3> QED BY <3>1, <2>0, <2>1, <2>2, <2>3, Zenon
               DEF Chosen, NoneWorse, Complete, Aim, Settled, Unlocked
  <2> QED BY <2>4, <2>5, Zenon
<1>14. CASE StartRound
  <2> USE <1>14
  <2>0. /\ pc = "loop" /\ startTip' = tip /\ pc' = "find"
        /\ UNCHANGED <<seq, candidates, tip, linked, mostWork, wanted>>
    BY Zenon DEF StartRound, index, order
  <2>2. mostWork # NoBlock => mostWork \in Block /\ tip \in Ancestors[mostWork] /\ tip # mostWork
    BY <2>0, Zenon DEF Certain, Basis, Types, Control
  <2>3. mostWork # NoBlock => ~Worse(seq, mostWork, tip)
    BY <2>2, WorseAncestor, Zenon DEF Certain, Basis, Types
  <2> QED BY <2>0, <1>0, <2>2, <2>3, Zenon DEF Chosen, NoneWorse, Complete, Aim, Settled, Locked
<1>15. CASE DropFailedCandidate
  <2> USE <1>15
  <2>0. /\ pc = "find" /\ mostWork = NoBlock
        /\ UNCHANGED <<seq, tip, linked, pc, mostWork, startTip, wanted>>
    BY Zenon DEF DropFailedCandidate, order, locals
  <2>1. PICK c \in candidates : \E w \in Ancestors[c] :
           c \in Block /\ failed[w] # {} /\ candidates' = candidates \ Erased(c, w)
    BY DroppedBranch, Zenon DEF Certain
  <2>2. PICK w \in Ancestors[c] :
           c \in Block /\ failed[w] # {} /\ candidates' = candidates \ Erased(c, w)
    BY <2>1, Zenon
  <2>3. w \in Block
    BY <2>2, AncestorsRec, Zenon
  <2>4. ASSUME NEW b \in linked, b \in Erased(c, w), Good(b)' PROVE FALSE
    <3>1. b \in Ancestors[c] /\ b \in Block /\ (b = w \/ b \notin Ancestors[w])
      BY <2>2, <2>4, AncestorsRec, Zenon DEF Erased
    <3>2. w \in Ancestors[b]
      BY <2>2, <2>3, <3>1, AncestorsLine, AncestorsRec, Zenon
    <3>3. Good(w)
      BY <2>4, <3>1, <3>2, GoodShrinks, GoodBranch, Zenon DEF Intact, Certain
    <3> QED BY <3>3, <2>2, <2>3, Zenon DEF Intact, Certain, Marks
  <2>6. NoneWorse'
    BY <2>0, <2>2, Zenon DEF Chosen, NoneWorse
  <2>7. Complete'
    BY <2>0, <2>2, <2>4, <1>0, Zenon DEF Chosen, Complete, Locked
  <2> QED BY <2>6, <2>7, <2>0, Zenon DEF Chosen, Aim, Settled
<1>16. CASE NothingToActivate
  <2> USE <1>16
  <2>0. pc = "find" /\ UNCHANGED <<seq, candidates, tip, linked, wanted>>
    BY Zenon DEF NothingToActivate, index, order
  <2>1. PICK t \in Targets \cap {NoBlock, tip} : EndRound(t, oldTip # NoBlock)
    BY Zenon DEF NothingToActivate
  <2>2. mostWork = NoBlock
    BY <2>0, Zenon DEF Targets, Chosen, Aim
  <2>3. /\ t = tip /\ ~Worse(seq, tip, startTip)
        /\ \A c \in candidates : ~Worse(seq, tip, c)
    BY <2>0, <2>2, TargetBest, ChainAssumption, Zenon
  <2>4. pc' = "idle" /\ mostWork' = NoBlock /\ startTip' = NoBlock
    BY <2>1, <2>3, Zenon DEF EndRound
  <2>5. startTip = tip
    BY <2>0, <2>3, Zenon DEF Certain, Basis, Control
  <2> QED BY <2>0, <2>3, <2>4, <2>5, <1>0, Zenon
             DEF Chosen, NoneWorse, Complete, Aim, Settled, Locked
<1>17. CASE DisconnectToFork
  <2> USE <1>17
  <2>0. /\ pc = "find" /\ pc' \in {"check", "connect"}
        /\ UNCHANGED <<seq, candidates, linked, startTip, wanted>>
    BY Zenon DEF DisconnectToFork, index, order
  <2>1. PICK t \in Targets \ {NoBlock, tip} : \E fork \in Chain \cap Ancestors[t] :
          Chain \cap Ancestors[t] \subseteq Ancestors[fork] /\ mostWork' = t /\ tip' = fork
    BY Zenon DEF DisconnectToFork
  <2>2. /\ t \in Block /\ t \in candidates /\ ~Worse(seq, t, startTip)
        /\ wanted = FALSE => \A c \in candidates : ~Worse(seq, t, c)
    <3>1. CASE mostWork = NoBlock
      BY <2>0, <3>1, TargetBest, Zenon
    <3>2. CASE mostWork # NoBlock
      BY <2>0, <3>2 DEF Targets, Chosen, Aim, Certain, Basis, Types, Locked
    <3> QED BY <3>1, <3>2, Zenon
  <2>3. tip' \in Block /\ (tip' = tip \/ Worse(seq, tip', tip))
    <3>1. tip' \in Chain /\ tip' \in Block
      BY <2>1, <2>2, ForkBlock, Zenon DEF Certain, Basis, Types
    <3> QED BY <3>1, WorseAncestor, Zenon DEF Chain, Certain, Basis, Types
  <2>4. tip \in Block /\ startTip \in Block /\ (tip = startTip \/ Worse(seq, tip, startTip))
    BY <2>0, Zenon DEF Certain, Basis, Types, Control, Locked
  <2>5. ASSUME NEW b \in Block
        PROVE  /\ ~Worse(seq, b, tip) => ~Worse(seq, b, tip')
               /\ ~Worse(seq, b, startTip) => ~Worse(seq, b, tip)
    BY <2>3, <2>4, Order, Zenon DEF Certain, Basis
  <2>7. candidates \subseteq Block /\ linked \subseteq Block
    BY Zenon DEF Certain, Basis, Types, Index
  <2>8. NoneWorse'
    BY <2>0, <2>5, <2>7, Zenon DEF Chosen, NoneWorse
  <2>9. Complete'
    BY <2>0, <2>5, <1>0, <2>7, Zenon DEF Chosen, Complete, Locked
  <2>10. Aim' /\ Settled'
    BY <2>0, <2>1, <2>2, Zenon DEF Aim, Settled
  <2> QED BY <2>8, <2>9, <2>10, Zenon DEF Chosen
<1>18. CASE ConnectTip
  <2> USE <1>18
  <2>0. /\ pc = "connect" /\ pc' \in {"check", "connect"} /\ NextToConnect(tip')
        /\ candidates' = Pruned(candidates, seq, tip')
        /\ UNCHANGED <<seq, linked, mostWork, startTip, wanted>>
    BY Zenon DEF ConnectTip, order, locals
  <2>1. mostWork \in Block /\ mostWork # NoBlock
    BY <2>0, Zenon DEF Certain, Basis, Types, Control
  <2>2. /\ tip' \in Block /\ tip' \in Ancestors[mostWork]
        /\ tip \in Ancestors[tip'] /\ tip # tip'
    BY <2>0, <2>1, NextBlock, AncestorsRec DEF Certain, Basis, Types
  <2>3. Worse(seq, tip, tip')
    BY <2>2, WorseAncestor, Zenon
  <2>4. ~Worse(seq, mostWork, tip')
    BY <2>1, <2>2, WorseAncestor, Order, Zenon DEF Certain, Basis, Types
  <2>5. \A b \in Block : ~Worse(seq, b, tip') => ~Worse(seq, b, tip)
    BY <2>2, <2>3, Order, Zenon DEF Certain, Basis, Types
  <2>7. linked \subseteq Block
    BY Zenon DEF Certain, Basis, Types, Index
  <2>8. NoneWorse'
    BY <2>0, Zenon DEF NoneWorse, Pruned
  <2>9. Complete'
    BY <2>0, <2>5, <1>0, <2>7, Zenon DEF Chosen, Complete, Locked, Pruned
  <2>10. Aim' /\ Settled'
    BY <2>0, <2>1, <2>4, Zenon DEF Chosen, Aim, Settled, Locked, Pruned
  <2> QED BY <2>8, <2>9, <2>10, Zenon DEF Chosen
<1>19. CASE ConnectTipFails
  <2> USE <1>19
  <2>0. /\ pc = "connect" /\ pc' = "check" /\ mostWork' = NoBlock
        /\ UNCHANGED <<seq, tip, linked, startTip, wanted>>
    BY Zenon DEF ConnectTipFails, order
  <2>1. PICK n \in Bad : candidates' = candidates \ {n} /\ failed' = [failed EXCEPT ![n] = @ \cup {"VALID"}]
    BY Zenon DEF ConnectTipFails, InvalidBlockFound
  <2>2. n \in Block
    BY <2>1, ChainAssumption, Zenon
  <2>3. ~Good(n)'
    <3>1. failed'[n] # {}
      BY <2>1, <2>2, Zenon DEF Certain, Basis, Types
    <3>2. Good(n)' => failed'[n] = {}
      BY <2>2, Zenon DEF Intact, Certain, Marks
    <3> QED BY <3>1, <3>2, Zenon
  <2>5. NoneWorse'
    BY <2>0, <2>1, Zenon DEF Chosen, NoneWorse
  <2>6. Complete'
    BY <2>0, <2>1, <2>3, <1>0, Zenon DEF Chosen, Complete, Locked
  <2> QED BY <2>0, <2>5, <2>6, Zenon DEF Chosen, Aim, Settled
<1>20. CASE CheckProgress
  <2> USE <1>20
  <2>0. pc = "check" /\ UNCHANGED <<seq, candidates, tip, linked, wanted>>
    BY Zenon DEF CheckProgress, index, order
  <2>2. linked \subseteq Block /\ tip \in Block /\ startTip \in Block
    BY <2>0, Zenon DEF Certain, Basis, Types, Index, Control, Locked
  <2>3. CASE Worse(seq, tip, startTip)
    <3>1. pc' = "find" /\ UNCHANGED <<mostWork, startTip>>
      BY <2>3, Zenon DEF CheckProgress, KeepsLock, locals
    <3> QED BY <2>0, <1>0, <2>3, <3>1, Zenon DEF Chosen, NoneWorse, Complete, Aim, Settled, Locked
  <2>4. CASE ~Worse(seq, tip, startTip)
    <3>1. /\ pc' = IF tip # mostWork THEN "loop" ELSE "idle"
          /\ mostWork' = IF tip # mostWork THEN mostWork ELSE NoBlock
          /\ startTip' = NoBlock
      BY <2>4, Zenon DEF CheckProgress, KeepsLock, EndRound
    <3>2. \A b \in Block : ~Worse(seq, b, tip) => ~Worse(seq, b, startTip)
      BY <2>2, <2>4, Order, Zenon DEF Certain, Basis
    <3>3. NoneWorse'
      BY <2>0, Zenon DEF Chosen, NoneWorse
    <3>4. Complete'
      BY <2>0, <1>0, <2>2, <3>1, <3>2, Zenon DEF Chosen, Complete, Locked
    <3>5. Aim' /\ Settled'
      BY <2>0, <2>2, <3>1, ChainAssumption, Zenon DEF Chosen, Aim, Settled, Locked
    <3> QED BY <3>3, <3>4, <3>5, Zenon DEF Chosen
  <2> QED BY <2>3, <2>4, Zenon
<1>21. ASSUME NEW b \in Block, PreciousBlock(b) PROVE Chosen'
  <2> USE <1>21
  <2>0. /\ Unlocked /\ wanted' = TRUE
        /\ candidates' = IF Eligible(b) THEN Pruned(candidates \cup {b}, seq', tip)
                           ELSE candidates \ {b}
        /\ UNCHANGED <<tip, linked, pc, mostWork, startTip>>
    BY Zenon DEF PreciousBlock, index, locals
  <2>1. /\ \A x \in Block : x # b => seq'[x] = seq[x]
        /\ \A x \in Block : Worse(seq, x, tip) => Worse(seq', x, tip) \/ x = b
    BY PreciousOrder, Zenon DEF Certain
  <2>2. ~Locked /\ ~Locked'
    BY <2>0, Zenon DEF Locked, Unlocked
  <2>4. linked \subseteq Block /\ candidates \subseteq linked /\ tip \in Block /\ tip \in linked
    BY Zenon DEF Certain, Basis, Types, Index, Tips
  <2>5. tip \in candidates
    BY <2>0, TipCandidate, Zenon
  <2>6. \A x \in linked : Good(x) => Eligible(x)
    BY <2>4, Zenon DEF Intact, Eligible, Certain, Marks, Basis, Index
  <2>7. seq' \in [Block -> Int]
    BY Zenon DEF Certain, Basis, Types
  <2>8. mostWork # NoBlock => /\ mostWork \in Block /\ mostWork \in linked /\ Eligible(mostWork)
                              /\ ~Worse(seq', mostWork, tip)
    <3> SUFFICES ASSUME mostWork # NoBlock
                 PROVE  /\ mostWork \in Block /\ mostWork \in linked /\ Eligible(mostWork)
                        /\ ~Worse(seq', mostWork, tip)
      BY Zenon
    <3>1. /\ mostWork \in Block /\ mostWork \in linked /\ Clean(mostWork)
          /\ tip \in Ancestors[mostWork] /\ tip # mostWork
      BY <2>0, FlagsCases, Zenon
         DEF Intact, Certain, Basis, Types, Tips, CleanTips, Control, Unlocked
    <3>2. Eligible(mostWork)
      BY <3>1, AncestorsRec, Zenon DEF Eligible, Clean, Certain, Basis, Index
    <3> QED BY <3>1, <3>2, <2>7, WorseAncestor, Zenon
  <2>9. CASE Eligible(b)
    <3>1. candidates' = {c \in candidates \cup {b} : ~Worse(seq', c, tip)}
      BY <2>0, <2>9, Zenon DEF Pruned
    <3>2. NoneWorse'
      BY <3>1, <2>0, Zenon DEF NoneWorse
    <3>3. ~Worse(seq', tip, tip)
      BY <2>4, <2>7, WorseOrder, Zenon
    <3>4. Complete'
      BY <3>1, <3>3, <2>0, <2>1, <2>2, <1>0, <2>4, <2>5, Zenon DEF Chosen, Complete
    <3>5. Aim' /\ Settled'
      BY <3>1, <2>0, <2>2, <2>8, Zenon DEF Chosen, Aim, Settled, Unlocked
    <3> QED BY <3>2, <3>4, <3>5, Zenon DEF Chosen
  <2>10. CASE ~Eligible(b)
    <3>1. candidates' = candidates \ {b} /\ tip # b
      <4>1. Eligible(tip)
        BY <2>4, <2>6, TipGood, Zenon
      <4> QED BY <4>1, <2>0, <2>10, Zenon
    <3>2. \A x \in Block : x # b => (Worse(seq', x, tip) <=> Worse(seq, x, tip))
      BY <3>1, <2>1, <2>4, WorseLocal, Zenon
    <3>3. NoneWorse'
      BY <3>1, <3>2, <2>0, <2>4, Zenon DEF Chosen, NoneWorse
    <3>4. Complete'
      BY <3>1, <3>2, <2>0, <2>2, <1>0, <2>4, <2>5, <2>6, <2>10, Zenon DEF Chosen, Complete
    <3>5. Aim' /\ Settled'
      BY <3>1, <2>0, <2>2, <2>8, <2>10, Zenon DEF Chosen, Aim, Settled, Unlocked
    <3> QED BY <3>3, <3>4, <3>5, Zenon DEF Chosen
  <2> QED BY <2>9, <2>10, Zenon
<1>22. CASE InvalidateStep
  <2> USE <1>22
  <2>0. pc = "invalidate" /\ UNCHANGED <<seq, linked, pc, mostWork, startTip, wanted>> /\ tip' = Parent[tip]
    BY Zenon DEF InvalidateStep, order, locals
  <2>1. tip \in Block /\ Parent[tip] \in Block /\ Parent[tip] \in Ancestors[tip] /\ Parent[tip] # tip
    BY WalkedTip, Zenon DEF InvalidateStep, Certain, Basis, Types
  <2>2. Worse(seq, tip', tip)
    BY <2>0, <2>1, WorseAncestor, Zenon
  <2>3. candidates' = (candidates \ {tip}) \cup {tip'} \cup {c \in inv.byWork : ~Worse(seq, c, tip')}
    BY Zenon DEF InvalidateStep
  <2>4. candidates \subseteq Block
    BY Zenon DEF Certain, Basis, Types, Index
  <2>5. mostWork = NoBlock
    BY <2>0, Zenon DEF Certain, Basis, Control
  <2>6. \A c \in Block : ~Worse(seq, c, tip) => ~Worse(seq, c, tip')
    BY <2>0, <2>1, <2>2, Order, Zenon DEF Certain, Basis
  <2>7. ~Worse(seq, tip', tip')
    BY <2>0, <2>1, Order, Zenon DEF Certain, Basis
  <2>8. NoneWorse'
    BY <2>0, <2>3, <2>4, <2>6, <2>7, Zenon DEF Chosen, NoneWorse
  <2> QED BY <2>0, <2>3, <2>5, <2>8, Zenon DEF Chosen, Complete, Aim, Settled, Locked
<1>23. CASE InvalidateFinish
  <2> USE <1>23
  <2>0. /\ pc = "invalidate" /\ pc' = "idle" /\ wanted' = TRUE
        /\ UNCHANGED <<known, have, seq, linked, tip, mostWork, startTip>>
        /\ candidates' = (candidates \ {inv.mark}) \cup MissedCandidates(failed')
    BY Zenon DEF InvalidateFinish, order, locals
  <2>1. \A b \in linked : b \in Block /\ b \in have /\ b \in known
    BY Zenon DEF Certain, Basis, Types, Index
  <2>2. \A b \in linked : Good(b)' => failed'[b] = {}
    BY <2>0, <2>1, Zenon DEF Intact, Certain, Marks
  <2>3. mostWork = NoBlock
    BY <2>0, Zenon DEF Certain, Basis, Control
  <2>4. NoneWorse'
    BY <2>0, Zenon DEF Chosen, NoneWorse, MissedCandidates
  <2>5. Complete'
    BY <2>0, <2>1, <2>2, Zenon DEF Complete, Locked, MissedCandidates
  <2> QED BY <2>0, <2>3, <2>4, <2>5, Zenon DEF Chosen, Aim, Settled
<1>24. ASSUME NEW b \in Block, ResetBlockFailureFlags(b) PROVE Chosen'
  <2> USE <1>24
  <2>0. /\ Unlocked /\ wanted' = TRUE
        /\ UNCHANGED <<seq, linked, tip, pc, mostWork, startTip>>
    BY Zenon DEF ResetBlockFailureFlags, order, locals
  <2>1. candidates \subseteq candidates' /\ \A c \in candidates' : c \in candidates \/ (c \in linked /\ Worse(seq, tip, c))
    BY Zenon DEF ResetBlockFailureFlags
  <2>2. linked \subseteq Block /\ tip \in Block
    BY Zenon DEF Certain, Basis, Types, Index
  <2>3. \A c \in linked : Worse(seq, tip, c) => ~Worse(seq, c, tip)
    BY <2>2, Order, Zenon DEF Certain, Basis
  <2>5. ~Locked'
    BY <2>0, Zenon DEF Locked, Unlocked
  <2>6. NoneWorse'
    BY <2>0, <2>1, <2>3, Zenon DEF Chosen, NoneWorse
  <2>7. Complete'
    BY <2>0, <2>1, <1>0, <2>5, Zenon DEF Chosen, Complete
  <2> QED BY <2>0, <2>1, <2>5, <2>6, <2>7, Zenon DEF Chosen, Aim, Settled
<1>25. CASE Restart
  <2> USE <1>25
  <2>0. /\ pc' = "idle" /\ wanted' = TRUE /\ mostWork' = NoBlock
        /\ failed' = LoadedFailed /\ linked' = LoadedLinked
        /\ candidates' = Pruned(LoadedCandidates, seq', tip')
    BY Zenon DEF Restart
  <2>1. \A b \in linked' : b \in Block /\ (Good(b)' => failed'[b] = {})
    BY Zenon DEF Intact, Certain, Marks, Basis, Types, Index
  <2>2. NoneWorse'
    BY <2>0, Zenon DEF NoneWorse, Pruned
  <2>3. Complete'
    BY <2>0, <2>1, Zenon DEF Complete, Locked, Pruned, LoadedCandidates
  <2> QED BY <2>0, <2>2, <2>3, Zenon DEF Chosen, Aim, Settled
<1>1. CASE UNCHANGED vars
  BY <1>0, <1>1, <1>12, Zenon DEF vars, order, index, locals
<1>2. CASE FlushStateToDisk \/ \E b \in Block \ {Genesis} : AcceptBlockHeader(b)
  BY <1>0, <1>2, <1>12, Zenon DEF FlushStateToDisk, AcceptBlockHeader, order, index, locals
<1>3. ASSUME NEW b \in Block, NEW requested \in BOOLEAN, AcceptBlock(b, requested) PROVE Chosen'
  <2>1. CASE b \in BadBody
    BY <2>1, <1>0, <1>3, <1>12, Zenon DEF AcceptBlock, locals
  <2> QED BY <2>1, <1>0, <1>3, <1>13, Zenon
<1>4. CASE ActivateBestChain
  <2>1. /\ pc = "idle" /\ pc' = "loop" /\ mostWork = NoBlock
        /\ UNCHANGED <<seq, candidates, tip, linked, mostWork, startTip>>
    BY <1>4, Zenon DEF ActivateBestChain, MutexFree, Certain, Basis, Control, order, index, locals
  <2>2. \A b \in linked : Good(b)' => Good(b)
    BY GoodShrinks, Zenon DEF Intact, Certain, Basis, Types, Index
  <2> QED BY <2>1, <2>2, <1>0, Zenon DEF Chosen, NoneWorse, Complete, Aim, Settled, Locked
<1>5. CASE Activate
  BY <1>0, <1>5, <1>14, <1>15, <1>16, <1>17,
     <1>18, <1>19, <1>20, Zenon DEF Activate
<1>6. ASSUME NEW b \in Block, InvalidateBlock(b) PROVE Chosen'
  <2>1. /\ pc = "idle" /\ pc' = "invalidate" /\ mostWork = NoBlock
        /\ UNCHANGED <<seq, candidates, tip, linked, mostWork, startTip>>
    BY <1>6, Zenon DEF InvalidateBlock, MutexFree, Certain, Basis, Control, order, index, locals
  <2>2. tip \in candidates
    BY <2>1, <1>0, TipCandidate, Zenon DEF Unlocked
  <2> QED BY <2>1, <2>2, <1>0, Zenon DEF Chosen, NoneWorse, Complete, Aim, Settled, Locked
<1> QED BY <1>1, <1>2, <1>3, <1>4, <1>5, <1>6, <1>21, <1>22, <1>23, <1>24, <1>25, Zenon DEF Next

LEMMA ChoiceAlways == Spec => [](Sequence /\ Choice)
<1>1. Init => Sequence /\ Choice
  <2> SUFFICES ASSUME Init PROVE Sequence /\ Chosen
    BY Zenon DEF Choice
  <2>1. Basis
    BY BaseInit, Zenon
  <2>2. ~Worse(seq, Genesis, Genesis)
    BY <2>1, Order, ParentType, Zenon DEF Basis
  <2>3. candidates = {Genesis} /\ linked = {Genesis} /\ tip = Genesis /\ pc = "idle" /\ mostWork = NoBlock
    BY Zenon DEF Init
  <2>4. Chosen
    BY <2>2, <2>3, Zenon DEF Chosen, NoneWorse, Complete, Aim, Settled, Locked
  <2>5. revSeq = -1 /\ \A b \in Block : seq[b] \in {0, 1}
    BY Zenon DEF Init
  <2>6. Sequence
    BY <2>5 DEF Sequence
  <2> QED BY <2>4, <2>6, Zenon
<1>2. Certain => Basis
  BY Zenon DEF Certain
<1> QED BY <1>1, <1>2, SequenceStep, ChoiceStep, CertainAlways, PTL DEF Spec
-----------------------------------------------------------------------------
\* A linked block is processed, and a good processed block is linked.
LEMMA ProcessedLinked ==
  ASSUME Basis, NEW b \in known
  PROVE  /\ b \in linked => Processed(b)
         /\ b \notin linked /\ Processed(b) =>
              \E x \in Ancestors[b] : x \in have /\ x \notin linked /\ x \notin unlinked
<1>1. b \in Block
  BY Zenon DEF Basis, Types
<1>2. ASSUME b \in linked PROVE Processed(b)
  BY <1>2, LinkedBranch, Zenon DEF Basis, Index, Processed
<1>3. ASSUME b \notin linked, Processed(b)
      PROVE  \E x \in Ancestors[b] : x \in have /\ x \notin linked /\ x \notin unlinked
  <2>4. PICK y \in Ancestors[b] : y # Genesis /\ y \notin linked /\ Parent[y] \in linked
    BY <1>1, <1>3, LowestUnlinked, Zenon DEF Basis
  <2> QED BY <2>4, <1>3, Zenon DEF Processed, Basis, Index
<1> QED BY <1>2, <1>3, Zenon

LEMMA GoodProcessed ==
  ASSUME Certain, Intact, NEW b \in known, Processed(b), Good(b)
  PROVE  b \in linked
<1> SUFFICES ASSUME b \notin linked PROVE FALSE
  BY Zenon
<1>1. PICK x \in Ancestors[b] : x \in have /\ x \notin linked /\ x \notin unlinked
  BY ProcessedLinked, Zenon DEF Certain
<1>2. Good(x)
  BY GoodBranch, Zenon DEF Certain, Basis, Types
<1> QED BY <1>1, <1>2, Zenon DEF Intact, Certain, Marks

\* When no call of ActivateBestChain is pending the tip is the best block.
THEOREM TipIsBestTheorem == Spec => []TipIsBestSoFar
<1>1. Certain /\ Choice => TipIsBestSoFar
  <2> SUFFICES ASSUME Certain, Choice, Intact, done.reconsider = 0, pc = "idle", ~wanted,
                      NEW b \in known, Processed(b), ~HasInvalidAncestor(b)
               PROVE  ~Worse(seq, tip, b)
    BY Zenon DEF TipIsBestSoFar, TipIsBest
  <2>1. Chosen
    BY Zenon DEF Choice
  <2>2. Good(b)
    BY Zenon DEF Good
  <2>3. b \in linked /\ b \in Block /\ tip \in Block
    BY <2>2, GoodProcessed, Zenon DEF Certain, Basis, Types
  <2>4. wanted = FALSE
    BY Zenon DEF Certain, Basis, Types
  <2>5. CASE Worse(seq, b, tip)
    BY <2>3, <2>5, Order, Zenon DEF Certain, Basis
  <2>6. CASE ~Worse(seq, b, tip)
    <3>1. b \in candidates
      BY <2>1, <2>2, <2>3, <2>6, Zenon DEF Chosen, Complete
    <3> QED BY <3>1, <2>1, <2>4, Zenon DEF Chosen, Settled
  <2> QED BY <2>5, <2>6, Zenon
<1> QED BY <1>1, CertainAlways, ChoiceAlways, PTL

\* Without invalidateblock and reconsiderblock, and with at most two calls of
\* preciousblock, the tip is the best block at all times, restarts included.
THEOREM TipIsBestCorrect ==
  ASSUME MaxInvalidate = 0, MaxReconsider = 0, MaxPrecious <= 2
  PROVE  Spec => []TipIsBest
<1>1. TypeOK /\ TipIsBestSoFar => TipIsBest
  <2> SUFFICES ASSUME TypeOK, TipIsBestSoFar PROVE TipIsBest
    BY Zenon
  <2>1. done.invalidate = 0 /\ done.reconsider = 0 /\ done.precious <= 2
    BY ChainAssumption DEF TypeOK, Bounds
  <2> QED BY <2>1, Zenon DEF TipIsBestSoFar, Intact, FlagsIntact
<1> QED BY <1>1, TypeCorrect, TipIsBestTheorem, PTL

\* CheckBlockIndex holds, and PruneBlockIndexCandidates leaves a candidate.
THEOREM CheckBlockIndexHolds == Spec => []CheckBlockIndex
<1>1. Certain /\ Choice => (Intact => SomeCandidateLeft)
  <2> SUFFICES ASSUME Certain, Choice, Intact PROVE candidates # {}
    BY Zenon DEF SomeCandidateLeft
  <2>1. Chosen
    BY Zenon DEF Choice
  <2>2. CASE Unlocked
    BY <2>1, <2>2, TipCandidate, Zenon
  <2>3. CASE ~Unlocked
    <3>1. Locked
      BY <2>3, Zenon DEF Unlocked, Locked, Certain, Basis, Types
    <3>2. tip \in Block /\ startTip \in Block
      BY <2>1, <3>1, StartCandidate, Zenon DEF Certain, Basis, Types
    <3> QED BY <2>1, <3>1, <3>2, StartCandidate, Order, Zenon DEF Certain, Basis
  <2> QED BY <2>2, <2>3, Zenon
<1>2. Certain /\ Choice => (Intact /\ done.reconsider = 0 => CandidatesExact)
  <2> SUFFICES ASSUME Certain, Choice, Intact, done.reconsider = 0, NEW b \in known, pc \in {"idle", "loop"}
               PROVE  Consistent(b)
    BY Zenon DEF CandidatesExact
  <2>1. Chosen /\ (Good(b) <=> ~HasInvalidAncestor(b)) /\ b \in Block
    BY Zenon DEF Choice, Good, Certain, Basis, Types
  <2>2. ASSUME ~Worse(seq, b, tip), Processed(b), ~HasInvalidAncestor(b) PROVE b \in candidates
    <3>1. b \in linked
      BY <2>1, <2>2, GoodProcessed, Zenon
    <3> QED BY <3>1, <2>1, <2>2, Zenon DEF Chosen, Complete
  <2>3. ASSUME b \in candidates PROVE ~Worse(seq, b, tip) /\ Processed(b)
    <3>1. b \in linked
      BY <2>3, Zenon DEF Certain, Basis, Index
    <3> QED BY <3>1, <2>1, <2>3, ProcessedLinked, Zenon DEF Certain, Chosen, NoneWorse
  <2> QED BY <2>2, <2>3, Zenon DEF Consistent
<1>3. Certain => (FlagsIntact /\ done.reconsider = 0 => FailedHasCause)
  <2> SUFFICES ASSUME Certain, FlagsIntact, done.reconsider = 0, NEW b \in known, failed[b] # {}
               PROVE  HasInvalidAncestor(b)
    BY Zenon DEF FailedHasCause
  <2>1. b \in Block
    BY Zenon DEF Certain, Basis, Types
  <2> QED BY <2>1, Zenon DEF Certain, Marks, Good
<1>4. Certain /\ Waiting => (done.invalidate = 0 /\ done.reconsider = 0 => UnlinkedExact)
  <2> SUFFICES ASSUME Certain, Waiting, done.invalidate = 0, done.reconsider = 0, NEW b \in known
               PROVE  /\ b \in linked <=> Processed(b)
                      /\ b \in have /\ ~Processed(b) /\ ~HasInvalidAncestor(b) => b \in unlinked
                      /\ b \in unlinked => b \in have /\ ~Processed(b)
                      /\ b \notin linked => seq[b] <= 0
    BY Zenon DEF UnlinkedExact
  <2>0. b \in Block
    BY Zenon DEF Certain, Basis, Types
  <2>1. ASSUME Processed(b), b \notin linked PROVE FALSE
    <3>1. PICK x \in Ancestors[b] : x \in have /\ x \notin linked /\ x \notin unlinked
      BY <2>1, ProcessedLinked, Zenon DEF Certain
    <3>2. x \in Block /\ Ancestors[x] \subseteq Ancestors[b]
      BY <2>0, AncestorsTransitive, Zenon
    <3>3. Stuck(x)
      BY <3>1, <3>2, Zenon DEF Waiting
    <3> QED BY <3>2, <3>3, <2>1, Zenon DEF Stuck, Processed
  <2>2. b \in linked <=> Processed(b)
    BY <2>1, ProcessedLinked, Zenon DEF Certain
  <2>3. ASSUME b \in have, ~Processed(b), ~HasInvalidAncestor(b) PROVE b \in unlinked
    <3>1. Good(b) /\ FlagsIntact /\ b \notin linked
      BY <2>2, <2>3, Zenon DEF Good, FlagsIntact
    <3> QED BY <3>1, <2>3, Zenon DEF Certain, Marks
  <2>4. b \in unlinked => b \in have /\ ~Processed(b)
    BY <2>2, Zenon DEF Certain, Basis, Index
  <2>5. b \notin linked => seq[b] <= 0
    BY <2>0, Zenon DEF Certain, Basis, Index
  <2> QED BY <2>2, <2>3, <2>4, <2>5, Zenon
<1> QED BY <1>1, <1>2, <1>3, <1>4, CertainAlways, ChoiceAlways, WaitingAlways, PTL
           DEF CheckBlockIndex

\* A round of ActivateBestChain leaves no worse tip than it began with.
THEOREM RoundsMakeProgress == Spec => ProgressBeforeUnlock
<1> DEFINE A == Intact /\ ~Unlocked /\ Unlocked' => ~Worse(seq, tip', startTip)
<1>1. Certain /\ Choice /\ [Next]_vars => [A]_vars
  <2> SUFFICES ASSUME Certain, Choice, [Next]_vars, Intact, ~Unlocked, Unlocked'
               PROVE  ~Worse(seq, tip', startTip)
    BY Zenon
  <2>1. Chosen /\ Locked
    BY Zenon DEF Choice, Unlocked, Locked, Certain, Basis, Types
  <2>2. NothingToActivate \/ CheckProgress
    BY Zenon DEF Next, Activate, vars, AcceptBlock, AcceptBlockHeader, ActivateBestChain,
       MutexFree, StartRound, DropFailedCandidate, DisconnectToFork, ConnectTip,
       ConnectTipFails, PreciousBlock, InvalidateBlock,
       InvalidateStep, InvalidateFinish, ResetBlockFailureFlags, FlushStateToDisk, Restart, Unlocked
  <2>3. CASE NothingToActivate
    <3>1. pc = "find" /\ tip' = tip /\ \E t \in Targets : t \in {NoBlock, tip}
      BY <2>3, Zenon DEF NothingToActivate
    <3>2. mostWork = NoBlock
      BY <3>1, <2>1, Zenon DEF Targets, Chosen, Aim
    <3> QED BY <3>1, <3>2, <2>1, TargetBest, ChainAssumption, Zenon
  <2>4. CASE CheckProgress
    BY <2>4, Zenon DEF CheckProgress, KeepsLock, Unlocked
  <2> QED BY <2>2, <2>3, <2>4, Zenon
<1> QED BY <1>1, CertainAlways, ChoiceAlways, PTL DEF Spec, ProgressBeforeUnlock
-----------------------------------------------------------------------------
\* Retargeting (Pow).

Less == {p \in Nat \X Nat : p[1] < p[2]}

\* A set of natural numbers with a member has a least one.
LEMMA LeastNumber ==
  ASSUME NEW S \in SUBSET Nat, S # {}
  PROVE  \E m \in S : \A k \in S : m <= k
<1>1. OpToRel(<, Nat) = Less
  BY DEF OpToRel, Less
<1>2. IsWellFoundedOn(Less, Nat)
  BY <1>1, NatLessThanWellFounded, Zenon
<1>3. PICK m \in S : \A k \in S : ~(<<k, m>> \in Less)
  BY <1>2, WFMin, Zenon
<1>4. ASSUME NEW k \in S PROVE m <= k
  <2>1. m \in Nat /\ k \in Nat /\ <<k, m>> \in Nat \X Nat
    OBVIOUS
  <2> QED BY <1>3, <2>1 DEF Less
<1> QED BY <1>4

\* A product grows with its factor.
LEMMA ProductMonotone ==
  ASSUME NEW a \in Nat, NEW b \in Nat, NEW c \in Nat, b <= c
  PROVE  a * b \in Nat /\ a * c \in Nat /\ a * b <= a * c
<1>1. PICK d \in Nat : c = b + d
  <2>1. c - b \in Nat /\ c = b + (c - b)
    OBVIOUS
  <2> QED BY <2>1
<1>2. a * c = a * b + a * d /\ a * d \in Nat /\ a * b \in Nat
  BY <1>1
<1> QED BY <1>2

\* What the quotient by d is.
LEMMA Quotient ==
  ASSUME NEW a \in Nat, NEW d \in Nat \ {0}
  PROVE  /\ a \div d \in Nat
         /\ d * (a \div d) \in Nat
         /\ d * (a \div d) <= a
         /\ a < d * (a \div d) + d
OBVIOUS

\* A quotient grows with its numerator, and no multiple of d up to b exceeds
\* the largest.
LEMMA QuotientAtLeast ==
  ASSUME NEW b \in Nat, NEW d \in Nat \ {0}, NEW q \in Nat, d * q <= b
  PROVE  q <= b \div d
<1>1. b \div d \in Nat /\ b < d * (b \div d) + d /\ d * (b \div d) \in Nat
  BY Quotient
<1>2. SUFFICES ASSUME (b \div d) + 1 <= q PROVE FALSE
  BY <1>1
<1>3. d * ((b \div d) + 1) <= d * q
  BY <1>1, <1>2, ProductMonotone
<1>4. d * ((b \div d) + 1) = d * (b \div d) + d
  BY <1>1
<1>5. d * q \in Nat
  OBVIOUS
<1> QED BY <1>1, <1>3, <1>4, <1>5

LEMMA QuotientMonotone ==
  ASSUME NEW a \in Nat, NEW b \in Nat, NEW d \in Nat \ {0}, a <= b
  PROVE  a \div d <= b \div d
<1>1. a \div d \in Nat /\ d * (a \div d) <= a /\ d * (a \div d) \in Nat
  BY Quotient
<1> QED BY <1>1, QuotientAtLeast
-----------------------------------------------------------------------------
(* The compact form.                                                       *)

\* A number up to the limit has its unit.
LEMMA UnitOf ==
  ASSUME NEW x \in 0..PowLimit
  PROVE  IsUnit(x, Unit(x)) /\ Unit(x) \in Nat \ {0}
<1> DEFINE S == {u \in Units : x < Base * Half * u}
<1>1. PICK u \in Units : PowLimit < Base * Half * u
  BY ParamsAssumption
<1>2. u \in S
  BY <1>1, CompactAssumption, ParamsAssumption
<1>3. S \in SUBSET Nat /\ S # {}
  BY <1>2, CompactAssumption
<1> HIDE DEF S
<1>4. PICK m \in S : \A k \in S : m <= k
  BY <1>3, LeastNumber, Zenon
<1>5. IsUnit(x, m) /\ m \in Units
  BY <1>4 DEF IsUnit, S
<1>6. IsUnit(x, Unit(x))
  BY <1>5 DEF Unit
<1> QED BY <1>6, CompactAssumption DEF IsUnit

\* The compact form rounds down.
LEMMA RoundedBelow ==
  ASSUME NEW x \in 0..PowLimit
  PROVE  Rounded(x) \in Nat /\ Rounded(x) <= x
<1>1. Unit(x) \in Nat \ {0}
  BY UnitOf
<1>2. Rounded(x) = Unit(x) * (x \div Unit(x))
  BY DEF Rounded, SetCompact, GetCompact
<1>3. x \in Nat
  BY ParamsAssumption
<1> QED BY <1>1, <1>2, <1>3, Quotient

\* Rounding keeps the order: GetCompact never makes the smaller of two
\* targets the larger one.
LEMMA RoundedMonotone ==
  ASSUME NEW x \in 0..PowLimit, NEW y \in 0..PowLimit, x <= y
  PROVE  Rounded(x) <= Rounded(y)
<1> DEFINE u == Unit(x)
           v == Unit(y)
<1>1. IsUnit(x, u) /\ IsUnit(y, v) /\ u \in Nat \ {0} /\ v \in Nat \ {0}
  BY UnitOf
<1>2. Rounded(x) = u * (x \div u) /\ Rounded(y) = v * (y \div v)
  BY DEF Rounded, SetCompact, GetCompact
<1>3. x \in Nat /\ y \in Nat
  BY ParamsAssumption
<1>4. u \in Units /\ v \in Units /\ x < Base * Half * u /\ y < Base * Half * v
  BY <1>1 DEF IsUnit
<1> HIDE DEF u, v
<1>5. CASE u = v
  <2>1. x \div u <= y \div u /\ x \div u \in Nat /\ y \div u \in Nat
    BY <1>1, <1>3, Quotient, QuotientMonotone
  <2>2. u * (x \div u) <= u * (y \div u)
    BY <1>1, <2>1, ProductMonotone
  <2> QED BY <1>2, <1>5, <2>2
<1>6. CASE u # v
  <2> USE CompactAssumption
  <2>1. Base * Half * v \in Nat
    BY <1>1
  <2>2. x < Base * Half * v
    BY <1>3, <1>4, <2>1
  <2>3. u < v
    BY <1>1, <1>4, <1>6, <2>2 DEF IsUnit
  <2>4. v # 1
    BY <1>1, <2>3
  <2>5. PICK w \in Units : v = Base * w
    BY <1>4, <2>4
  <2>6. w \in Nat \ {0}
    OBVIOUS
  <2>7. w < v
    <3>1. Base * w = w + (Base - 1) * w /\ (Base - 1) * w \in Nat
      BY <2>6
    <3>2. w * 1 <= w * (Base - 1) /\ w * (Base - 1) = (Base - 1) * w
      BY <2>6, ProductMonotone
    <3> QED BY <2>5, <2>6, <3>1, <3>2
  <2>8. ~(y < Base * Half * w)
    BY <1>1, <2>6, <2>7 DEF IsUnit
  <2>9. Base * Half * w = v * Half /\ v * Half \in Nat
    <3>1. (Base * Half) * w = (Base * w) * Half
      BY <2>6
    <3> QED BY <1>1, <2>5, <3>1
  <2>10. Half <= y \div v
    <3>1. ~(y < v * Half)
      BY <2>8, <2>9, Zenon
    <3>2. v * Half <= y
      BY <1>3, <2>9, <3>1
    <3> QED BY <1>1, <1>3, <3>2, QuotientAtLeast
  <2>11. v * Half <= v * (y \div v)
    BY <1>1, <1>3, <2>10, Quotient, ProductMonotone
  <2>12. u <= w
    <3>1. SUFFICES ASSUME w < u PROVE FALSE
      BY <1>1, <2>6
    <3>2. Base * w <= u
      BY <1>4, <3>1
    <3> QED BY <1>1, <2>3, <2>5, <3>2
  <2>13. Base * Half * u <= Base * Half * w
    BY <1>1, <2>6, <2>12, ProductMonotone
  <2>14. Rounded(x) <= x /\ Rounded(x) \in Nat
    BY RoundedBelow
  <2>15. Base * Half * u \in Nat /\ v * (y \div v) \in Nat
    BY <1>1, <1>3, Quotient
  <2>16. Base * Half * u <= v * (y \div v)
    <3>1. Base * Half * u <= v * Half
      BY <2>9, <2>13, Zenon
    <3> QED BY <2>9, <2>11, <2>15, <3>1
  <2>17. x < v * (y \div v)
    BY <1>3, <1>4, <2>15, <2>16
  <2> QED BY <1>2, <1>3, <2>14, <2>15, <2>17
<1> QED BY <1>5, <1>6
-----------------------------------------------------------------------------
(* The retarget.                                                           *)

\* A target up to the limit scaled by a timespan up to twice the intended
\* one stays in 256 bits, and the longer the timespan the easier the target.
LEMMA ScaledMonotone ==
  ASSUME NEW nBits, SetCompact(nBits) \in 0..PowLimit,
         NEW s \in 0..DownLimit, NEW t \in 0..DownLimit, s <= t
  PROVE  /\ Scaled(nBits, s) \in 0..PowLimit
         /\ Scaled(nBits, t) \in 0..PowLimit
         /\ Scaled(nBits, s) <= Scaled(nBits, t)
<1> DEFINE c == SetCompact(nBits)
<1> USE ParamsAssumption
<1>1. c \in Nat /\ c <= PowLimit /\ DownLimit = 2 * Timespan /\ DownLimit \in Nat
  BY DEF DownLimit
<1>2. s \in Nat /\ t \in Nat /\ t <= DownLimit
  BY <1>1
<1> HIDE DEF c
<1>3. c * s \in Nat /\ c * t \in Nat /\ c * s <= c * t
  BY <1>1, <1>2, ProductMonotone
<1>4. c * t <= c * DownLimit
  BY <1>1, <1>2, ProductMonotone
<1>5. DownLimit * c <= DownLimit * PowLimit
  BY <1>1, ProductMonotone
<1>6. c * DownLimit = DownLimit * c /\ DownLimit * PowLimit = PowLimit * (2 * Timespan)
  BY <1>1
<1>7. c * t < Top /\ c * s < Top
  <2>1. PowLimit * (2 * Timespan) \in Nat /\ DownLimit * c \in Nat
    BY <1>1
  <2> QED BY <1>3, <1>4, <1>5, <1>6, <2>1
<1>8. (c * s) % Top = c * s /\ (c * t) % Top = c * t
  BY <1>3, <1>7
<1>9. (c * s) \div Timespan <= (c * t) \div Timespan
  BY <1>3, QuotientMonotone
<1>10. (c * s) \div Timespan \in Nat /\ (c * t) \div Timespan \in Nat
  BY <1>3, Quotient
<1>11. /\ Scaled(nBits, s) = IF (c * s) \div Timespan > PowLimit THEN PowLimit ELSE (c * s) \div Timespan
       /\ Scaled(nBits, t) = IF (c * t) \div Timespan > PowLimit THEN PowLimit ELSE (c * t) \div Timespan
  BY <1>8 DEF Scaled, c
<1> QED BY <1>9, <1>10, <1>11

\* The limited timespan lies between the bounds the transition test uses.
LEMMA LimitedBetween ==
  ASSUME NEW height \in Nat, NEW actual \in Int
  PROVE  /\ SmallestTimespan(height) \in 0..DownLimit
         /\ Limited(height - 1, actual) \in 0..DownLimit
         /\ SmallestTimespan(height) <= Limited(height - 1, actual)
<1> USE ParamsAssumption
<1>1. /\ Timespan \div 4 \in 0..DownLimit
      /\ UpLimit \in 0..DownLimit
      /\ UpLimit3Pct \in 0..DownLimit
      /\ Timespan \div 4 <= UpLimit3Pct
  BY DEF UpLimit, UpLimit3Pct, DownLimit
<1>2. DownLimit \in Nat
  BY DEF DownLimit
<1> QED BY <1>1, <1>2 DEF SmallestTimespan, Limited

\* A target CalculateNextWorkRequired computes is never above the limit, so
\* CheckProofOfWork never turns it away as too easy.
THEOREM RetargetWithinLimit ==
  ASSUME NEW height \in Nat, NEW nBits, SetCompact(nBits) \in 0..PowLimit, NEW actual \in Int
  PROVE  SetCompact(CalculateNextWorkRequired(height - 1, nBits, actual)) \in 0..PowLimit
<1> DEFINE t == Limited(height - 1, actual)
<1>1. t \in 0..DownLimit
  BY LimitedBetween
<1>2. t <= t
  BY <1>1, ParamsAssumption DEF DownLimit
<1> HIDE DEF t
<1>3. Scaled(nBits, t) \in 0..PowLimit
  BY <1>1, <1>2, ScaledMonotone
<1>4. Rounded(Scaled(nBits, t)) \in 0..PowLimit
  BY <1>3, RoundedBelow, ParamsAssumption
<1> QED BY <1>4 DEF CalculateNextWorkRequired, Rounded, t

\* The target GetNextWorkRequired demands of the next block is one
\* PermittedDifficultyTransition lets through, at every height and whatever
\* time the last interval took: both sides of the height where the limit of
\* 15% ends, and with both targets rounded to their compact form.
THEOREM RetargetPermitted ==
  ASSUME NEW height \in Nat \ {0}, NEW nBits, SetCompact(nBits) \in 0..PowLimit, NEW actual \in Int
  PROVE  PermittedDifficultyTransition(height, nBits,
             GetNextWorkRequired(height - 1, nBits, actual))
<1> DEFINE t == Limited(height - 1, actual)
           s == SmallestTimespan(height)
           new == CalculateNextWorkRequired(height - 1, nBits, actual)
<1>1. s \in 0..DownLimit /\ t \in 0..DownLimit /\ s <= t
  BY LimitedBetween
<1>2. DownLimit \in 0..DownLimit /\ t <= DownLimit
  BY <1>1, ParamsAssumption DEF DownLimit
<1>3. SetCompact(new) = Rounded(Scaled(nBits, t))
  BY DEF CalculateNextWorkRequired, Rounded
<1> HIDE DEF t, s, new
<1>4. /\ Scaled(nBits, s) \in 0..PowLimit
      /\ Scaled(nBits, t) \in 0..PowLimit
      /\ Scaled(nBits, s) <= Scaled(nBits, t)
  BY <1>1, ScaledMonotone
<1>5. Scaled(nBits, DownLimit) \in 0..PowLimit /\ Scaled(nBits, t) <= Scaled(nBits, DownLimit)
  BY <1>1, <1>2, ScaledMonotone
<1>6. Rounded(Scaled(nBits, s)) <= SetCompact(new) /\ SetCompact(new) <= Rounded(Scaled(nBits, DownLimit))
  BY <1>3, <1>4, <1>5, RoundedMonotone
<1>7. /\ Rounded(Scaled(nBits, s)) \in Nat
      /\ Rounded(Scaled(nBits, DownLimit)) \in Nat
      /\ SetCompact(new) \in Nat
  BY <1>3, <1>4, <1>5, RoundedBelow
<1>8. (height - 1) + 1 = height
  OBVIOUS
<1>9. CASE height % Interval = 0
  <2>1. GetNextWorkRequired(height - 1, nBits, actual) = new
    BY <1>8, <1>9 DEF GetNextWorkRequired, new
  <2> QED BY <1>6, <1>7, <1>9, <2>1 DEF PermittedDifficultyTransition, s
<1>10. CASE height % Interval # 0
  <2>1. GetNextWorkRequired(height - 1, nBits, actual) = nBits
    BY <1>8, <1>10 DEF GetNextWorkRequired
  <2> QED BY <1>10, <2>1 DEF PermittedDifficultyTransition
<1> QED BY <1>9, <1>10
=============================================================================
