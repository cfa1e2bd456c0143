-------------------------- MODULE TxRequestProofs --------------------------
(***************************************************************************)
(* Proofs about TxRequest, for any sets of peers, transactions and times.  *)
(*                                                                         *)
(* The announcements of one transaction form a row, and every operation    *)
(* changes one row.  For each operation on a row a lemma shows that it      *)
(* keeps the row in order and what it does to the naive view of the row;    *)
(* the theorems about the tracker follow row by row.                       *)
(***************************************************************************)
EXTENDS TxRequest, FiniteSetTheorems, WellFoundedInduction, TLAPS

Rows == [Peer -> Announcement]
RowInv(t, row) == row \in Rows /\ RowOK(t, row)

Typed ==
  /\ index \in [Tx -> Rows]
  /\ call \in Calls
  /\ leaving \subseteq Peer
  /\ offered \subseteq Tx

IInv == Typed /\ SanityCheck /\ PeerInfoExact
-----------------------------------------------------------------------------
(* The best among ready announcements.                                     *)

Less == {z \in Nat \X Nat : z[1] < z[2]}

\* Every non-empty set of natural numbers has a least element.
LEMMA LeastNumber ==
  ASSUME NEW T \in SUBSET Nat, T # {}
  PROVE  \E x \in T : \A y \in T : x <= y
<1>1. OpToRel(<, Nat) = Less
  BY DEF OpToRel, Less
<1>2. IsWellFoundedOn(Less, Nat)
  BY <1>1, NatLessThanWellFounded, Zenon
<1>3. PICK x \in T : \A y \in T : ~(<<y, x>> \in Less)
  BY <1>2, WFMin, Zenon
<1>4. ASSUME NEW y \in T PROVE x <= y
  <2>1. x \in Nat /\ y \in Nat /\ <<y, x>> \in Nat \X Nat
    OBVIOUS
  <2>2. ~(y < x)
    BY <1>3, <2>1 DEF Less
  <2> QED BY <2>1, <2>2
<1> QED BY <1>4

\* Priorities are numbers below twice the preferred bit, and no two
\* announcements of a transaction have the same.
LEMMA PriorityLemma ==
  ASSUME NEW t \in Tx, NEW p \in Peer, NEW q \in Peer,
         NEW d \in Announcement, NEW e \in Announcement
  PROVE  /\ Priority(t, p, d) \in Nat /\ Priority(t, p, d) < 2 * High
         /\ Priority(t, p, d) = Priority(t, q, e) => p = q
<1>1. Rank[t][p] \in 0 .. High - 1 /\ Rank[t][q] \in 0 .. High - 1 /\ High \in Nat
  BY TxRequestAssumption
<1>2. Rank[t][p] = Rank[t][q] => p = q
  BY TxRequestAssumption
<1>3. d.preferred \in {0, 1} /\ e.preferred \in {0, 1}
  BY DEF Announcement
<1> QED BY <1>1, <1>2, <1>3 DEF Priority

\* A row with a ready announcement has a last one.
LEMMA LastReadyLemma ==
  ASSUME NEW t \in Tx, NEW row \in Rows, NEW r \in Peer, row[r].state = "READY"
  PROVE  \E p \in Peer : p \in LastReady(t, row)
<1> DEFINE Ready == {p \in Peer : row[p].state = "READY"}
           Gap(p) == 2 * High - Priority(t, p, row[p])
           T == {Gap(p) : p \in Ready}
<1>1. High \in Nat
  BY TxRequestAssumption
<1>2. \A p \in Ready : Priority(t, p, row[p]) \in Nat /\ Priority(t, p, row[p]) < 2 * High
  BY PriorityLemma DEF Rows
<1>3. T \in SUBSET Nat /\ T # {}
  <2>1. \A p \in Ready : Gap(p) \in Nat
    BY <1>1, <1>2
  <2>2. Gap(r) \in T
    OBVIOUS
  <2> QED BY <2>1, <2>2
<1>4. PICK x \in T : \A y \in T : x <= y
  BY <1>3, LeastNumber, Zenon
<1>5. PICK p \in Ready : x = Gap(p)
  OBVIOUS
<1>6. \A q \in Ready : Gap(p) <= Gap(q)
  BY <1>4, <1>5
<1>7. \A q \in Ready : Priority(t, p, row[p]) >= Priority(t, q, row[q])
  BY <1>1, <1>2, <1>6
<1> QED BY <1>7 DEF LastReady

LEMMA LastReadyUnique ==
  ASSUME NEW t \in Tx, NEW row \in Rows,
         NEW p \in LastReady(t, row), NEW q \in LastReady(t, row)
  PROVE  p = q
<1>1. /\ p \in Peer /\ q \in Peer
      /\ Priority(t, p, row[p]) >= Priority(t, q, row[q])
      /\ Priority(t, q, row[q]) >= Priority(t, p, row[p])
  BY DEF LastReady
<1>2. /\ Priority(t, p, row[p]) \in Nat /\ Priority(t, q, row[q]) \in Nat
      /\ Priority(t, p, row[p]) = Priority(t, q, row[q]) => p = q
  BY <1>1, PriorityLemma DEF Rows
<1> QED BY <1>1, <1>2
-----------------------------------------------------------------------------
(* Operations on a row.                                                    *)

\* A change of state keeps the rest of the announcement and its priority.
LEMMA InStateLemma ==
  ASSUME NEW e \in Announcement, NEW state \in States
  PROVE  /\ InState(e, state) \in Announcement
         /\ InState(e, state).state = state
         /\ InState(e, state).time = e.time
         /\ InState(e, state).preferred = e.preferred
         /\ \A t \in Tx, p \in Peer :
              Priority(t, p, InState(e, state)) = Priority(t, p, e)
BY DEF InState, Announcement, Priority

\* The naive view does not tell the kinds of candidate apart.
LEMMA CandidateLemma ==
  ASSUME NEW e \in Announcement, e.state \in {"DELAYED", "READY", "BEST"},
         NEW state \in {"DELAYED", "READY", "BEST"}
  PROVE  AbstractEntry(InState(e, state)) = AbstractEntry(e)
BY DEF InState, Announcement, AbstractEntry, AbstractState

\* PromoteCandidateReady keeps the row in order, and the naive view of it.
LEMMA PromotedLemma ==
  ASSUME NEW t \in Tx, NEW row, RowInv(t, row),
         NEW p \in Peer, row[p].state = "DELAYED"
  PROVE  /\ RowInv(t, Promoted(t, row, p))
         /\ AbstractRow(Promoted(t, row, p)) = AbstractRow(row)
<1> DEFINE ready == SetState(row, p, "READY")
           new == Promoted(t, row, p)
           P(q) == Priority(t, q, row[q])
<1>1. row \in Rows /\ RowOK(t, row)
  BY DEF RowInv
<1>2. \A q \in Peer : row[q] \in Announcement
  BY <1>1 DEF Rows
<1>3. \A q \in Peer : P(q) \in Nat /\ \A r \in Peer : P(q) = P(r) => q = r
  BY <1>2, PriorityLemma
<1>4. \A x \in {"READY", "BEST"} :
        /\ SetState(row, p, x) \in Rows
        /\ \A q \in Peer : SetState(row, p, x)[q] =
                            IF q = p THEN InState(row[q], x) ELSE row[q]
  <2> SUFFICES ASSUME NEW x \in {"READY", "BEST"}
               PROVE  /\ SetState(row, p, x) \in Rows
                      /\ \A q \in Peer : SetState(row, p, x)[q] =
                            IF q = p THEN InState(row[q], x) ELSE row[q]
    OBVIOUS
  <2>1. InState(row[p], x) \in Announcement
    BY <1>2, InStateLemma DEF States
  <2> QED BY <1>1, <2>1 DEF SetState, Rows
<1>5. \A x \in {"READY", "BEST"} : \A q \in Peer :
        /\ InState(row[q], x) \in Announcement
        /\ InState(row[q], x).state = x
        /\ Priority(t, q, InState(row[q], x)) = P(q)
        /\ row[q].state \in {"DELAYED", "READY", "BEST"}
             => AbstractEntry(InState(row[q], x)) = AbstractEntry(row[q])
  BY <1>2, InStateLemma, CandidateLemma DEF States
<1>6. \A q \in Peer :
        /\ ready[q].state = IF q = p THEN "READY" ELSE row[q].state
        /\ Priority(t, q, ready[q]) = P(q)
        /\ AbstractEntry(ready[q]) = AbstractEntry(row[q])
  BY <1>4, <1>5
<1> QED
  <2>1. CASE p \notin LastReady(t, ready)
    <3>1. new = ready
      BY <2>1 DEF Promoted
    <3>2. PICK q \in Peer : row[q].state = "READY" /\ P(q) > P(p)
      BY <1>3, <1>6, <2>1 DEF LastReady
    <3>3. RowOK(t, ready)
      BY <1>1, <1>3, <1>6, <3>2 DEF RowOK, IsSelected
    <3> QED BY <1>4, <1>6, <3>1, <3>3 DEF RowInv, AbstractRow
  <2>2. CASE p \in LastReady(t, ready) /\ \A q \in Peer : ~IsSelected(row[q])
    <3>1. new = SetState(row, p, "BEST")
      BY <2>2 DEF Promoted
    <3>2. \A q \in Peer :
            /\ new[q].state = IF q = p THEN "BEST" ELSE row[q].state
            /\ Priority(t, q, new[q]) = P(q)
            /\ AbstractEntry(new[q]) = AbstractEntry(row[q])
      BY <1>4, <1>5, <3>1
    <3>3. RowOK(t, new)
      BY <1>1, <2>2, <3>2 DEF RowOK, IsSelected
    <3> QED BY <1>4, <3>1, <3>2, <3>3 DEF RowInv, AbstractRow
  <2>3. CASE p \in LastReady(t, ready) /\ ~ \A q \in Peer : ~IsSelected(row[q])
    <3>1. PICK b \in Peer : IsSelected(row[b])
      BY <2>3
    <3>2. \A q \in Peer : IsSelected(row[q]) => q = b
      BY <1>1, <3>1 DEF RowOK
    <3>3. CASE row[b].state = "BEST" /\ P(p) > P(b)
      <4>1. \A q \in Peer : new[q] = IF q = b THEN InState(row[q], "READY")
                                    ELSE IF q = p THEN InState(row[q], "BEST")
                                    ELSE row[q]
        BY <1>4, <2>3, <3>1, <3>2, <3>3 DEF Promoted, IsSelected
      <4>2. \A q \in Peer :
              /\ new[q].state = IF q = b THEN "READY" ELSE IF q = p THEN "BEST"
                                ELSE row[q].state
              /\ Priority(t, q, new[q]) = P(q)
              /\ AbstractEntry(new[q]) = AbstractEntry(row[q])
              /\ new[q] \in Announcement
        BY <1>2, <1>5, <3>3, <4>1
      <4>3. new \in Rows
        <5>1. new = [q \in Peer |-> new[q]]
          BY <2>3 DEF Promoted
        <5> QED BY <4>2, <5>1 DEF Rows
      <4>4. \A q \in Peer : row[q].state = "READY" => P(p) > P(q)
        BY <1>1, <1>3, <3>1, <3>3 DEF RowOK
      <4>5. RowOK(t, new)
        BY <1>1, <1>3, <3>2, <3>3, <4>2, <4>4 DEF RowOK, IsSelected
      <4> QED BY <4>2, <4>3, <4>5 DEF RowInv, AbstractRow
    <3>4. CASE ~(row[b].state = "BEST" /\ P(p) > P(b))
      <4>1. \A q \in Peer : new[q] = ready[q]
        BY <1>4, <2>3, <3>1, <3>2, <3>4 DEF Promoted, IsSelected
      <4>2. new = ready
        <5>1. new = [q \in Peer |-> new[q]]
          BY <2>3 DEF Promoted
        <5> QED BY <1>4, <4>1, <5>1 DEF Rows
      <4>3. RowOK(t, ready)
        BY <1>1, <1>3, <1>6, <3>1, <3>2, <3>4 DEF RowOK, IsSelected
      <4> QED BY <1>4, <1>6, <4>2, <4>3 DEF RowInv, AbstractRow
    <3> QED BY <3>3, <3>4
  <2> QED BY <2>1, <2>2, <2>3

\* ChangeAndReselect: the row stays in order when the announcement becomes
\* delayed, or completed with another one left that is not.
LEMMA ReselectedLemma ==
  ASSUME NEW t \in Tx, NEW row, RowInv(t, row), NEW p \in Peer,
         row[p].state \notin {"NONE", "COMPLETED"},
         NEW state \in {"DELAYED", "COMPLETED"},
         state = "COMPLETED" => ~IsOnlyNonCompleted(row, p)
  PROVE  /\ RowInv(t, Reselected(t, row, p, state))
         /\ \A q \in Peer \ {p} :
              AbstractEntry(Reselected(t, row, p, state)[q]) = AbstractEntry(row[q])
         /\ Reselected(t, row, p, state)[p] = InState(row[p], state)
<1> DEFINE new == Reselected(t, row, p, state)
           P(q) == Priority(t, q, row[q])
<1>1. row \in Rows /\ RowOK(t, row)
  BY DEF RowInv
<1>2. \A q \in Peer : row[q] \in Announcement
  BY <1>1 DEF Rows
<1>3. \A q \in Peer : P(q) \in Nat
  BY <1>2, PriorityLemma
<1>4. \A q, r \in LastReady(t, row) : q = r
  BY <1>1, LastReadyUnique
<1>5. \A q \in Peer : row[q].state = "READY" => \E r \in Peer : r \in LastReady(t, row)
  BY <1>1, LastReadyLemma
<1>6. p \notin LastReady(t, row) \/ ~IsSelected(row[p])
  BY DEF LastReady, IsSelected
<1>7. \A q \in Peer : new[q] =
        IF q = p THEN InState(row[q], state)
        ELSE IF IsSelected(row[p]) /\ q \in LastReady(t, row)
          THEN InState(row[q], "BEST")
          ELSE row[q]
  BY DEF Reselected
<1>8. \A q \in Peer :
        /\ new[q].state = IF q = p THEN state
                          ELSE IF IsSelected(row[p]) /\ q \in LastReady(t, row)
                            THEN "BEST" ELSE row[q].state
        /\ Priority(t, q, new[q]) = P(q)
        /\ new[q] \in Announcement
  BY <1>2, <1>7, InStateLemma DEF States
<1>9. new \in Rows
  BY <1>8 DEF Reselected, Rows
<1>10. (\E q \in Peer : new[q].state # "NONE")
         => \E q \in Peer : new[q].state \notin {"NONE", "COMPLETED"}
  BY <1>8 DEF IsOnlyNonCompleted
<1>11. \A q, r \in Peer : IsSelected(new[q]) /\ IsSelected(new[r]) => q = r
  BY <1>1, <1>4, <1>8 DEF RowOK, IsSelected
<1>12. (\E q \in Peer : new[q].state = "READY")
         => \E q \in Peer : IsSelected(new[q])
  <2> SUFFICES ASSUME NEW q \in Peer, new[q].state = "READY"
               PROVE  \E r \in Peer : IsSelected(new[r])
    OBVIOUS
  <2>1. row[q].state = "READY" /\ q # p
    BY <1>8
  <2>2. CASE IsSelected(row[p])
    BY <1>5, <1>6, <1>8, <2>1, <2>2 DEF IsSelected
  <2>3. CASE ~IsSelected(row[p])
    <3>1. PICK r \in Peer : IsSelected(row[r])
      BY <1>1, <2>1 DEF RowOK
    <3> QED BY <1>8, <2>3, <3>1 DEF IsSelected
  <2> QED BY <2>2, <2>3
<1>13. \A q, r \in Peer : new[q].state = "BEST" /\ new[r].state = "READY"
         => P(q) >= P(r)
  <2> SUFFICES ASSUME NEW q \in Peer, NEW r \in Peer,
                      new[q].state = "BEST", new[r].state = "READY"
               PROVE  P(q) >= P(r)
    OBVIOUS
  <2>1. row[r].state = "READY" /\ q # p
    BY <1>8
  <2>2. CASE q \in LastReady(t, row)
    BY <2>1, <2>2 DEF LastReady
  <2>3. CASE q \notin LastReady(t, row)
    BY <1>1, <1>8, <2>1, <2>3 DEF RowOK
  <2> QED BY <2>2, <2>3
<1>14. RowOK(t, new)
  BY <1>8, <1>10, <1>11, <1>12, <1>13 DEF RowOK
<1>15. \A q \in Peer \ {p} : AbstractEntry(new[q]) = AbstractEntry(row[q])
  BY <1>2, <1>7, CandidateLemma DEF LastReady
<1> QED BY <1>7, <1>9, <1>14, <1>15 DEF RowInv

LEMMA EmptyLemma ==
  ASSUME NEW t \in Tx
  PROVE  /\ RowInv(t, EmptyRow)
         /\ AbstractRow(EmptyRow) = [p \in Peer |-> Rules!Nothing]
<1>1. None \in Announcement /\ None.state = "NONE"
  BY TxRequestAssumption DEF None, Announcement, States
<1>2. \A p \in Peer : EmptyRow[p] = None
  BY DEF EmptyRow
<1>3. EmptyRow \in Rows
  BY <1>1 DEF EmptyRow, Rows
<1>4. AbstractEntry(None) = Rules!Nothing
  BY DEF AbstractEntry, AbstractState, None, Rules!Nothing
<1> QED BY <1>1, <1>2, <1>3, <1>4 DEF RowInv, RowOK, IsSelected, AbstractRow, EmptyRow

\* What the naive view shows of an entry's state.
LEMMA AbstractLemma ==
  ASSUME NEW e \in Announcement
  PROVE  /\ AbstractEntry(e).time = e.time
         /\ AbstractEntry(e).preferred = e.preferred
         /\ AbstractEntry(e).state = "NOTHING" <=> e.state = "NONE"
         /\ AbstractEntry(e).state = "CANDIDATE"
              <=> e.state \in {"DELAYED", "READY", "BEST"}
         /\ AbstractEntry(e).state = "REQUESTED" <=> e.state = "REQUESTED"
         /\ AbstractEntry(e).state = "COMPLETED" <=> e.state = "COMPLETED"
         /\ AbstractEntry(InState(e, "COMPLETED"))
              = [AbstractEntry(e) EXCEPT !.state = "COMPLETED"]
BY DEF AbstractEntry, AbstractState, Announcement, States, InState

\* Completing an announcement, and erasing one, in terms of the naive view.
LEMMA MadeCompletedLemma ==
  ASSUME NEW t \in Tx, NEW row, RowInv(t, row), NEW p \in Peer, row[p].state # "NONE"
  PROVE  /\ RowInv(t, MadeCompleted(t, row, p))
         /\ RowInv(t, [MadeCompleted(t, row, p) EXCEPT ![p] = None])
         /\ AbstractRow(MadeCompleted(t, row, p)) =
              Rules!Cleanup([AbstractRow(row) EXCEPT ![p].state = "COMPLETED"])
         /\ AbstractRow([MadeCompleted(t, row, p) EXCEPT ![p] = None]) =
              Rules!Cleanup([AbstractRow(row) EXCEPT ![p] = Rules!Nothing])
<1> DEFINE new == MadeCompleted(t, row, p)
           erased == [new EXCEPT ![p] = None]
           view == [AbstractRow(row) EXCEPT ![p].state = "COMPLETED"]
           hidden == [AbstractRow(row) EXCEPT ![p] = Rules!Nothing]
<1>1. row \in Rows /\ RowOK(t, row)
  BY DEF RowInv
<1>2. \A q \in Peer : row[q] \in Announcement
  BY <1>1 DEF Rows
<1>3. /\ None \in Announcement /\ None.state = "NONE"
      /\ AbstractEntry(None) = Rules!Nothing
      /\ Rules!Nothing.state = "NOTHING"
  BY TxRequestAssumption
  DEF None, Announcement, States, AbstractEntry, AbstractState, Rules!Nothing
<1>4. \A q \in Peer :
        /\ view[q] = IF q = p THEN [AbstractEntry(row[q]) EXCEPT !.state = "COMPLETED"]
                     ELSE AbstractEntry(row[q])
        /\ hidden[q] = IF q = p THEN Rules!Nothing ELSE AbstractEntry(row[q])
  BY DEF AbstractRow
<1>5. view[p].state = "COMPLETED" /\ hidden[p].state = "NOTHING"
  <2>1. [AbstractEntry(row[p]) EXCEPT !.state = "COMPLETED"].state = "COMPLETED"
    <3>1. row[p] \in Announcement /\ InState(row[p], "COMPLETED") \in Announcement
      BY <1>2, InStateLemma DEF States
    <3>2. InState(row[p], "COMPLETED").state = "COMPLETED"
      BY <3>1, InStateLemma DEF States
    <3>3. AbstractEntry(InState(row[p], "COMPLETED")).state = "COMPLETED"
      BY <3>1, <3>2, AbstractLemma
    <3> QED BY <3>1, <3>3, AbstractLemma
  <2> QED BY <1>3, <1>4, <2>1, Zenon
<1>6. view = [q \in Peer |-> view[q]] /\ hidden = [q \in Peer |-> hidden[q]]
  <2>1. DOMAIN view = Peer /\ DOMAIN hidden = Peer
    BY DEF AbstractRow
  <2> QED BY <2>1
<1>7. \A q \in Peer :
        /\ view[q].state \in {"NOTHING", "COMPLETED"}
             <=> q = p \/ row[q].state \in {"NONE", "COMPLETED"}
        /\ hidden[q].state \in {"NOTHING", "COMPLETED"}
             <=> q = p \/ row[q].state \in {"NONE", "COMPLETED"}
  <2>1. \A q \in Peer : AbstractEntry(row[q]).state \in {"NOTHING", "COMPLETED"}
                          <=> row[q].state \in {"NONE", "COMPLETED"}
    BY <1>2, AbstractLemma
  <2> QED BY <1>4, <1>5, <2>1, Zenon
<1>8. CASE IsOnlyNonCompleted(row, p)
  <2>1. row[p].state # "COMPLETED"
    BY <1>1, <1>8 DEF RowOK, IsOnlyNonCompleted
  <2>2. new = EmptyRow
    BY <1>8, <2>1 DEF MadeCompleted
  <2>3. erased = EmptyRow
    BY <2>2 DEF EmptyRow
  <2>4. /\ Rules!Cleanup(view) = [q \in Peer |-> Rules!Nothing]
        /\ Rules!Cleanup(hidden) = [q \in Peer |-> Rules!Nothing]
    BY <1>7, <1>8, Zenon DEF Rules!Cleanup, IsOnlyNonCompleted
  <2> QED BY <2>2, <2>3, <2>4, EmptyLemma
<1>9. CASE ~IsOnlyNonCompleted(row, p)
  <2>1. Rules!Cleanup(view) = view /\ Rules!Cleanup(hidden) = hidden
    BY <1>7, <1>9, Zenon DEF Rules!Cleanup, IsOnlyNonCompleted
  <2>2. /\ RowInv(t, new) /\ new[p] = InState(row[p], "COMPLETED")
        /\ \A q \in Peer \ {p} : AbstractEntry(new[q]) = AbstractEntry(row[q])
    <3>1. CASE row[p].state = "COMPLETED"
      <4>1. InState(row[p], "COMPLETED") = row[p]
        BY <1>2, <3>1 DEF InState, Announcement
      <4> QED BY <3>1, <4>1 DEF MadeCompleted
    <3>2. CASE row[p].state # "COMPLETED"
      <4>1. new = Reselected(t, row, p, "COMPLETED")
        BY <1>9, <3>2 DEF MadeCompleted
      <4> QED BY <1>9, <3>2, <4>1, ReselectedLemma
    <3> QED BY <3>1, <3>2
  <2>3. new \in Rows /\ RowOK(t, new) /\ \A q \in Peer : new[q] \in Announcement
    BY <2>2 DEF RowInv, Rows
  <2>4. new[p].state = "COMPLETED"
    BY <1>2, <2>2, InStateLemma DEF States
  <2>5. AbstractRow(new) = view
    <3>1. AbstractEntry(new[p]) = [AbstractEntry(row[p]) EXCEPT !.state = "COMPLETED"]
      BY <1>2, <2>2, AbstractLemma
    <3>2. \A q \in Peer : AbstractEntry(new[q]) = view[q]
      BY <1>4, <2>2, <3>1, Zenon
    <3> QED BY <1>6, <3>2, Zenon DEF AbstractRow
  <2>6. \A q \in Peer : erased[q] = IF q = p THEN None ELSE new[q]
    BY <2>3 DEF Rows
  <2>7. erased \in Rows
    BY <1>3, <2>3 DEF Rows
  <2>8. PICK o \in Peer : o # p /\ new[o].state \notin {"NONE", "COMPLETED"}
    <3>1. PICK o \in Peer : o # p /\ row[o].state \notin {"NONE", "COMPLETED"}
      BY <1>9 DEF IsOnlyNonCompleted
    <3>2. AbstractEntry(new[o]) = AbstractEntry(row[o])
      BY <2>2, <3>1
    <3>3. /\ AbstractEntry(row[o]).state \notin {"NOTHING", "COMPLETED"}
          /\ new[o].state \in {"NONE", "COMPLETED"}
               => AbstractEntry(new[o]).state \in {"NOTHING", "COMPLETED"}
      BY <1>2, <2>3, <3>1, AbstractLemma
    <3> QED BY <3>1, <3>2, <3>3
  <2>9. RowOK(t, erased)
    BY <1>3, <2>3, <2>4, <2>6, <2>8 DEF RowOK, IsSelected
  <2>10. AbstractRow(erased) = hidden
    <3>1. \A q \in Peer : AbstractEntry(erased[q]) = hidden[q]
      BY <1>3, <1>4, <2>2, <2>6, Zenon
    <3> QED BY <1>6, <3>1, Zenon DEF AbstractRow
  <2> QED BY <2>1, <2>2, <2>5, <2>7, <2>9, <2>10 DEF RowInv
<1> QED BY <1>8, <1>9

\* RequestedTx completes an older request and demotes a better candidate.
LEMMA RequestedLemma ==
  ASSUME NEW t \in Tx, NEW row, RowInv(t, row), NEW p \in Peer, NEW expiry \in Time,
         row[p].state \in {"DELAYED", "READY", "BEST"}
  PROVE  /\ RowInv(t, Requested(row, p, expiry))
         /\ AbstractRow(Requested(row, p, expiry)) =
              [q \in Peer |->
                 IF q = p THEN [state |-> "REQUESTED", time |-> expiry,
                                preferred |-> AbstractRow(row)[q].preferred]
                 ELSE IF AbstractRow(row)[q].state = "REQUESTED"
                   THEN [AbstractRow(row)[q] EXCEPT !.state = "COMPLETED"]
                   ELSE AbstractRow(row)[q]]
<1> DEFINE new == Requested(row, p, expiry)
           mine == [state |-> "REQUESTED", time |-> expiry,
                    preferred |-> row[p].preferred]
<1>1. row \in Rows /\ RowOK(t, row)
  BY DEF RowInv
<1>2. \A q \in Peer : row[q] \in Announcement
  BY <1>1 DEF Rows
<1>3. /\ mine \in Announcement /\ mine.state = "REQUESTED"
      /\ AbstractEntry(mine) = [state |-> "REQUESTED", time |-> expiry,
                                preferred |-> AbstractEntry(row[p]).preferred]
  <2>1. row[p] \in Announcement
    BY <1>2
  <2>2. mine \in Announcement /\ mine.state = "REQUESTED"
    BY <2>1 DEF Announcement, States
  <2> QED BY <2>2 DEF AbstractEntry, AbstractState
<1>4. \A q \in Peer : new[q] =
        IF q = p THEN mine
        ELSE IF row[q].state = "BEST" THEN InState(row[q], "READY")
        ELSE IF row[q].state = "REQUESTED" THEN InState(row[q], "COMPLETED")
        ELSE row[q]
  BY <1>1 DEF Requested, RowOK, IsSelected
<1>5. \A q \in Peer :
        /\ new[q].state = IF q = p THEN "REQUESTED"
                          ELSE IF row[q].state = "BEST" THEN "READY"
                          ELSE IF row[q].state = "REQUESTED" THEN "COMPLETED"
                          ELSE row[q].state
        /\ new[q] \in Announcement
  <2>1. \A q \in Peer, x \in {"READY", "COMPLETED"} :
          InState(row[q], x).state = x /\ InState(row[q], x) \in Announcement
    BY <1>2, InStateLemma DEF States
  <2> QED BY <1>2, <1>3, <1>4, <2>1, Zenon
<1>6. new \in Rows
  BY <1>5 DEF Requested, Rows
<1>7. RowOK(t, new)
  BY <1>5 DEF RowOK, IsSelected
<1>8. \A q \in Peer : AbstractEntry(new[q]) =
        IF q = p THEN AbstractEntry(mine)
        ELSE IF AbstractEntry(row[q]).state = "REQUESTED"
          THEN [AbstractEntry(row[q]) EXCEPT !.state = "COMPLETED"]
          ELSE AbstractEntry(row[q])
  BY <1>2, <1>4, AbstractLemma, CandidateLemma
<1>9. \A q \in Peer : AbstractRow(row)[q] = AbstractEntry(row[q])
  BY DEF AbstractRow
<1> QED BY <1>3, <1>6, <1>7, <1>8, <1>9 DEF RowInv, AbstractRow

\* ReceivedInv adds a delayed announcement.
LEMMA NewLemma ==
  ASSUME NEW t \in Tx, NEW row, RowInv(t, row), NEW p \in Peer,
         NEW preferred \in {0, 1}, NEW reqtime \in Time
  PROVE  LET new == [row EXCEPT ![p] = [state |-> "DELAYED", time |-> reqtime,
                                        preferred |-> preferred]]
         IN  row[p].state = "NONE" =>
             /\ RowInv(t, new)
             /\ AbstractRow(new) =
                  [AbstractRow(row) EXCEPT ![p] = [state |-> "CANDIDATE",
                     time |-> reqtime, preferred |-> preferred]]
<1> SUFFICES ASSUME row[p].state = "NONE"
             PROVE  LET e == [state |-> "DELAYED", time |-> reqtime,
                              preferred |-> preferred]
                        new == [row EXCEPT ![p] = e]
                    IN  /\ RowInv(t, new)
                        /\ AbstractRow(new) = [AbstractRow(row) EXCEPT
                             ![p] = [state |-> "CANDIDATE", time |-> reqtime,
                                     preferred |-> preferred]]
  OBVIOUS
<1> DEFINE e == [state |-> "DELAYED", time |-> reqtime, preferred |-> preferred]
           new == [row EXCEPT ![p] = e]
<1>1. row \in Rows /\ RowOK(t, row)
  BY DEF RowInv
<1>2. /\ e \in Announcement /\ e.state = "DELAYED"
      /\ AbstractEntry(e) = [state |-> "CANDIDATE", time |-> reqtime,
                             preferred |-> preferred]
  BY DEF Announcement, States, AbstractEntry, AbstractState
<1>3. new \in Rows /\ \A q \in Peer : new[q] = IF q = p THEN e ELSE row[q]
  BY <1>1, <1>2 DEF Rows
<1>4. RowOK(t, new)
  BY <1>1, <1>2, <1>3 DEF RowOK, IsSelected
<1>5. AbstractRow(new) = [AbstractRow(row) EXCEPT ![p] = AbstractEntry(e)]
  <2>1. \A q \in Peer : AbstractEntry(new[q]) =
          IF q = p THEN AbstractEntry(e) ELSE AbstractEntry(row[q])
    BY <1>3
  <2> QED BY <2>1 DEF AbstractRow
<1> QED BY <1>2, <1>3, <1>4, <1>5, Zenon DEF RowInv
-----------------------------------------------------------------------------
(* Steps of the tracker.                                                   *)

\* Counting the members of a set of which only one may have changed.
LEMMA CountLemma ==
  ASSUME NEW A \in SUBSET Tx, NEW B \in SUBSET Tx, NEW t \in Tx,
         A \ {t} = B \ {t}
  PROVE  Cardinality(B) = Cardinality(A) - One(t \in A) + One(t \in B)
<1>1. IsFiniteSet(A) /\ IsFiniteSet(B)
  BY TxRequestAssumption, FS_Subset
<1>2. /\ Cardinality(A \ {t}) = IF t \in A THEN Cardinality(A) - 1 ELSE Cardinality(A)
      /\ Cardinality(B \ {t}) = IF t \in B THEN Cardinality(B) - 1 ELSE Cardinality(B)
  BY <1>1, FS_RemoveElement
<1>3. Cardinality(A) \in Nat /\ Cardinality(B) \in Nat
  BY <1>1, FS_CardinalityType
<1> QED BY <1>2, <1>3 DEF One

\* A change of one row keeps the tracker in order and its statistics exact.
LEMMA RowStep ==
  ASSUME IInv, NEW t \in Tx, NEW row, RowInv(t, row), SetRow(t, row)
  PROVE  /\ index' \in [Tx -> Rows]
         /\ SanityCheck'
         /\ PeerInfoExact'
         /\ AnnMap' = [AnnMap EXCEPT ![t] = AbstractRow(row)]
<1>1. index \in [Tx -> Rows] /\ row \in Rows
  BY DEF IInv, Typed, RowInv
<1>2. /\ index' \in [Tx -> Rows]
      /\ \A u \in Tx : index'[u] = IF u = t THEN row ELSE index[u]
  BY <1>1 DEF SetRow
<1>3. SanityCheck'
  BY <1>2 DEF IInv, SanityCheck, RowInv
<1>4. AnnMap' = [AnnMap EXCEPT ![t] = AbstractRow(row)]
  <2>1. AnnMap' = [u \in Tx |-> AbstractRow(index'[u])]
    BY DEF AnnMap, AbstractRow
  <2>2. AnnMap = [u \in Tx |-> AbstractRow(index[u])]
    BY DEF AnnMap
  <2>3. AnnMap' = [u \in Tx |-> IF u = t THEN AbstractRow(row) ELSE AbstractRow(index[u])]
    BY <1>2, <2>1
  <2> QED BY <2>2, <2>3
<1>5. PeerInfoExact'
  <2> SUFFICES ASSUME NEW p \in Peer
               PROVE  peerinfo'[p] =
                 [total |-> Cardinality({u \in Tx : index'[u][p].state # "NONE"}),
                  completed |-> Cardinality({u \in Tx : index'[u][p].state = "COMPLETED"}),
                  requested |-> Cardinality({u \in Tx : index'[u][p].state = "REQUESTED"})]
    BY DEF PeerInfoExact
  <2> DEFINE T == {u \in Tx : index[u][p].state # "NONE"}
             C == {u \in Tx : index[u][p].state = "COMPLETED"}
             R == {u \in Tx : index[u][p].state = "REQUESTED"}
             T1 == {u \in Tx : index'[u][p].state # "NONE"}
             C1 == {u \in Tx : index'[u][p].state = "COMPLETED"}
             R1 == {u \in Tx : index'[u][p].state = "REQUESTED"}
  <2>1. peerinfo'[p] = Accounted(peerinfo[p], index[t][p], row[p])
    BY DEF SetRow
  <2>2. peerinfo[p] = [total |-> Cardinality(T), completed |-> Cardinality(C),
                       requested |-> Cardinality(R)]
    BY DEF IInv, PeerInfoExact
  <2>3. T \ {t} = T1 \ {t} /\ C \ {t} = C1 \ {t} /\ R \ {t} = R1 \ {t}
    BY <1>2
  <2>4. /\ t \in T <=> index[t][p].state # "NONE"
        /\ t \in C <=> index[t][p].state = "COMPLETED"
        /\ t \in R <=> index[t][p].state = "REQUESTED"
        /\ t \in T1 <=> row[p].state # "NONE"
        /\ t \in C1 <=> row[p].state = "COMPLETED"
        /\ t \in R1 <=> row[p].state = "REQUESTED"
    BY <1>2
  <2>5. /\ Cardinality(T1) = Cardinality(T) - One(t \in T) + One(t \in T1)
        /\ Cardinality(C1) = Cardinality(C) - One(t \in C) + One(t \in C1)
        /\ Cardinality(R1) = Cardinality(R) - One(t \in R) + One(t \in R1)
    <3> HIDE DEF T, C, R, T1, C1, R1
    <3>1. T \in SUBSET Tx /\ C \in SUBSET Tx /\ R \in SUBSET Tx
      BY DEF T, C, R
    <3>2. T1 \in SUBSET Tx /\ C1 \in SUBSET Tx /\ R1 \in SUBSET Tx
      BY DEF T1, C1, R1
    <3> QED BY <2>3, <3>1, <3>2, CountLemma
  <2> HIDE DEF T, C, R, T1, C1, R1
  <2>6. peerinfo'[p] = [total |-> Cardinality(T1), completed |-> Cardinality(C1),
                        requested |-> Cardinality(R1)]
    BY <2>1, <2>2, <2>4, <2>5 DEF Accounted, One
  <2> QED BY <2>6 DEF T1, C1, R1
<1> QED BY <1>2, <1>3, <1>4, <1>5

\* Steps that leave the announcements alone.
LEMMA QuietStep ==
  ASSUME IInv, UNCHANGED <<index, peerinfo>>
  PROVE  /\ index' \in [Tx -> Rows] /\ SanityCheck' /\ PeerInfoExact'
         /\ AnnMap' = AnnMap
BY DEF IInv, Typed, SanityCheck, PeerInfoExact, AnnMap, AbstractRow

LEMMA RowFacts ==
  ASSUME IInv, NEW t \in Tx
  PROVE  /\ RowInv(t, index[t]) /\ index[t] \in Rows
         /\ AnnMap[t] = AbstractRow(index[t])
         /\ \A p \in Peer : /\ index[t][p] \in Announcement
                            /\ AnnMap[t][p] = AbstractEntry(index[t][p])
BY DEF IInv, Typed, SanityCheck, RowInv, AnnMap, AbstractRow, Rows

\* Each operation keeps the invariant and is a step of the naive structure.
LEMMA InvStep ==
  ASSUME IInv, NEW p \in Peer, NEW t \in Tx, NEW preferred \in {0, 1},
         NEW reqtime \in Time, ReceivedInv(p, t, preferred, reqtime)
  PROVE  IInv' /\ Rules!ReceivedInv(p, t, preferred, reqtime)
<1> DEFINE e == [state |-> "DELAYED", time |-> reqtime, preferred |-> preferred]
           c == [state |-> "CANDIDATE", time |-> reqtime, preferred |-> preferred]
           new == [index[t] EXCEPT ![p] = e]
           row == IF index[t][p].state = "NONE" THEN new ELSE index[t]
<1>1. RowInv(t, index[t]) /\ AnnMap[t] = AbstractRow(index[t])
  BY RowFacts
<1>2. AnnMap[t][p].state = "NOTHING" <=> index[t][p].state = "NONE"
  BY RowFacts, AbstractLemma
<1>3. index[t][p].state = "NONE" =>
        RowInv(t, new) /\ AbstractRow(new) = [AbstractRow(index[t]) EXCEPT ![p] = c]
  BY <1>1, NewLemma
<1>4. /\ RowInv(t, row)
      /\ AbstractRow(row) = IF AnnMap[t][p].state = "NOTHING"
                              THEN [AnnMap[t] EXCEPT ![p] = c] ELSE AnnMap[t]
  BY <1>1, <1>2, <1>3, Zenon
<1>5. SetRow(t, row) /\ UNCHANGED <<call, leaving, offered>> /\ call.active = 0
  BY DEF ReceivedInv, Idle
<1> HIDE DEF row
<1>6. /\ index' \in [Tx -> Rows] /\ SanityCheck' /\ PeerInfoExact'
      /\ AnnMap' = [AnnMap EXCEPT ![t] = AbstractRow(row)]
  BY <1>4, <1>5, RowStep
<1>7. IInv'
  BY <1>5, <1>6 DEF IInv, Typed
<1> QED BY <1>4, <1>5, <1>6, <1>7
     DEF Rules!ReceivedInv, Rules!Idle, Rules!SetRow

LEMMA RequestStep ==
  ASSUME IInv, NEW p \in Peer, NEW t \in Tx, NEW expiry \in Time,
         RequestedTx(p, t, expiry)
  PROVE  IInv' /\ Rules!RequestedTx(p, t, expiry)
<1> DEFINE new == Requested(index[t], p, expiry)
           row == IF index[t][p].state \in {"DELAYED", "READY", "BEST"}
                    THEN new ELSE index[t]
           view == [q \in Peer |->
                      IF q = p THEN [state |-> "REQUESTED", time |-> expiry,
                                     preferred |-> AnnMap[t][q].preferred]
                      ELSE IF AnnMap[t][q].state = "REQUESTED"
                        THEN [AnnMap[t][q] EXCEPT !.state = "COMPLETED"]
                        ELSE AnnMap[t][q]]
<1>1. RowInv(t, index[t]) /\ AnnMap[t] = AbstractRow(index[t])
  BY RowFacts
<1>2. AnnMap[t][p].state = "CANDIDATE"
        <=> index[t][p].state \in {"DELAYED", "READY", "BEST"}
  BY RowFacts, AbstractLemma
<1>3. index[t][p].state \in {"DELAYED", "READY", "BEST"} =>
        RowInv(t, new) /\ AbstractRow(new) = view
  BY <1>1, RequestedLemma
<1>4. /\ RowInv(t, row)
      /\ AbstractRow(row) = IF AnnMap[t][p].state = "CANDIDATE" THEN view ELSE AnnMap[t]
  BY <1>1, <1>2, <1>3, Zenon
<1>5. SetRow(t, row) /\ UNCHANGED <<call, leaving, offered>> /\ call.active = 0
  BY DEF RequestedTx, Idle
<1> HIDE DEF row
<1>6. /\ index' \in [Tx -> Rows] /\ SanityCheck' /\ PeerInfoExact'
      /\ AnnMap' = [AnnMap EXCEPT ![t] = AbstractRow(row)]
  BY <1>4, <1>5, RowStep
<1>7. IInv'
  BY <1>5, <1>6 DEF IInv, Typed
<1> QED BY <1>4, <1>5, <1>6, <1>7
     DEF Rules!RequestedTx, Rules!Idle, Rules!SetRow

\* Completing one announcement, on a response or when a request expires.
LEMMA CompleteStep ==
  ASSUME IInv, NEW p \in Peer, NEW t \in Tx, index[t][p].state # "NONE",
         SetRow(t, MadeCompleted(t, index[t], p)), UNCHANGED <<call, leaving, offered>>
  PROVE  IInv' /\ Rules!SetRow(t, Rules!Completed(t, p))
<1> DEFINE row == MadeCompleted(t, index[t], p)
<1>1. RowInv(t, index[t]) /\ AnnMap[t] = AbstractRow(index[t])
  BY RowFacts
<1>2. /\ RowInv(t, row)
      /\ AbstractRow(row) = Rules!Cleanup([AnnMap[t] EXCEPT ![p].state = "COMPLETED"])
  <2>1. /\ RowInv(t, row)
        /\ AbstractRow(row)
             = Rules!Cleanup([AbstractRow(index[t]) EXCEPT ![p].state = "COMPLETED"])
    BY <1>1, MadeCompletedLemma
  <2> QED BY <1>1, <2>1
<1>3. /\ index' \in [Tx -> Rows] /\ SanityCheck' /\ PeerInfoExact'
      /\ AnnMap' = [AnnMap EXCEPT ![t] = AbstractRow(row)]
  BY <1>2, RowStep
<1>4. IInv'
  BY <1>3 DEF IInv, Typed
<1> QED BY <1>2, <1>3, <1>4 DEF Rules!SetRow, Rules!Completed

LEMMA ResponseStep ==
  ASSUME IInv, NEW p \in Peer, NEW t \in Tx, ReceivedResponse(p, t)
  PROVE  IInv' /\ Rules!ReceivedResponse(p, t)
<1>1. /\ RowInv(t, index[t]) /\ AnnMap[t] = AbstractRow(index[t])
      /\ AnnMap[t][p].state = "NOTHING" <=> index[t][p].state = "NONE"
  BY RowFacts, AbstractLemma
<1>2. UNCHANGED <<call, leaving, offered>> /\ call.active = 0
  BY DEF ReceivedResponse, Idle
<1>3. CASE index[t][p].state = "NONE"
  <2>1. SetRow(t, index[t])
    BY <1>3 DEF ReceivedResponse
  <2>2. /\ index' \in [Tx -> Rows] /\ SanityCheck' /\ PeerInfoExact'
        /\ AnnMap' = [AnnMap EXCEPT ![t] = AnnMap[t]]
    BY <1>1, <2>1, RowStep
  <2>3. IInv'
    BY <1>2, <2>2 DEF IInv, Typed
  <2> QED BY <1>1, <1>2, <1>3, <2>2, <2>3
       DEF Rules!ReceivedResponse, Rules!Idle, Rules!SetRow
<1>4. CASE index[t][p].state # "NONE"
  <2>1. SetRow(t, MadeCompleted(t, index[t], p))
    BY <1>4 DEF ReceivedResponse
  <2>2. IInv' /\ Rules!SetRow(t, Rules!Completed(t, p))
    BY <1>2, <1>4, <2>1, CompleteStep
  <2> QED BY <1>1, <1>2, <1>4, <2>2 DEF Rules!ReceivedResponse, Rules!Idle
<1> QED BY <1>3, <1>4

LEMMA ExpireStep ==
  ASSUME IInv, NEW p \in Peer, NEW t \in Tx, ExpireRequested(p, t)
  PROVE  IInv' /\ Rules!Expire(p, t)
<1>1. /\ index[t][p].state = "REQUESTED" /\ index[t][p].time <= call.now
      /\ call.active = 1 /\ UNCHANGED <<call, leaving, offered>>
      /\ SetRow(t, MadeCompleted(t, index[t], p))
  BY DEF ExpireRequested, Due
<1>2. AnnMap[t][p].state = "REQUESTED" /\ AnnMap[t][p].time <= call.now
  BY <1>1, RowFacts, AbstractLemma
<1>3. IInv' /\ Rules!SetRow(t, Rules!Completed(t, p))
  BY <1>1, CompleteStep
<1> QED BY <1>1, <1>2, <1>3 DEF Rules!Expire, Rules!Idle

LEMMA ForgetStep ==
  ASSUME IInv, NEW t \in Tx, ForgetTxHash(t)
  PROVE  IInv' /\ Rules!ForgetTxHash(t)
<1>1. SetRow(t, EmptyRow) /\ UNCHANGED <<call, leaving, offered>> /\ call.active = 0
  BY DEF ForgetTxHash, Idle
<1>2. /\ index' \in [Tx -> Rows] /\ SanityCheck' /\ PeerInfoExact'
      /\ AnnMap' = [AnnMap EXCEPT ![t] = AbstractRow(EmptyRow)]
  BY <1>1, EmptyLemma, RowStep
<1>3. IInv'
  BY <1>1, <1>2 DEF IInv, Typed
<1> QED BY <1>1, <1>2, <1>3, EmptyLemma
     DEF Rules!ForgetTxHash, Rules!Idle, Rules!SetRow

LEMMA DisconnectLemma ==
  ASSUME IInv, NEW p \in Peer, NEW t \in Tx, DisconnectStep(p, t)
  PROVE  IInv' /\ Rules!ForgetAnnouncement(p, t)
<1> DEFINE row == [MadeCompleted(t, index[t], p) EXCEPT ![p] = None]
<1>1. /\ index[t][p].state # "NONE" /\ UNCHANGED <<call, leaving, offered>>
      /\ SetRow(t, row)
  BY DEF DisconnectStep
<1>2. /\ RowInv(t, index[t]) /\ AnnMap[t] = AbstractRow(index[t])
      /\ AnnMap[t][p].state # "NOTHING"
  BY <1>1, RowFacts, AbstractLemma
<1>3. /\ RowInv(t, row)
      /\ AbstractRow(row) = Rules!Cleanup([AnnMap[t] EXCEPT ![p] = Rules!Nothing])
  <2>1. /\ RowInv(t, row)
        /\ AbstractRow(row)
             = Rules!Cleanup([AbstractRow(index[t]) EXCEPT ![p] = Rules!Nothing])
    BY <1>1, <1>2, MadeCompletedLemma
  <2> QED BY <1>2, <2>1
<1>4. /\ index' \in [Tx -> Rows] /\ SanityCheck' /\ PeerInfoExact'
      /\ AnnMap' = [AnnMap EXCEPT ![t] = AbstractRow(row)]
  BY <1>1, <1>3, RowStep
<1>5. IInv'
  BY <1>1, <1>4 DEF IInv, Typed
<1> QED BY <1>1, <1>2, <1>3, <1>4, <1>5 DEF Rules!ForgetAnnouncement, Rules!SetRow

\* Promotion and demotion of candidates are invisible in the naive view.
LEMMA SameViewStep ==
  ASSUME IInv, NEW t \in Tx, NEW row, RowInv(t, row), SetRow(t, row),
         AbstractRow(row) = AbstractRow(index[t]), UNCHANGED <<call, leaving, offered>>
  PROVE  IInv' /\ UNCHANGED Rules!vars
<1>1. /\ index' \in [Tx -> Rows] /\ SanityCheck' /\ PeerInfoExact'
      /\ AnnMap' = [AnnMap EXCEPT ![t] = AnnMap[t]]
  BY RowStep, RowFacts
<1>2. AnnMap' = AnnMap
  <2>1. AnnMap = [u \in Tx |-> AnnMap[u]]
    BY DEF AnnMap
  <2> QED BY <1>1, <2>1
<1>3. IInv'
  BY <1>1 DEF IInv, Typed
<1> QED BY <1>2, <1>3 DEF Rules!vars

LEMMA PromoteStep ==
  ASSUME IInv, NEW p \in Peer, NEW t \in Tx, PromoteDelayed(p, t)
  PROVE  IInv' /\ UNCHANGED Rules!vars
<1>1. /\ index[t][p].state = "DELAYED" /\ UNCHANGED <<call, leaving, offered>>
      /\ SetRow(t, Promoted(t, index[t], p))
  BY DEF PromoteDelayed
<1>2. RowInv(t, index[t])
  BY RowFacts
<1> QED BY <1>1, <1>2, PromotedLemma, SameViewStep

LEMMA DemoteStep ==
  ASSUME IInv, NEW p \in Peer, NEW t \in Tx, DemoteEarly(p, t)
  PROVE  IInv' /\ UNCHANGED Rules!vars
<1> DEFINE row == Reselected(t, index[t], p, "DELAYED")
<1>1. /\ index[t][p].state \in {"READY", "BEST"} /\ UNCHANGED <<call, leaving, offered>>
      /\ SetRow(t, row)
  BY DEF DemoteEarly, Early, IsSelectable
<1>2. RowInv(t, index[t]) /\ index[t][p] \in Announcement
  BY RowFacts
<1>3. /\ RowInv(t, row)
      /\ \A q \in Peer \ {p} : AbstractEntry(row[q]) = AbstractEntry(index[t][q])
      /\ row[p] = InState(index[t][p], "DELAYED")
  BY <1>1, <1>2, ReselectedLemma
<1>4. AbstractEntry(row[p]) = AbstractEntry(index[t][p])
  BY <1>1, <1>2, <1>3, CandidateLemma
<1>5. AbstractRow(row) = AbstractRow(index[t])
  BY <1>3, <1>4 DEF AbstractRow
<1> QED BY <1>1, <1>3, <1>5, SameViewStep

\* What GetRequestable returns is what a search of all announcements finds.
LEMMA ReturnStep ==
  ASSUME IInv, Return
  PROVE  IInv' /\ Rules!Return
<1>1. /\ call.active = 1 /\ NothingDue /\ NothingEarly
      /\ offered' = {t \in Tx : index[t][call.peer].state = "BEST"}
      /\ call' = NoCall /\ UNCHANGED <<index, peerinfo, leaving>>
  BY DEF Return
<1>2. call.peer \in Peer /\ call.now \in Int /\ call \in Calls
  BY TxRequestAssumption DEF IInv, Typed, Calls
<1>3. NoCall \in Calls
  BY TxRequestAssumption DEF NoCall, Calls
<1>4. IInv'
  BY <1>1, <1>3, QuietStep DEF IInv, Typed
<1>5. \A t \in Tx, p \in Peer :
        AnnMap[t][p].state = "REQUESTED" => AnnMap[t][p].time > call.now
  <2>1. \A t \in Tx, p \in Peer :
          /\ AnnMap[t][p].state = "REQUESTED" <=> index[t][p].state = "REQUESTED"
          /\ AnnMap[t][p].time = index[t][p].time
    BY RowFacts, AbstractLemma
  <2> QED BY <1>1, <2>1 DEF NothingDue, IsWaiting
<1>6. ASSUME NEW t \in Tx
      PROVE  index[t][call.peer].state = "BEST" <=> call.peer \in Rules!Selected(t, call.now)
  <2> DEFINE row == index[t]
             c == call.peer
             now == call.now
             P(q) == Priority(t, q, row[q])
  <2>1. RowOK(t, row)
    BY RowFacts DEF RowInv
  <2>2. \A q \in Peer :
          /\ AnnMap[t][q].state = "REQUESTED" <=> row[q].state = "REQUESTED"
          /\ AnnMap[t][q].state = "CANDIDATE" <=> row[q].state \in {"DELAYED", "READY", "BEST"}
          /\ AnnMap[t][q].time = row[q].time
          /\ Rules!Priority(t, q, AnnMap[t][q]) = P(q)
          /\ row[q].time \in Int
    <3>1. \A q \in Peer : row[q] \in Announcement /\ AnnMap[t][q] = AbstractEntry(row[q])
      BY RowFacts
    <3>2. \A q \in Peer : row[q].time \in Int
      BY <3>1, TxRequestAssumption DEF Announcement
    <3> QED BY <3>1, <3>2, AbstractLemma DEF Rules!Priority, Priority
  <2>3. \A q \in Peer : P(q) \in Nat /\ \A r \in Peer : P(q) = P(r) => q = r
    BY RowFacts, PriorityLemma
  <2>4. \A q \in Peer : AnnMap[t][q].state = "CANDIDATE" /\ AnnMap[t][q].time <= now
                         <=> row[q].state \in {"READY", "BEST"}
    BY <1>1, <1>2, <2>2 DEF NothingDue, NothingEarly, IsWaiting, IsSelectable
  <2>5. c \in Rules!Selected(t, now) <=>
          /\ \A q \in Peer : row[q].state # "REQUESTED"
          /\ row[c].state \in {"READY", "BEST"}
          /\ \A q \in Peer : row[q].state \in {"READY", "BEST"} => P(c) >= P(q)
    BY <1>2, <2>2, <2>4, Zenon DEF Rules!Selected
  <2>6. ASSUME row[c].state = "BEST" PROVE c \in Rules!Selected(t, now)
    BY <1>2, <2>1, <2>3, <2>5, <2>6 DEF RowOK, IsSelected
  <2>7. ASSUME /\ \A q \in Peer : row[q].state # "REQUESTED"
               /\ row[c].state = "READY"
               /\ \A q \in Peer : row[q].state \in {"READY", "BEST"} => P(c) >= P(q)
        PROVE  FALSE
    <3>1. PICK b \in Peer : row[b].state = "BEST"
      BY <1>2, <2>1, <2>7 DEF RowOK, IsSelected
    <3>2. P(b) >= P(c) /\ P(c) >= P(b)
      BY <1>2, <2>1, <2>7, <3>1 DEF RowOK
    <3> QED BY <1>2, <2>3, <2>7, <3>1, <3>2
  <2> QED BY <2>5, <2>6, <2>7
<1>7. offered' = {t \in Tx : call.peer \in Rules!Selected(t, call.now)}
  BY <1>1, <1>6
<1>8. AnnMap' = AnnMap
  BY <1>1, QuietStep
<1>9. NoCall = Rules!NoCall
  BY DEF NoCall, Rules!NoCall
<1> QED BY <1>1, <1>4, <1>5, <1>7, <1>8, <1>9 DEF Rules!Return, Rules!Idle
-----------------------------------------------------------------------------
LEMMA InitLemma == Init => IInv /\ Rules!Init
<1> SUFFICES ASSUME Init PROVE IInv /\ Rules!Init
  OBVIOUS
<1>1. \A t \in Tx : index[t] = EmptyRow
  BY DEF Init, EmptyRow
<1>2. index \in [Tx -> Rows] /\ SanityCheck
  <2>1. \A t \in Tx : index[t] \in Rows /\ RowOK(t, index[t])
    BY <1>1, EmptyLemma DEF RowInv
  <2>2. index = [t \in Tx |-> index[t]]
    BY DEF Init
  <2> QED BY <2>1, <2>2 DEF SanityCheck
<1>3. Typed
  BY <1>2, TxRequestAssumption DEF Init, Typed, NoCall, Calls
<1>4. PeerInfoExact
  <2>1. \A t \in Tx, p \in Peer : index[t][p].state = "NONE"
    BY <1>1 DEF EmptyRow, None
  <2>2. \A p \in Peer : /\ {t \in Tx : index[t][p].state # "NONE"} = {}
                        /\ {t \in Tx : index[t][p].state = "COMPLETED"} = {}
                        /\ {t \in Tx : index[t][p].state = "REQUESTED"} = {}
    BY <2>1
  <2>3. Cardinality({}) = 0
    BY FS_EmptySet
  <2> QED BY <2>2, <2>3 DEF Init, NoInfo, PeerInfoExact
<1>5. Rules!Init
  <2>1. AnnMap = [t \in Tx |-> [p \in Peer |-> Rules!Nothing]]
    BY <1>1, EmptyLemma DEF AnnMap
  <2>2. NoCall = Rules!NoCall
    BY DEF NoCall, Rules!NoCall
  <2> QED BY <2>1, <2>2 DEF Init, Rules!Init
<1> QED BY <1>2, <1>3, <1>4, <1>5 DEF IInv

LEMMA NextLemma ==
  ASSUME IInv, [Next]_vars
  PROVE  IInv' /\ [Rules!Next]_(Rules!vars)
<1>1. ASSUME NEW p \in Peer, NEW t \in Tx, NEW preferred \in {0, 1}, NEW reqtime \in Time,
             ReceivedInv(p, t, preferred, reqtime)
      PROVE  IInv' /\ Rules!Next
  BY <1>1, InvStep DEF Rules!Next
<1>2. ASSUME NEW p \in Peer, NEW t \in Tx, NEW expiry \in Time, RequestedTx(p, t, expiry)
      PROVE  IInv' /\ Rules!Next
  BY <1>2, RequestStep DEF Rules!Next
<1>3. ASSUME NEW p \in Peer, NEW t \in Tx, ReceivedResponse(p, t)
      PROVE  IInv' /\ Rules!Next
  BY <1>3, ResponseStep DEF Rules!Next
<1>4. ASSUME NEW p \in Peer, NEW t \in Tx, DisconnectStep(p, t)
      PROVE  IInv' /\ Rules!Next
  BY <1>4, DisconnectLemma DEF Rules!Next
<1>5. ASSUME NEW p \in Peer, NEW t \in Tx, PromoteDelayed(p, t) \/ DemoteEarly(p, t)
      PROVE  IInv' /\ UNCHANGED Rules!vars
  BY <1>5, PromoteStep, DemoteStep
<1>6. ASSUME NEW p \in Peer, NEW t \in Tx, ExpireRequested(p, t)
      PROVE  IInv' /\ Rules!Next
  BY <1>6, ExpireStep DEF Rules!Next
<1>7. ASSUME NEW t \in Tx, ForgetTxHash(t)
      PROVE  IInv' /\ Rules!Next
  BY <1>7, ForgetStep DEF Rules!Next
<1>8. ASSUME NEW p \in Peer, DisconnectedPeer(p) \/ DisconnectDone(p)
      PROVE  IInv' /\ UNCHANGED Rules!vars
  <2>1. UNCHANGED <<index, peerinfo, call, offered>> /\ leaving' \subseteq Peer
    BY <1>8 DEF DisconnectedPeer, DisconnectDone, IInv, Typed
  <2> QED BY <2>1, QuietStep DEF IInv, Typed, Rules!vars
<1>9. ASSUME NEW p \in Peer, NEW now \in Time, GetRequestable(p, now)
      PROVE  IInv' /\ Rules!Next
  <2>1. /\ UNCHANGED <<index, peerinfo, leaving, offered>> /\ call.active = 0
        /\ call' = [active |-> 1, peer |-> p, now |-> now]
    BY <1>9 DEF GetRequestable, Idle
  <2>2. IInv' /\ AnnMap' = AnnMap
    BY <2>1, QuietStep DEF IInv, Typed, Calls
  <2>3. Rules!Begin(p, now)
    BY <2>1, <2>2 DEF Rules!Begin, Rules!Idle
  <2> QED BY <2>2, <2>3 DEF Rules!Next
<1>10. CASE Return
  BY <1>10, ReturnStep DEF Rules!Next
<1>11. CASE UNCHANGED vars
  <2>1. UNCHANGED <<index, peerinfo, call, leaving, offered>>
    BY <1>11 DEF vars
  <2> QED BY <2>1, QuietStep DEF IInv, Typed, Rules!vars
<1> QED
  BY <1>1, <1>2, <1>3, <1>4, <1>5, <1>6, <1>7, <1>8, <1>9, <1>10, <1>11 DEF Next

\* The tracker is in order whatever calls were made, for any sets of peers,
\* transactions and times.
THEOREM TrackerConsistent == Spec => []IInv
BY InitLemma, NextLemma, PTL DEF Spec

\* SanityCheck never fails: no transaction has two selected announcements, or
\* a ready one that is better than the best.
THEOREM SanityCorrect == Spec => []SanityCheck
<1>1. IInv => SanityCheck
  BY DEF IInv
<1> QED BY <1>1, TrackerConsistent, PTL

\* The per-peer statistics are those that RecomputePeerInfo would count.
THEOREM PeerInfoCorrect == Spec => []PeerInfoExact
<1>1. IInv => PeerInfoExact
  BY DEF IInv
<1> QED BY <1>1, TrackerConsistent, PTL

\* TxRequestTracker implements the naive structure of the fuzz test.
THEOREM TrackerRefinement == Spec => ImplementsRules
<1>1. ImplementsRules <=> Rules!Init /\ [][Rules!Next]_(Rules!vars)
  BY DEF ImplementsRules, Rules!Spec
<1> QED BY InitLemma, NextLemma, TrackerConsistent, <1>1, PTL DEF Spec
=============================================================================
