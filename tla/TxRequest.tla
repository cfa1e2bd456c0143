----------------------------- MODULE TxRequest -----------------------------
(***************************************************************************)
(* TxRequestTracker (txrequest.cpp): which peer announced which            *)
(* transaction, and whom to ask for it.  Candidates are split into delayed, *)
(* ready and best ones so that the best choice need not be searched for;    *)
(* every operation has to keep the split right.                            *)
(*                                                                         *)
(* The tracker is used under cs_main.  The loops of SetTimePoint and        *)
(* DisconnectedPeer are taken one iteration at a time and nothing else      *)
(* happens in between.  Times may go backwards from call to call.          *)
(***************************************************************************)
EXTENDS Integers, FiniteSets

CONSTANTS Peer, Tx, Time, Rank, High

ASSUME TxRequestAssumption ==
  /\ IsFiniteSet(Peer) /\ IsFiniteSet(Tx)
  /\ Peer # {}
  /\ Time \subseteq Int /\ 0 \in Time
  /\ High \in Nat
  /\ Rank \in [Tx -> [Peer -> 0 .. High - 1]]
  /\ \A t \in Tx : \A p, q \in Peer : Rank[t][p] = Rank[t][q] => p = q

VARIABLES
  index,      \* m_index: per transaction and peer, the announcement
  peerinfo,   \* m_peerinfo: per peer, the number of announcements by kind
  call,       \* the call of GetRequestable in progress
  leaving,    \* the peers whose DisconnectedPeer is in progress
  offered     \* what the last call of GetRequestable returned

vars == <<index, peerinfo, call, leaving, offered>>

States == {"NONE", "DELAYED", "READY", "BEST", "REQUESTED", "COMPLETED"}
Announcement == [state : States, time : Time, preferred : {0, 1}]
None == [state |-> "NONE", time |-> 0, preferred |-> 0]
NoInfo == [total |-> 0, completed |-> 0, requested |-> 0]
NoCall == [active |-> 0, peer |-> CHOOSE p \in Peer : TRUE, now |-> 0]
Calls == [active : {0, 1}, peer : Peer, now : Time]

TypeOK ==
  /\ index \in [Tx -> [Peer -> Announcement]]
  /\ peerinfo \in [Peer -> [total : Nat, completed : Nat, requested : Nat]]
  /\ call \in Calls
  /\ leaving \subseteq Peer
  /\ offered \subseteq Tx

Init ==
  /\ index = [t \in Tx |-> [p \in Peer |-> None]]
  /\ peerinfo = [p \in Peer |-> NoInfo]
  /\ call = NoCall
  /\ leaving = {}
  /\ offered = {}
-----------------------------------------------------------------------------
(* Operations on a row, the announcements of one transaction.              *)

IsSelected(e) == e.state \in {"BEST", "REQUESTED"}
IsWaiting(e) == e.state \in {"REQUESTED", "DELAYED"}
IsSelectable(e) == e.state \in {"READY", "BEST"}

Priority(t, p, e) == IF e.preferred = 1 THEN High + Rank[t][p] ELSE Rank[t][p]

InState(e, state) == [e EXCEPT !.state = state]
SetState(row, p, state) == [row EXCEPT ![p] = InState(row[p], state)]

\* Among the ready announcements of a row, the one last in the ByTxHash order.
LastReady(t, row) ==
  {p \in Peer :
     /\ row[p].state = "READY"
     /\ \A q \in Peer : row[q].state = "READY"
          => Priority(t, p, row[p]) >= Priority(t, q, row[q])}

\* Mutant: an older best announcement is never displaced.
PromotedKeepsBest(t, row, p) ==
  IF \E q \in Peer : IsSelected(row[q])
    THEN SetState(row, p, "READY") ELSE SetState(row, p, "BEST")

\* PromoteCandidateReady.  What follows the announcement in the ByTxHash order
\* is a better ready one, the selected one, or neither.
Promoted(t, row, p) ==
  LET ready == SetState(row, p, "READY")
      Beaten(q) == row[q].state = "BEST"
                     /\ Priority(t, p, row[p]) > Priority(t, q, row[q])
  IN  IF p \notin LastReady(t, ready) THEN ready
      ELSE IF \A q \in Peer : ~IsSelected(row[q]) THEN SetState(row, p, "BEST")
      ELSE [q \in Peer |-> IF Beaten(q) THEN InState(row[q], "READY")
                           ELSE IF q = p /\ \E b \in Peer : Beaten(b)
                             THEN InState(row[q], "BEST")
                           ELSE ready[q]]

\* Mutant: the next best announcement is not selected.
ReselectedNone(t, row, p, state) == SetState(row, p, state)

\* ChangeAndReselect: the announcement is no longer selected, and the last
\* ready one takes its place.
Reselected(t, row, p, state) ==
  [q \in Peer |->
     IF q = p THEN InState(row[q], state)
     ELSE IF IsSelected(row[p]) /\ q \in LastReady(t, row)
       THEN InState(row[q], "BEST")
       ELSE row[q]]

IsOnlyNonCompleted(row, p) ==
  \A q \in Peer \ {p} : row[q].state \in {"NONE", "COMPLETED"}

EmptyRow == [p \in Peer |-> None]

\* Mutant: completed announcements stay when nothing else is left.
MadeCompletedKept(t, row, p) ==
  IF row[p].state = "COMPLETED" THEN row ELSE Reselected(t, row, p, "COMPLETED")

\* MakeCompleted, which deletes the whole row when nothing else is left.
MadeCompleted(t, row, p) ==
  IF row[p].state = "COMPLETED" THEN row
  ELSE IF IsOnlyNonCompleted(row, p) THEN EmptyRow
  ELSE Reselected(t, row, p, "COMPLETED")

\* RequestedTx for a candidate, also one that GetRequestable did not return.
Requested(row, p, expiry) ==
  [q \in Peer |->
     IF q = p THEN [state |-> "REQUESTED", time |-> expiry,
                    preferred |-> row[q].preferred]
     ELSE IF row[p].state # "BEST" /\ row[q].state = "BEST"
       THEN InState(row[q], "READY")
     ELSE IF row[p].state # "BEST" /\ row[q].state = "REQUESTED"
       THEN InState(row[q], "COMPLETED")
     ELSE row[q]]
-----------------------------------------------------------------------------
(* The operations.                                                         *)

One(condition) == IF condition THEN 1 ELSE 0

\* Mutant: a request that ends is still counted.
AccountedNoRequested(info, old, new) ==
  [total |-> info.total - One(old.state # "NONE") + One(new.state # "NONE"),
   completed |-> info.completed - One(old.state = "COMPLETED")
                   + One(new.state = "COMPLETED"),
   requested |-> info.requested + One(new.state = "REQUESTED" /\ new # old)]

\* Modify and Erase keep the statistics of the peer whose announcement changes.
Accounted(info, old, new) ==
  [total |-> info.total - One(old.state # "NONE") + One(new.state # "NONE"),
   completed |-> info.completed - One(old.state = "COMPLETED")
                   + One(new.state = "COMPLETED"),
   requested |-> info.requested - One(old.state = "REQUESTED")
                   + One(new.state = "REQUESTED")]

SetRow(t, row) ==
  /\ index' = [index EXCEPT ![t] = row]
  /\ peerinfo' = [p \in Peer |-> Accounted(peerinfo[p], index[t][p], row[p])]

Idle == call.active = 0 /\ leaving = {}

ReceivedInv(p, t, preferred, reqtime) ==
  /\ Idle
  /\ SetRow(t, IF index[t][p].state = "NONE"
                 THEN [index[t] EXCEPT ![p] = [state |-> "DELAYED",
                         time |-> reqtime, preferred |-> preferred]]
                 ELSE index[t])
  /\ UNCHANGED <<call, leaving, offered>>

RequestedTx(p, t, expiry) ==
  /\ Idle
  /\ SetRow(t, IF index[t][p].state \in {"DELAYED", "READY", "BEST"}
                 THEN Requested(index[t], p, expiry) ELSE index[t])
  /\ UNCHANGED <<call, leaving, offered>>

ReceivedResponse(p, t) ==
  /\ Idle
  /\ SetRow(t, IF index[t][p].state = "NONE" THEN index[t]
               ELSE MadeCompleted(t, index[t], p))
  /\ UNCHANGED <<call, leaving, offered>>

ForgetTxHash(t) ==
  /\ Idle
  /\ SetRow(t, EmptyRow)
  /\ UNCHANGED <<call, leaving, offered>>

DisconnectedPeer(p) ==
  /\ Idle
  /\ leaving' = {p}
  /\ UNCHANGED <<index, peerinfo, call, offered>>

\* One iteration of DisconnectedPeer: the announcement is completed, which
\* selects another, and erased.
DisconnectStep(p, t) ==
  /\ p \in leaving /\ index[t][p].state # "NONE"
  /\ SetRow(t, [MadeCompleted(t, index[t], p) EXCEPT ![p] = None])
  /\ UNCHANGED <<call, leaving, offered>>

DisconnectDone(p) ==
  /\ p \in leaving /\ \A t \in Tx : index[t][p].state = "NONE"
  /\ leaving' = leaving \ {p}
  /\ UNCHANGED <<index, peerinfo, call, offered>>

GetRequestable(p, now) ==
  /\ Idle
  /\ call' = [active |-> 1, peer |-> p, now |-> now]
  /\ UNCHANGED <<index, peerinfo, leaving, offered>>

\* The waiting announcement that is first in the ByTime order, and due.
Due(p, t) ==
  /\ call.active = 1
  /\ IsWaiting(index[t][p]) /\ index[t][p].time <= call.now
  /\ \A q \in Peer, u \in Tx :
       IsWaiting(index[u][q]) => index[t][p].time <= index[u][q].time

\* The selectable announcement that is last in the ByTime order, and early:
\* the clock went backwards.
Early(p, t) ==
  /\ call.active = 1
  /\ IsSelectable(index[t][p]) /\ index[t][p].time > call.now
  /\ \A q \in Peer, u \in Tx :
       IsSelectable(index[u][q]) => index[t][p].time >= index[u][q].time

NothingDue ==
  \A p \in Peer, t \in Tx : IsWaiting(index[t][p]) => index[t][p].time > call.now
NothingEarly ==
  \A p \in Peer, t \in Tx :
    IsSelectable(index[t][p]) => index[t][p].time <= call.now

PromoteDelayed(p, t) ==
  /\ Due(p, t) /\ index[t][p].state = "DELAYED"
  /\ SetRow(t, Promoted(t, index[t], p))
  /\ UNCHANGED <<call, leaving, offered>>

ExpireRequested(p, t) ==
  /\ Due(p, t) /\ index[t][p].state = "REQUESTED"
  /\ SetRow(t, MadeCompleted(t, index[t], p))
  /\ UNCHANGED <<call, leaving, offered>>

DemoteEarly(p, t) ==
  /\ NothingDue
  /\ Early(p, t)
  /\ SetRow(t, Reselected(t, index[t], p, "DELAYED"))
  /\ UNCHANGED <<call, leaving, offered>>

Return ==
  /\ call.active = 1
  /\ NothingDue /\ NothingEarly
  /\ offered' = {t \in Tx : index[t][call.peer].state = "BEST"}
  /\ call' = NoCall
  /\ UNCHANGED <<index, peerinfo, leaving>>

Next ==
  \/ \E p \in Peer, t \in Tx :
       \/ \E preferred \in {0, 1}, reqtime \in Time :
            ReceivedInv(p, t, preferred, reqtime)
       \/ \E expiry \in Time : RequestedTx(p, t, expiry)
       \/ ReceivedResponse(p, t)
       \/ DisconnectStep(p, t)
       \/ PromoteDelayed(p, t)
       \/ ExpireRequested(p, t)
       \/ DemoteEarly(p, t)
  \/ \E t \in Tx : ForgetTxHash(t)
  \/ \E p \in Peer : DisconnectedPeer(p) \/ DisconnectDone(p)
  \/ \E p \in Peer, now \in Time : GetRequestable(p, now)
  \/ Return

Spec == Init /\ [][Next]_vars
-----------------------------------------------------------------------------
(* Properties.                                                             *)

\* The assertions of SanityCheck on the announcements of one transaction: some
\* announcement is not completed, at most one is selected, one is when another
\* is ready, and the best beats every ready one.
RowOK(t, row) ==
  /\ (\E p \in Peer : row[p].state # "NONE")
       => \E p \in Peer : row[p].state \notin {"NONE", "COMPLETED"}
  /\ \A p, q \in Peer : IsSelected(row[p]) /\ IsSelected(row[q]) => p = q
  /\ (\E p \in Peer : row[p].state = "READY")
       => \E p \in Peer : IsSelected(row[p])
  /\ \A p, q \in Peer : row[p].state = "BEST" /\ row[q].state = "READY"
       => Priority(t, p, row[p]) >= Priority(t, q, row[q])

\* SanityCheck holds after every operation and between any two iterations of
\* the loops of SetTimePoint and DisconnectedPeer.
SanityCheck == \A t \in Tx : RowOK(t, index[t])

\* RecomputePeerInfo gives the statistics that Modify and Erase maintain, which
\* the limits on a peer's announcements and requests in flight rest on.
PeerInfoExact ==
  \A p \in Peer :
    peerinfo[p] =
      [total |-> Cardinality({t \in Tx : index[t][p].state # "NONE"}),
       completed |-> Cardinality({t \in Tx : index[t][p].state = "COMPLETED"}),
       requested |-> Cardinality({t \in Tx : index[t][p].state = "REQUESTED"})]

AbstractState(state) ==
  CASE state = "NONE" -> "NOTHING"
    [] state \in {"DELAYED", "READY", "BEST"} -> "CANDIDATE"
    [] OTHER -> state

AbstractEntry(e) ==
  [state |-> AbstractState(e.state), time |-> e.time, preferred |-> e.preferred]
AbstractRow(row) == [p \in Peer |-> AbstractEntry(row[p])]
AnnMap == [t \in Tx |-> AbstractRow(index[t])]

Rules == INSTANCE TxRequestRules WITH ann <- AnnMap

\* The tracker behaves like the naive structure of the fuzz test: whatever
\* calls were made before, GetRequestable returns what a search of all
\* announcements would.
ImplementsRules == Rules!Spec
=============================================================================
