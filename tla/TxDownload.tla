----------------------------- MODULE TxDownload -----------------------------
(***************************************************************************)
(* How PeerManagerImpl (net_processing.cpp) obtains transactions: peers     *)
(* announce and send them, the TxRequestTracker decides whom to ask, those  *)
(* with unknown inputs wait in the TxOrphanage, and filters remember what   *)
(* was rejected and what was confirmed.                                    *)
(*                                                                         *)
(* Three threads are at work.  The message thread runs the handlers, each   *)
(* under cs_main.  Validation connects and disconnects blocks and queues    *)
(* the events.  The scheduler thread delivers them later; BlockConnected    *)
(* takes three locks one after the other, so other threads get in between. *)
(*                                                                         *)
(* The tracker appears as TxRequestRules describes it, without times and    *)
(* priorities: a candidate may be due or not, a request may have expired    *)
(* or not.                                                                 *)
(***************************************************************************)
EXTENDS TxOrphanage

CONSTANTS
  Witness,      \* the transactions whose wtxid differs from the txid
  Policy,       \* the verdicts AcceptToMemoryPool may give on a transaction
  Blocks,       \* the sets of transactions of the blocks, by height
  MaxAnnounced, \* MAX_PEER_TX_ANNOUNCEMENTS
  MaxPending    \* bound on the events not delivered yet

ASSUME TxDownloadAssumption ==
  /\ Witness \subseteq Tx
  /\ Policy \in [Tx -> SUBSET {"VALID", "REJECTED", "STRIPPED", "NONSTANDARD"}]
  /\ Blocks \in Seq(SUBSET Tx)
  /\ MaxPending \in Nat /\ MaxAnnounced \in Nat

VARIABLES
  connected,  \* m_node_states
  ann,        \* m_txrequest: per hash and peer
  orphanage,  \* m_orphanage
  pool,       \* m_mempool
  height,     \* of the active chain
  rejects,    \* m_recent_rejects
  rejectsTip, \* hashRecentRejectsChainTip
  recent,     \* m_recent_confirmed_transactions
  events,     \* validation events that are queued
  stage,      \* the locks BlockConnected has taken for the first event
  missed,     \* outputs that became available in other ways than by relay
  unrelayed   \* transactions that entered the pool in other ways than by relay

vars == <<connected, ann, orphanage, pool, height, rejects, rejectsTip, recent,
          events, stage, missed, unrelayed>>

Hash == {[tx |-> x, wtxid |-> FALSE] : x \in Outpoint}
          \cup {[tx |-> x, wtxid |-> TRUE] : x \in Witness}
Txid(x) == [tx |-> x, wtxid |-> FALSE]
Wtxid(x) == [tx |-> x, wtxid |-> x \in Witness]
Hashes(x) == {Txid(x), Wtxid(x)}

Announcement == {"none", "candidate", "requested", "completed"}
Event == [type : {"connected", "disconnected"}, block : DOMAIN Blocks]

TypeOK ==
  /\ connected \subseteq Peer
  /\ ann \in [Hash -> [Peer -> Announcement]]
  /\ orphanage \in Orphanages
  /\ pool \subseteq Tx /\ unrelayed \subseteq pool
  /\ height \in 0 .. Len(Blocks) /\ rejectsTip \in 0 .. Len(Blocks)
  /\ rejects \subseteq Hash /\ recent \subseteq Tx
  /\ events \in Seq(Event) /\ stage \in {"none", "erased", "filtered"}
  /\ missed \subseteq Outpoint

Init ==
  /\ connected = Peer
  /\ ann = [h \in Hash |-> [p \in Peer |-> "none"]]
  /\ orphanage = EmptyOrphanage
  /\ pool = {} /\ unrelayed = {} /\ missed = {}
  /\ height = 0 /\ rejectsTip = 0
  /\ rejects = {} /\ recent = {}
  /\ events = <<>> /\ stage = "none"
-----------------------------------------------------------------------------
(* The tracker.                                                            *)

Tidy(row) ==
  IF \A p \in Peer : row[p] \in {"none", "completed"}
    THEN [p \in Peer |-> "none"] ELSE row

Announced(a, p) == Cardinality({h \in Hash : a[h][p] # "none"})

\* AddTxAnnouncement and ReceivedInv.
AddTxAnnouncement(a, p, h) ==
  IF Announced(a, p) >= MaxAnnounced \/ a[h][p] # "none" THEN a
  ELSE [a EXCEPT ![h][p] = "candidate"]

ReceivedResponse(a, p, h) ==
  IF a[h][p] = "none" THEN a
  ELSE [a EXCEPT ![h] = Tidy([@ EXCEPT ![p] = "completed"])]

ForgetTxHashes(a, hs) ==
  [h \in Hash |-> IF h \in hs THEN [p \in Peer |-> "none"] ELSE a[h]]

DisconnectedPeer(a, p) == [h \in Hash |-> Tidy([a[h] EXCEPT ![p] = "none"])]

\* GetRequestable first completes the requests that have expired.
Expire(a, expired) ==
  [h \in Hash |-> Tidy([p \in Peer |-> IF <<h, p>> \in expired THEN "completed"
                                       ELSE a[h][p]])]

RequestedTx(a, p, hs) ==
  [h \in Hash |-> IF h \in hs THEN [a[h] EXCEPT ![p] = "requested"] ELSE a[h]]
-----------------------------------------------------------------------------
(* Chain and memory pool.                                                  *)

Confirmed(n) == {Base} \cup UNION {Blocks[i] : i \in 1 .. n}
AvailableIn(txs, n) ==
  {i \in Outpoint : i \in txs \cup Confirmed(n)
                    /\ \A y \in Confirmed(n) \ {Base} : i \notin Inputs[y]}
Available == AvailableIn(pool, height)
InputsAvailable(x) == Inputs[x] \subseteq Available

\* The transactions and what spends them, directly or not: the least set that
\* has them and whatever spends one of its members.
WithDescendants(txs, within) ==
  LET all == txs \cup within
  IN  {x \in all : \A S \in SUBSET all :
                      /\ txs \subseteq S
                      /\ \A y \in within : Inputs[y] \cap S # {} => y \in S
                      => x \in S}

Conflicts(txs) ==
  {y \in pool \ txs : \E x \in txs : Inputs[x] \cap Inputs[y] # {}}
Without(txs) == pool \ WithDescendants(txs, pool)

\* What AcceptToMemoryPool may say of a transaction now.
Verdicts(x) ==
  IF x \in pool THEN {"REJECTED"}
  ELSE IF InputsAvailable(x) THEN Policy[x]
  ELSE {"MISSING"} \cup (Policy[x] \cap {"REJECTED"})
         \cup (IF x \in Available THEN {"REJECTED"} ELSE {})

\* The pool after a change, and what the change made available when it was not
\* made by relay.
SetPool(txs, n, relayed) ==
  /\ pool' = txs
  /\ missed' = AvailableIn(txs, n) \cap
                 (missed \cup (IF relayed THEN {} ELSE Outpoint \ Available))
  /\ unrelayed' = (unrelayed \cap txs) \cup (IF relayed THEN {} ELSE txs \ pool)
-----------------------------------------------------------------------------
(* The message thread.                                                     *)

\* AlreadyHaveTx, which forgets the rejections when the tip has changed.
Rejects == IF rejectsTip = height THEN rejects ELSE {}
AlreadyHave(h) ==
  \/ h.tx # Base /\ HaveTx(orphanage, h.tx, h.wtxid)
  \/ h.tx \in recent
  \/ h \in Rejects
  \/ h.tx \in pool

SetRejects(hs) == rejects' = hs /\ rejectsTip' = height

\* Mutant: the announcements of a peer that leaves stay.
FinalizeNodeKeepAnn(p) ==
  /\ p \in connected
  /\ connected' = connected \ {p}
  /\ orphanage' = EraseForPeer(orphanage, p)
  /\ UNCHANGED <<ann, pool, height, rejects, rejectsTip, recent, events, stage,
                 missed, unrelayed>>

FinalizeNode(p) ==
  /\ p \in connected
  /\ connected' = connected \ {p}
  /\ orphanage' = EraseForPeer(orphanage, p)
  /\ ann' = DisconnectedPeer(ann, p)
  /\ UNCHANGED <<pool, height, rejects, rejectsTip, recent, events, stage, missed,
                 unrelayed>>

InitializeNode(p) ==
  /\ p \notin connected
  /\ connected' = connected \cup {p}
  /\ UNCHANGED <<ann, orphanage, pool, height, rejects, rejectsTip, recent, events,
                 stage, missed, unrelayed>>

\* A message is processed once ProcessOrphanTx has found no orphan to process.
MessageFrom(p) == p \in connected /\ orphanage.work[p] = {}

Inv(p, h) ==
  /\ MessageFrom(p)
  /\ ann' = IF AlreadyHave(h) THEN ann ELSE AddTxAnnouncement(ann, p, h)
  /\ SetRejects(Rejects)
  /\ UNCHANGED <<connected, orphanage, pool, height, recent, events, stage, missed,
                 unrelayed>>

NotFound(p, h) ==
  /\ MessageFrom(p)
  /\ ann' = ReceivedResponse(ann, p, h)
  /\ UNCHANGED <<connected, orphanage, pool, height, rejects, rejectsTip, recent,
                 events, stage, missed, unrelayed>>

\* A transaction message begins by answering the request, if there was one.
Responded(p, x) ==
  ReceivedResponse(ReceivedResponse(ann, p, Txid(x)), p, Wtxid(x))

TxKnown(p, x) ==
  /\ MessageFrom(p)
  /\ AlreadyHave(Wtxid(x))
  /\ ann' = Responded(p, x)
  /\ SetRejects(Rejects)
  /\ UNCHANGED <<connected, orphanage, pool, height, recent, events, stage, missed,
                 unrelayed>>

\* Mutant: the orphans that spend the transaction are not put to work.
TxAcceptedOnly(p, x) ==
  /\ MessageFrom(p)
  /\ ~AlreadyHave(Wtxid(x)) /\ "VALID" \in Verdicts(x)
  /\ SetPool(Without(Conflicts({x})) \cup {x}, height, TRUE)
  /\ ann' = ForgetTxHashes(Responded(p, x), Hashes(x))
  /\ SetRejects(Rejects)
  /\ UNCHANGED <<connected, orphanage, height, recent, events, stage>>

TxAccepted(p, x) ==
  /\ MessageFrom(p)
  /\ ~AlreadyHave(Wtxid(x)) /\ "VALID" \in Verdicts(x)
  /\ SetPool(Without(Conflicts({x})) \cup {x}, height, TRUE)
  /\ ann' = ForgetTxHashes(Responded(p, x), Hashes(x))
  /\ orphanage' = AddChildrenToWorkSet(orphanage, x)
  /\ SetRejects(Rejects)
  /\ UNCHANGED <<connected, height, recent, events, stage>>

\* The parents are announced in the order of their txids (unique_parents).
AnnounceParents(a, p, parents) ==
  LET announced[i \in 0 .. Len(Txids)] ==
        IF i = 0 THEN a
        ELSE IF Txids[i] \notin parents \/ AlreadyHave(Txid(Txids[i])) THEN announced[i - 1]
        ELSE AddTxAnnouncement(announced[i - 1], p, Txid(Txids[i]))
  IN  announced[Len(Txids)]

\* Inputs are missing: the parents are asked for and the transaction is kept.
TxOrphaned(p, x) ==
  /\ MessageFrom(p)
  /\ ~AlreadyHave(Wtxid(x)) /\ "MISSING" \in Verdicts(x)
  /\ \A i \in Inputs[x] : Txid(i) \notin Rejects
  /\ ann' = ForgetTxHashes(AnnounceParents(Responded(p, x), p, Inputs[x]), Hashes(x))
  /\ LET added == AddTx(orphanage, x, p)
     IN  \E expired \in SUBSET Orphans(added) :
           orphanage' \in LimitOrphans(added, expired)
  /\ SetRejects(Rejects)
  /\ UNCHANGED <<connected, pool, height, recent, events, stage, missed, unrelayed>>

\* Inputs are missing and a parent was rejected.
TxParentRejected(p, x) ==
  /\ MessageFrom(p)
  /\ ~AlreadyHave(Wtxid(x)) /\ "MISSING" \in Verdicts(x)
  /\ \E i \in Inputs[x] : Txid(i) \in Rejects
  /\ ann' = ForgetTxHashes(Responded(p, x), Hashes(x))
  /\ SetRejects(Rejects \cup Hashes(x))
  /\ UNCHANGED <<connected, orphanage, pool, height, recent, events, stage, missed,
                 unrelayed>>

\* The hashes to remember of a transaction that is not accepted.
Rejected(x, verdict) ==
  CASE verdict = "REJECTED" -> {Wtxid(x)}
    [] verdict = "NONSTANDARD" -> Hashes(x)
    [] OTHER -> {}

TxRejected(p, x) ==
  /\ MessageFrom(p)
  /\ ~AlreadyHave(Wtxid(x))
  /\ \E verdict \in Verdicts(x) \ {"VALID", "MISSING"} :
       /\ ann' = ForgetTxHashes(Responded(p, x), Rejected(x, verdict))
       /\ SetRejects(Rejects \cup Rejected(x, verdict))
  /\ UNCHANGED <<connected, orphanage, pool, height, recent, events, stage, missed,
                 unrelayed>>

\* ProcessOrphanTx: entries of the work set that are no orphans any more, or
\* whose inputs are still missing, are dropped up to the first other one.
Droppable(p) ==
  {x \in orphanage.work[p] : ~IsOrphan(orphanage, x) \/ "MISSING" \in Verdicts(x)}

OrphanAccepted(p, x) ==
  /\ p \in connected
  /\ x \in orphanage.work[p] /\ IsOrphan(orphanage, x) /\ "VALID" \in Verdicts(x)
  /\ SetPool(Without(Conflicts({x})) \cup {x}, height, TRUE)
  /\ \E dropped \in SUBSET (Droppable(p) \ {x}) :
       orphanage' = EraseTx(AddChildrenToWorkSet(
                      Taken(orphanage, p, dropped \cup {x}), x), x)
  /\ UNCHANGED <<connected, ann, height, rejects, rejectsTip, recent, events, stage>>

OrphanRejected(p, x) ==
  /\ p \in connected
  /\ x \in orphanage.work[p] /\ IsOrphan(orphanage, x)
  /\ \E verdict \in Verdicts(x) \ {"VALID", "MISSING"} :
       rejects' = rejects \cup Rejected(x, verdict)
  /\ \E dropped \in SUBSET (Droppable(p) \ {x}) :
       orphanage' = EraseTx(Taken(orphanage, p, dropped \cup {x}), x)
  /\ UNCHANGED <<connected, ann, pool, height, rejectsTip, recent, events, stage,
                 missed, unrelayed>>

OrphansDropped(p) ==
  /\ p \in connected
  /\ orphanage.work[p] # {} /\ orphanage.work[p] = Droppable(p)
  /\ orphanage' = Taken(orphanage, p, orphanage.work[p])
  /\ UNCHANGED <<connected, ann, pool, height, rejects, rejectsTip, recent, events,
                 stage, missed, unrelayed>>

\* SendMessages: requests that have expired are completed, and candidates that
\* are due are requested unless the transaction has arrived in another way.
SendMessages(p) ==
  /\ p \in connected
  /\ \E expired \in SUBSET {r \in Hash \X Peer : ann[r[1]][r[2]] = "requested"} :
       LET a == Expire(ann, expired)
           due == {h \in Hash : /\ a[h][p] = "candidate"
                                /\ \A q \in Peer : a[h][q] # "requested"}
       IN  \E hs \in SUBSET due :
             LET have == {h \in hs : AlreadyHave(h)}
             IN  /\ expired # {} \/ hs # {}
                 /\ ann' = ForgetTxHashes(RequestedTx(a, p, hs \ have), have)
                 /\ IF hs = {} THEN UNCHANGED <<rejects, rejectsTip>>
                    ELSE SetRejects(Rejects)
  /\ UNCHANGED <<connected, orphanage, pool, height, recent, events, stage, missed,
                 unrelayed>>
-----------------------------------------------------------------------------
(* Validation, other users of the memory pool, and the scheduler thread.   *)

\* ConnectTip: transactions of the block, and what conflicts with them, leave
\* the pool.
ConnectTip ==
  /\ height < Len(Blocks) /\ Len(events) < MaxPending
  /\ LET block == Blocks[height + 1]
     IN  SetPool(Without(Conflicts(block)) \ block, height + 1, FALSE)
  /\ height' = height + 1
  /\ events' = Append(events, [type |-> "connected", block |-> height + 1])
  /\ UNCHANGED <<connected, ann, orphanage, rejects, rejectsTip, recent, stage>>

\* DisconnectTip, with the transactions that MaybeUpdateMempoolForReorg
\* accepts again.
DisconnectTip ==
  /\ height > 0 /\ Len(events) < MaxPending
  /\ LET block == Blocks[height]
     IN  \E again \in SUBSET block :
           /\ \A x \in again : Inputs[x] \subseteq AvailableIn(pool \cup again, height - 1)
           /\ SetPool((pool \cup again) \ WithDescendants(block \ again, pool \cup again),
                      height - 1, FALSE)
  /\ height' = height - 1
  /\ events' = Append(events, [type |-> "disconnected", block |-> height])
  /\ UNCHANGED <<connected, ann, orphanage, rejects, rejectsTip, recent, stage>>

\* BroadcastTransaction: a transaction of the wallet or of an RPC.
BroadcastTransaction(x) ==
  /\ "VALID" \in Verdicts(x)
  /\ SetPool(Without(Conflicts({x})) \cup {x}, height, FALSE)
  /\ UNCHANGED <<connected, ann, orphanage, height, rejects, rejectsTip, recent, events,
                 stage>>

\* Expiry or TrimToSize removes a transaction with its descendants.
LeavePool(x) ==
  /\ x \in pool
  /\ SetPool(Without({x}), height, TRUE)
  /\ UNCHANGED <<connected, ann, orphanage, height, rejects, rejectsTip, recent, events,
                 stage>>

Delivering(type) == events # <<>> /\ Head(events).type = type
Block == Blocks[Head(events).block]

\* BlockConnected, under the orphanage's mutex.
BlockConnectedErase ==
  /\ Delivering("connected") /\ stage = "none"
  /\ orphanage' = EraseForBlock(orphanage, Block)
  /\ stage' = "erased"
  /\ UNCHANGED <<connected, ann, pool, height, rejects, rejectsTip, recent, events,
                 missed, unrelayed>>

\* BlockConnected, under the mutex of the filter.
BlockConnectedFilter ==
  /\ Delivering("connected") /\ stage = "erased"
  /\ recent' = recent \cup Block
  /\ stage' = "filtered"
  /\ UNCHANGED <<connected, ann, orphanage, pool, height, rejects, rejectsTip, events,
                 missed, unrelayed>>

\* Mutant: the requests for the txids are forgotten, those for the wtxids not.
BlockConnectedForgetTxids ==
  /\ Delivering("connected") /\ stage = "filtered"
  /\ ann' = ForgetTxHashes(ann, {Txid(x) : x \in Block})
  /\ stage' = "none"
  /\ events' = Tail(events)
  /\ UNCHANGED <<connected, orphanage, pool, height, rejects, rejectsTip, recent, missed,
                 unrelayed>>

\* BlockConnected, under cs_main.
BlockConnectedForget ==
  /\ Delivering("connected") /\ stage = "filtered"
  /\ ann' = ForgetTxHashes(ann, UNION {Hashes(x) : x \in Block})
  /\ stage' = "none"
  /\ events' = Tail(events)
  /\ UNCHANGED <<connected, orphanage, pool, height, rejects, rejectsTip, recent, missed,
                 unrelayed>>

BlockDisconnected ==
  /\ Delivering("disconnected")
  /\ recent' = {}
  /\ events' = Tail(events)
  /\ UNCHANGED <<connected, ann, orphanage, pool, height, rejects, rejectsTip, stage,
                 missed, unrelayed>>
-----------------------------------------------------------------------------
Next ==
  \/ \E p \in Peer :
       \/ InitializeNode(p) \/ FinalizeNode(p)
       \/ SendMessages(p) \/ OrphansDropped(p)
       \/ \E h \in Hash : Inv(p, h) \/ NotFound(p, h)
       \/ \E x \in Tx :
            \/ TxKnown(p, x) \/ TxAccepted(p, x) \/ TxOrphaned(p, x)
            \/ TxParentRejected(p, x) \/ TxRejected(p, x)
            \/ OrphanAccepted(p, x) \/ OrphanRejected(p, x)
  \/ ConnectTip \/ DisconnectTip
  \/ \E x \in Tx : BroadcastTransaction(x) \/ LeavePool(x)
  \/ BlockConnectedErase \/ BlockConnectedFilter \/ BlockConnectedForget
  \/ BlockDisconnected

Spec == Init /\ [][Next]_vars
-----------------------------------------------------------------------------
(* Properties.                                                             *)

\* Nothing is kept for a peer that has left: what InitializeNode and
\* FinalizeNode assert about tracker and orphanage, and what the comment in
\* AddChildrenToWorkSet relies on.
GonePeersForgotten ==
  \A p \in Peer \ connected :
    /\ \A h \in Hash : ann[h][p] = "none"
    /\ \A x \in Tx : orphanage.peer[x] # p
    /\ orphanage.work[p] = {}

\* The indexes of the orphanage agree and it keeps to its limit, whatever the
\* scheduler thread erased between two handlers.
OrphanageOK ==
  IndexesAgree(orphanage) /\ Len(orphanage.list) <= MaxOrphans

\* No orphan is overlooked: one whose inputs have all arrived, by relay, is in
\* the work set of its peer.
NoOrphanOverlooked ==
  \A x \in Orphans(orphanage) :
    InputsAvailable(x) /\ Inputs[x] \cap missed = {}
      => x \in orphanage.work[orphanage.peer[x]]

PendingBlocks ==
  UNION {Blocks[events[i].block] : i \in {j \in DOMAIN events :
                                            events[j].type = "connected"}}

\* Nothing is tracked for download that the node has: the tracker is told of
\* every transaction that becomes known by relay or, when the event has been
\* delivered, in a block.
AnnouncedIsWanted ==
  \A h \in Hash : (\E p \in Peer : ann[h][p] # "none")
    => ~AlreadyHave(h) \/ h.tx \in unrelayed \/ h.tx \in PendingBlocks
=============================================================================
