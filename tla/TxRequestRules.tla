--------------------------- MODULE TxRequestRules ---------------------------
(***************************************************************************)
(* What a TxRequestTracker promises: the naive data structure that         *)
(* test/fuzz/txrequest.cpp compares it with.  An announcement is a         *)
(* candidate, requested or completed; nothing is precomputed, and which    *)
(* transactions a peer may be asked for is found by looking at all of them. *)
(*                                                                         *)
(* GetRequestable is a call that begins, completes the requests that have   *)
(* expired, and returns.                                                   *)
(***************************************************************************)
EXTENDS Integers

CONSTANTS
  Peer, Tx,
  Time,       \* the points in time, a set of numbers
  Rank,       \* the salted hash of a transaction and a peer
  High        \* the bit above all hashes that preferred announcements have

VARIABLES
  ann,        \* the announcement of a transaction by a peer
  call,       \* the call of GetRequestable in progress: peer and time
  offered     \* what the last call returned

vars == <<ann, call, offered>>

Announcement(states) == [state : states, time : Time, preferred : {0, 1}]
Nothing == [state |-> "NOTHING", time |-> 0, preferred |-> 0]
States == {"NOTHING", "CANDIDATE", "REQUESTED", "COMPLETED"}

NoCall == [active |-> 0, peer |-> CHOOSE p \in Peer : TRUE, now |-> 0]
Calls == [active : {0, 1}, peer : Peer, now : Time]
Idle == call.active = 0

TypeOK ==
  /\ ann \in [Tx -> [Peer -> Announcement(States)]]
  /\ call \in Calls
  /\ offered \subseteq Tx

Init ==
  /\ ann = [t \in Tx |-> [p \in Peer |-> Nothing]]
  /\ call = NoCall
  /\ offered = {}

\* PriorityComputer: any preferred announcement beats any other.
Priority(t, p, e) == IF e.preferred = 1 THEN High + Rank[t][p] ELSE Rank[t][p]

\* A row holds the announcements of one transaction.  When only completed ones
\* are left they are all forgotten.
Cleanup(row) ==
  IF \A p \in Peer : row[p].state \in {"NOTHING", "COMPLETED"}
    THEN [p \in Peer |-> Nothing] ELSE row

\* GetSelected: the peers that a transaction may be requested from.
Selected(t, now) ==
  {p \in Peer :
     /\ \A q \in Peer : ann[t][q].state # "REQUESTED"
     /\ ann[t][p].state = "CANDIDATE" /\ ann[t][p].time <= now
     /\ \A q \in Peer :
          ann[t][q].state = "CANDIDATE" /\ ann[t][q].time <= now
            => Priority(t, p, ann[t][p]) >= Priority(t, q, ann[t][q])}

SetRow(t, row) == ann' = [ann EXCEPT ![t] = row]

ReceivedInv(p, t, preferred, reqtime) ==
  /\ Idle
  /\ SetRow(t, IF ann[t][p].state = "NOTHING"
                 THEN [ann[t] EXCEPT ![p] = [state |-> "CANDIDATE",
                         time |-> reqtime, preferred |-> preferred]]
                 ELSE ann[t])
  /\ UNCHANGED <<call, offered>>

RequestedTx(p, t, expiry) ==
  /\ Idle
  /\ SetRow(t, IF ann[t][p].state = "CANDIDATE"
                 THEN [q \in Peer |->
                         IF q = p
                           THEN [state |-> "REQUESTED", time |-> expiry,
                                 preferred |-> ann[t][q].preferred]
                         ELSE IF ann[t][q].state = "REQUESTED"
                           THEN [ann[t][q] EXCEPT !.state = "COMPLETED"]
                           ELSE ann[t][q]]
                 ELSE ann[t])
  /\ UNCHANGED <<call, offered>>

Completed(t, p) == Cleanup([ann[t] EXCEPT ![p].state = "COMPLETED"])

ReceivedResponse(p, t) ==
  /\ Idle
  /\ SetRow(t, IF ann[t][p].state = "NOTHING" THEN ann[t] ELSE Completed(t, p))
  /\ UNCHANGED <<call, offered>>

ForgetTxHash(t) ==
  /\ Idle
  /\ SetRow(t, [p \in Peer |-> Nothing])
  /\ UNCHANGED <<call, offered>>

\* One announcement of a peer that has gone; see DisconnectedPeer.
ForgetAnnouncement(p, t) ==
  /\ ann[t][p].state # "NOTHING"
  /\ SetRow(t, Cleanup([ann[t] EXCEPT ![p] = Nothing]))
  /\ UNCHANGED <<call, offered>>

Begin(p, now) ==
  /\ Idle
  /\ call' = [active |-> 1, peer |-> p, now |-> now]
  /\ UNCHANGED <<ann, offered>>

Expire(p, t) ==
  /\ ~Idle
  /\ ann[t][p].state = "REQUESTED" /\ ann[t][p].time <= call.now
  /\ SetRow(t, Completed(t, p))
  /\ UNCHANGED <<call, offered>>

\* Every expired request is completed, and the transactions for which the peer
\* is the best choice are returned.
Return ==
  /\ ~Idle
  /\ \A t \in Tx, p \in Peer :
       ann[t][p].state = "REQUESTED" => ann[t][p].time > call.now
  /\ offered' = {t \in Tx : call.peer \in Selected(t, call.now)}
  /\ call' = NoCall
  /\ UNCHANGED ann

Next ==
  \/ \E p \in Peer, t \in Tx :
       \/ \E preferred \in {0, 1}, reqtime \in Time :
            ReceivedInv(p, t, preferred, reqtime)
       \/ \E expiry \in Time : RequestedTx(p, t, expiry)
       \/ ReceivedResponse(p, t)
       \/ ForgetAnnouncement(p, t)
       \/ Expire(p, t)
  \/ \E t \in Tx : ForgetTxHash(t)
  \/ \E p \in Peer, now \in Time : Begin(p, now)
  \/ Return

Spec == Init /\ [][Next]_vars
=============================================================================
