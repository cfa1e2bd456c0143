-------------------------- MODULE HeadersDownload --------------------------
(***************************************************************************)
(* A node at the start of its life downloads the headers of one peer       *)
(* (net_processing.cpp): the handlers of HEADERS, INV, GETHEADERS and      *)
(* SENDHEADERS and the announcements of SendMessages, around the object of *)
(* HeadersSync.  The peer runs the same program, so its chain is valid; it *)
(* may grow and reorganize while it is being downloaded.  Messages of one  *)
(* connection arrive in the order they were sent.                          *)
(*                                                                         *)
(* Init is the state after the node has sent its first getheaders          *)
(* (fSyncStarted).  The node has no blocks yet, so its active chain is the *)
(* genesis block and GetAntiDoSWorkThreshold is MinimumChainWork, and it   *)
(* has announced nothing to the peer.  Headers may also reach it through   *)
(* other peers.                                                            *)
(***************************************************************************)
EXTENDS HeadersSync

CONSTANTS
    MaxAnnounce,        \* MAX_BLOCKS_TO_ANNOUNCE
    MaxUnconnecting,    \* MAX_NUM_UNCONNECTING_HEADERS_MSGS
    FirstTips,          \* the tips the peer may start with
    NoHeader,
    MaxTips, MaxLate, MaxScore  \* bounds: tips of the peer, responses that are late, points

VARIABLES
    index, best,                \* m_block_index, m_best_header
    sync,                       \* peer.m_headers_sync
    asked,                      \* m_last_getheaders_timestamp is recent
    score, unconnecting,        \* m_misbehavior_score, m_num_unconnecting_headers_msgs
    known, unknown,             \* pindexBestKnownBlock, hashLastUnknownBlock
    sentSendHeaders,            \* m_sent_sendheaders
    connected,                  \* ~fDisconnect
    tip, relay, sent, prefers,  \* at the peer: its tip, m_blocks_for_headers_relay,
                                \* pindexBestHeaderSent, m_prefers_headers
    toPeer, toNode,             \* the messages under way
    tips, late                  \* tips the peer has had, responses that were late

node == <<index, best, sync, asked, score, unconnecting, known, unknown, sentSendHeaders, connected>>
peer == <<tip, relay, sent, prefers, tips>>
vars == <<elapsed, node, peer, toPeer, toNode, late>>

GetHeaders(locator) == [type |-> "getheaders", locator |-> locator]
SendHeaders == [type |-> "sendheaders"]
Headers(headers) == [type |-> "headers", headers |-> headers]
Inv(h) == [type |-> "inv", header |-> h]

Init ==
    /\ elapsed \in Elapsed
    /\ index = {Genesis} /\ best = Genesis
    /\ sync = NoSync
    /\ asked = TRUE
    /\ score = 0 /\ unconnecting = 0
    /\ known = NoHeader /\ unknown = NoHeader
    /\ sentSendHeaders = FALSE /\ connected = TRUE
    /\ tip \in FirstTips
    /\ relay = <<>> /\ sent = NoHeader /\ prefers = FALSE
    /\ toPeer = <<GetHeaders(GetLocator(Genesis))>>
    /\ toNode = <<>>
    /\ tips = 1 /\ late = 0

\* A message, or the queue of announcements, is taken up.
TakenByPeer == toPeer # <<>> /\ toPeer' = Tail(toPeer)
TakenByNode == connected /\ score < MaxScore /\ toNode # <<>> /\ toNode' = Tail(toNode)
TakenToRelay == relay # <<>> /\ relay' = <<>>
-----------------------------------------------------------------------------
(* The peer.                                                               *)

\* The peer's active chain changes to one with more work; UpdatedBlockTip
\* queues the new blocks, the highest MaxAnnounce of them.
UpdatedBlockTip(h) ==
    LET new == SelectSeq(Chain[h], LAMBDA x : x \notin Ancestors[tip])
        first == IF Len(new) > MaxAnnounce THEN Len(new) - MaxAnnounce + 1 ELSE 1
    IN  /\ tips < MaxTips
        /\ Work(h) > Work(tip)
        /\ tip' = h /\ tips' = tips + 1
        /\ relay' = relay \o SubSeq(new, first, Len(new))
        /\ UNCHANGED <<elapsed, node, sent, prefers, toPeer, toNode, late>>

PeerHasHeader(h) == sent # NoHeader /\ h \in Ancestors[sent]

\* The headers an announcement consists of: those queued from the first the
\* node lacks, which must be on the active chain, connected, and follow a
\* header the node has.  None if the announcement is to be an inv.
ToAnnounce ==
    LET new == SelectSeq(relay, LAMBDA x : ~PeerHasHeader(x))
    IN  IF /\ prefers
           /\ Len(relay) <= MaxAnnounce
           /\ Range(relay) \subseteq Ancestors[tip]
           /\ \A i \in 2 .. Len(relay) : Parent[relay[i]] = relay[i - 1]
           /\ new # <<>> => PeerHasHeader(Parent[Head(new)])
        THEN new ELSE <<>>

\* SendMessages: the announcement of the blocks queued.
Announce ==
    LET last == Last(relay)
    IN  /\ TakenToRelay
        /\ IF ToAnnounce # <<>>
           THEN toNode' = Append(toNode, Headers(ToAnnounce)) /\ sent' = last
           ELSE /\ toNode' = IF PeerHasHeader(last) THEN toNode ELSE Append(toNode, Inv(last))
                /\ UNCHANGED sent
        /\ UNCHANGED <<elapsed, node, tip, prefers, tips, toPeer, late>>

\* FindForkInGlobalIndex on the peer's chain.
FindFork(locator) ==
    LET entries == <<locator.first>> \o Reverse(Chain[locator.rest])
        common == SelectSeq(entries, LAMBDA x : x \in Ancestors[tip] \/ tip \in Ancestors[x])
        h == Head(common)
    IN  IF h \in Ancestors[tip] THEN h ELSE tip

\* The handler of GETHEADERS.
ServeHeaders ==
    LET msg == Head(toPeer)
        from == Height[FindFork(msg.locator)] + 1
        to == IF from + MaxHeaders - 1 < Height[tip] THEN from + MaxHeaders - 1 ELSE Height[tip]
    IN  /\ TakenByPeer /\ msg.type = "getheaders"
        /\ IF Work(tip) < MinWork
           THEN toNode' = Append(toNode, Headers(<<>>)) /\ UNCHANGED sent
           ELSE /\ toNode' = Append(toNode, Headers(SubSeq(Chain[tip], from + 1, to + 1)))
                \* The loop breaks at the last header of a full message.
                /\ sent' = IF to - from + 1 = MaxHeaders THEN GetAncestor(tip, to) ELSE tip
        /\ UNCHANGED <<elapsed, node, tip, relay, prefers, tips, late>>

\* The handler of SENDHEADERS.
PrefersHeaders ==
    /\ TakenByPeer /\ Head(toPeer).type = "sendheaders"
    /\ prefers' = TRUE
    /\ UNCHANGED <<elapsed, node, tip, relay, sent, tips, toNode, late>>
-----------------------------------------------------------------------------
(* The node.                                                               *)

\* MaybeSendGetHeaders, recent being whether a request is under way.
MaybeSendGetHeaders(recent, locator) ==
    /\ asked' = TRUE
    /\ toPeer' = IF recent THEN toPeer ELSE Append(toPeer, GetHeaders(locator))

\* pindexBestKnownBlock after h is known to be the peer's.
Better(k, h) == IF k = NoHeader \/ Work(h) >= Work(k) THEN h ELSE k

\* ProcessBlockAvailability and UpdateBlockAvailability, with the block index
\* as idx.
KnownSince(idx) == IF unknown \in idx THEN Better(known, unknown) ELSE known
StillUnknown(idx) == IF unknown \in idx THEN NoHeader ELSE unknown

UpdateBlockAvailability(idx, h) ==
    IF h \in idx THEN known' = Better(KnownSince(idx), h) /\ unknown' = StillUnknown(idx)
    ELSE known' = KnownSince(idx) /\ unknown' = h

IsAncestorOfBestHeaderOrTip(h) == h \in index /\ (h \in Ancestors[best] \/ h = Genesis)

\* What the sync in progress makes of a message (the first part of
\* IsContinuationOfLowWorkHeadersSync).
Continuation(headers) ==
    IF sync # NoSync THEN ProcessNextHeaders(sync, headers)
    ELSE [sync |-> NoSync, success |-> FALSE, more |-> FALSE, headers |-> <<>>]

\* The sync in progress asks for more, if it is told to (the second part).
AskForMore(r) ==
    IF r.more THEN MaybeSendGetHeaders(FALSE, NextHeadersRequestLocator(r.sync))
    ELSE asked' = FALSE /\ UNCHANGED toPeer

\* A request of the sync in progress, if there is one, comes first.
HandleFewUnconnectingHeaders(r, headers) ==
    /\ unconnecting' = unconnecting + 1
    /\ IF r.more THEN AskForMore(r) ELSE MaybeSendGetHeaders(FALSE, GetLocator(best))
    /\ UpdateBlockAvailability(index, Last(headers))
    /\ score' = IF unconnecting' % MaxUnconnecting = 0 THEN score + 20 ELSE score

\* ProcessHeadersMessage for headers that do not connect to the block index.
HeadersUnconnected(r, headers, nCount) ==
    /\ Head(headers) = Garbled \/ Parent[Head(headers)] \notin index
    /\ IF nCount <= MaxAnnounce
       THEN HandleFewUnconnectingHeaders(r, headers)
       ELSE score' = score + 10 /\ AskForMore(r) /\ UNCHANGED <<unconnecting, known, unknown>>
    /\ sync' = r.sync
    /\ UNCHANGED <<index, best, connected>>

Connects(headers) == Head(headers) # Garbled /\ Parent[Head(headers)] \in index

\* The headers have shown too little work to be processed.
LowWork(r, headers) ==
    /\ ~r.success
    /\ ~IsAncestorOfBestHeaderOrTip(Last(headers))
    /\ Work(Last(headers)) < MinWork

\* TryLowWorkHeadersSync: a full message starts a sync.
TryLowWorkHeadersSync(r, headers) ==
    /\ Connects(headers) /\ LowWork(r, headers)
    /\ IF Len(headers) = MaxHeaders
       THEN \E salt \in Salts, offset \in 0 .. Period - 1 :
            \E s \in {ProcessNextHeaders(NewSync(Parent[Head(headers)], salt, offset), headers)} :
               sync' = s.sync /\ AskForMore(s)
       ELSE sync' = NoSync /\ asked' = FALSE /\ UNCHANGED toPeer
    /\ UNCHANGED <<index, best, score, unconnecting, known, unknown, connected>>

\* ProcessNewBlockHeaders and what follows it.  Every header of the tree is
\* valid.  A peer found to have too little work is disconnected
\* (UpdatePeerStateForReceivedHeaders).
HeadersAccepted(r, headers, nCount) ==
    LET last == Last(headers)
        full == nCount = MaxHeaders
    IN  /\ Connects(headers) /\ ~LowWork(r, headers)
        /\ index' = index \union Range(headers)
        /\ best' = IF Work(last) > Work(best) THEN last ELSE best
        /\ sync' = r.sync
        /\ IF full /\ r.sync = NoSync THEN MaybeSendGetHeaders(FALSE, GetLocator(last)) ELSE AskForMore(r)
        /\ UpdateBlockAvailability(index', last)
        /\ connected' = (full \/ Work(known') >= MinWork)
        /\ unconnecting' = 0
        /\ UNCHANGED score

\* The sync in progress has taken the headers in and released none.
HeadersTakenIn(r) ==
    /\ sync' = r.sync /\ AskForMore(r)
    /\ UNCHANGED <<index, best, score, unconnecting, known, unknown, connected>>

\* The handler of HEADERS.
ProcessHeadersMessage ==
    /\ TakenByNode /\ Head(toNode).type = "headers"
    /\ \/ /\ Head(toNode).headers = <<>>
          /\ sync' = NoSync /\ asked' = FALSE
          /\ UNCHANGED <<index, best, score, unconnecting, known, unknown, connected, toPeer>>
       \/ /\ Head(toNode).headers # <<>>
          /\ \E r \in {Continuation(Head(toNode).headers)} :
             \E headers \in {IF r.success THEN r.headers ELSE Head(toNode).headers} :
                LET nCount == Len(Head(toNode).headers)
                IN  \/ headers = <<>> /\ HeadersTakenIn(r)
                    \/ headers # <<>> /\ HeadersUnconnected(r, headers, nCount)
                    \/ headers # <<>> /\ TryLowWorkHeadersSync(r, headers)
                    \/ headers # <<>> /\ HeadersAccepted(r, headers, nCount)
    /\ UNCHANGED <<elapsed, sentSendHeaders, peer, late>>

\* The handler of INV.  IsBlockRequested is false: no block is downloaded yet.
ProcessInv ==
    LET h == Head(toNode).header
    IN  /\ TakenByNode /\ Head(toNode).type = "inv"
        /\ UpdateBlockAvailability(index, h)
        /\ IF h \in index THEN UNCHANGED <<asked, toPeer>> ELSE MaybeSendGetHeaders(asked, GetLocator(best))
        /\ UNCHANGED <<elapsed, index, best, sync, score, unconnecting, sentSendHeaders, connected, peer, late>>

WantsHeaders(k) == k # NoHeader /\ Work(k) > MinWork

\* SendMessages: MaybeSendSendHeaders.
MaybeSendSendHeaders ==
    /\ connected
    /\ ~sentSendHeaders /\ WantsHeaders(known)
    /\ sentSendHeaders' = TRUE
    /\ toPeer' = Append(toPeer, SendHeaders)
    /\ UNCHANGED <<elapsed, index, best, sync, asked, score, unconnecting, known, unknown, connected,
                   peer, toNode, late>>

\* SendMessages: ProcessBlockAvailability.
ProcessBlockAvailability ==
    /\ connected
    /\ unknown \in index
    /\ known' = KnownSince(index) /\ unknown' = StillUnknown(index)
    /\ UNCHANGED <<elapsed, index, best, sync, asked, score, unconnecting, sentSendHeaders, connected,
                   peer, toPeer, toNode, late>>

\* HEADERS_RESPONSE_TIME passes without an answer.
ResponseLate ==
    /\ asked /\ late < MaxLate
    /\ asked' = FALSE /\ late' = late + 1
    /\ UNCHANGED <<elapsed, index, best, sync, score, unconnecting, known, unknown, sentSendHeaders,
                   connected, peer, toPeer, toNode>>

\* Another peer delivers the chain of h, which has enough work.
HeadersFromElsewhere(h) ==
    /\ h \notin index /\ Work(h) >= MinWork
    /\ index' = index \union Ancestors[h]
    /\ best' = IF Work(h) > Work(best) THEN h ELSE best
    /\ UNCHANGED <<elapsed, sync, asked, score, unconnecting, known, unknown, sentSendHeaders, connected,
                   peer, toPeer, toNode, late>>

Next ==
    \/ \E h \in Header : UpdatedBlockTip(h)
    \/ Announce
    \/ ServeHeaders
    \/ PrefersHeaders
    \/ ProcessHeadersMessage
    \/ ProcessInv
    \/ MaybeSendSendHeaders
    \/ ProcessBlockAvailability
    \/ ResponseLate
    \/ \E h \in Header : HeadersFromElsewhere(h)

Spec == Init /\ [][Next]_vars

\* The message threads of both sides keep running.
Fairness == WF_toPeer(TakenByPeer) /\ WF_toNode(TakenByNode) /\ WF_relay(TakenToRelay)

FairSpec == Spec /\ Fairness
-----------------------------------------------------------------------------
TypeOK ==
    /\ index \in SUBSET Header /\ best \in index
    /\ asked \in BOOLEAN /\ connected \in BOOLEAN /\ prefers \in BOOLEAN /\ sentSendHeaders \in BOOLEAN
    /\ known \in index \union {NoHeader} /\ unknown \in Header \union {NoHeader}
    /\ tip \in Header /\ sent \in Header \union {NoHeader} /\ relay \in Seq(Header)
    /\ score \in Nat /\ unconnecting \in Nat

\* The bits of the chain of h at the committed heights from n on.
BitsFrom(s, h, n) ==
    LET heights == SetToSortSeq({k \in n .. Height[h] : Committed(s, k)}, <)
    IN  [i \in DOMAIN heights |-> Bit(s, GetAncestor(h, heights[i]))]

\* What the stored bits and the buffer stand for.  In presync the bits are
\* those of the chain received.  In the redownload they are what is left of
\* them, the ones used up having matched the chain redownloaded, and the
\* buffer is that chain's end, of at most Buffer headers, on what has been
\* released and is in the block index (ValidateAndStoreRedownloadedHeader,
\* PopHeadersReadyForAcceptance).
SyncConsistent ==
    sync # NoSync =>
        LET from == Height[sync.start] + 1
            next == Height[sync.bufferLast] + 1
        IN  /\ sync.start \in Ancestors[sync.last] /\ sync.start \in index
            /\ sync.state = "presync" =>
                  /\ sync.commitments = BitsFrom(sync, sync.last, from)
                  /\ Work(sync.last) < MinWork
            /\ sync.state = "redownload" =>
                  /\ BitsFrom(sync, sync.last, from) = BitsFrom(sync, sync.bufferLast, from) \o sync.commitments
                  /\ Work(sync.last) >= MinWork /\ ~sync.all
                  /\ sync.firstPrev \in index
                  /\ Chain[sync.bufferLast] = Chain[sync.firstPrev] \o sync.buffer
                  /\ Len(sync.buffer) <= Buffer

\* Nothing enters the block index without work behind it.  A header the
\* message brings in is below one of MinWork in that message, or it is
\* released by a redownload: Buffer headers stand on it, and the chain
\* matches, up to the last of them, the bits of a chain that has shown
\* MinWork (TryLowWorkHeadersSync, PopHeadersReadyForAcceptance).
Backed(h) ==
    \/ \E d \in Range(Head(toNode).headers) : h \in Ancestors[d] /\ Work(d) >= MinWork
    \/ /\ sync # NoSync /\ sync' # NoSync
       /\ sync'.state = "redownload" /\ Work(sync'.last) >= MinWork
       /\ h \in Ancestors[sync'.bufferLast] /\ Height[sync'.bufferLast] >= Height[h] + Buffer
       /\ \A n \in Height[sync'.start] + 1 .. Height[sync'.bufferLast] :
             Committed(sync', n) =>
                 Bit(sync', GetAncestor(sync'.bufferLast, n)) = Bit(sync', GetAncestor(sync'.last, n))

ReleasedWithWork == [][ ProcessHeadersMessage => \A h \in index' \ index : Backed(h) ]_vars

\* The peer has left the chain that the redownload expects: that chain and
\* the peer's part before they show MinWork, and after a header that is in
\* the buffer but not in the block index.  What the peer sends next fails the
\* bits, and connects to nothing the node knows.
Torn ==
    /\ sync # NoSync /\ sync.state = "redownload"
    /\ sync.bufferLast \in Ancestors[tip] \ index
    /\ \A x \in Ancestors[sync.last] \intersect Ancestors[tip] : Work(x) < MinWork

\* If every response is in time, no redownload is torn and no announcement
\* fails to connect, the peer is neither given points nor disconnected,
\* whatever other reorganizations its chain goes through during the download:
\* its targets are permitted, its messages connect to what the node has, and
\* it is not cut off for headers without work (ProcessHeadersMessage).
HonestPeerKept == [](late = 0 /\ unconnecting = 0 /\ ~Torn) => [](score = 0 /\ connected)

\* If every response is in time and no redownload is torn, the node ends up
\* with the peer's chain as soon as that has enough work: a sync abandoned
\* because the peer reorganized is followed by another
\* (ValidateAndStoreHeadersCommitments, TryLowWorkHeadersSync, the handler of
\* INV).
CatchesUp == [](late = 0 /\ ~Torn) => <>[](Work(tip) >= MinWork => tip \in index)

\* The same of every peer that answers in time, torn redownloads included
\* (headerssync.h: "always being able to reorg to whatever the most-work
\* chain is").
AlwaysCatchesUp == [](late = 0) => <>[](Work(tip) >= MinWork => tip \in index)
=============================================================================
