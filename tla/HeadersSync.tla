---------------------------- MODULE HeadersSync ----------------------------
(***************************************************************************)
(* HeadersSyncState (headerssync.cpp): the download of one peer's headers  *)
(* in two passes.  The first pass (presync) stores nothing but a bit of    *)
(* every Period-th header, until the chain has shown MinWork; the second   *)
(* (redownload) takes the headers again, holds each back until Buffer more *)
(* have matched the stored bits, and then releases it to validation.       *)
(*                                                                         *)
(* The headers are a tree, given by Parent.  Their nBits follow            *)
(* GetNextWorkRequired, every difficulty interval having taken the time    *)
(* elapsed.  Height and work of a header are those of its chain, so        *)
(* m_current_height and m_current_chain_work, set together with            *)
(* m_last_header_received, are Height and Work of last; likewise           *)
(* m_redownload_buffer_last_height and m_redownload_chain_work.  NoSync is *)
(* the object after Finalize.                                              *)
(***************************************************************************)
EXTENDS Pow, Sequences, SequencesExt

CONSTANTS
    Header, Genesis, Parent,    \* the tree
    Garbled,                    \* a header put together from parts of two
    Elapsed,                    \* times a difficulty interval may have taken
    MinWork,                    \* m_minimum_required_work
    Period,                     \* HEADER_COMMITMENT_PERIOD
    Buffer,                     \* REDOWNLOAD_BUFFER_SIZE
    MaxCommitments,             \* m_max_commitments
    MaxHeaders,                 \* MAX_HEADERS_RESULTS
    Salts,                      \* m_hasher: the headers whose bit is 1
    NoSync

ASSUME HeadersAssumption ==
    /\ Genesis \in Header /\ Parent \in [Header \ {Genesis} -> Header]
    /\ Garbled \notin Header
    /\ Elapsed \subseteq Int
    /\ Period \in Nat \ {0} /\ Buffer \in Nat \ {0} /\ MaxHeaders \in Nat \ {0}
    /\ MaxCommitments \in Nat /\ MinWork \in Nat
    /\ Salts \subseteq SUBSET Header

VARIABLE elapsed    \* one of Elapsed; never changes
-----------------------------------------------------------------------------
(* The tree.                                                               *)

\* The chain from the genesis block to h, genesis first.
ChainTo[h \in Header] == IF h = Genesis THEN <<h>> ELSE Append(ChainTo[Parent[h]], h)
Chain == [h \in Header |-> ChainTo[h]]
Ancestors == [h \in Header |-> Range(Chain[h])]
Height == [h \in Header |-> Len(Chain[h]) - 1]
GetAncestor(h, n) == Chain[h][n + 1]

\* The target and the chain work at height n.
BitsTo[e \in Elapsed, n \in Range(Height)] ==
    IF n = 0 THEN GetCompact(PowLimit)
    ELSE GetNextWorkRequired(n - 1, BitsTo[e, n - 1], e)
WorkTo[e \in Elapsed, n \in Range(Height)] ==
    GetBlockProof(BitsTo[e, n]) + IF n = 0 THEN 0 ELSE WorkTo[e, n - 1]
BitsAt == [e \in Elapsed |-> [n \in Range(Height) |-> BitsTo[e, n]]]
WorkAt == [e \in Elapsed |-> [n \in Range(Height) |-> WorkTo[e, n]]]

NBits(h) == BitsAt[elapsed][Height[h]]
Work(h) == WorkAt[elapsed][Height[h]]
-----------------------------------------------------------------------------
(* The sync object.                                                        *)

\* The constructor, for a chain that branches from start.
NewSync(start, salt, offset) ==
    [state |-> "presync", start |-> start, salt |-> salt, offset |-> offset,
     last |-> start, commitments |-> <<>>,
     buffer |-> <<>>, bufferLast |-> start, firstPrev |-> start, all |-> FALSE]

Committed(s, n) == n % Period = s.offset
Bit(s, h) == h \in s.salt

\* PRESYNC, one header; NoSync when it is refused.
ValidateAndProcessSingleHeader(s, h) ==
    LET n == Height[s.last] + 1
        bits == IF Committed(s, n) THEN Append(s.commitments, Bit(s, h)) ELSE s.commitments
    IN  IF \/ s = NoSync
           \/ ~PermittedDifficultyTransition(n, NBits(s.last), NBits(h))
           \/ Committed(s, n) /\ Len(bits) > MaxCommitments
        THEN NoSync
        ELSE [s EXCEPT !.commitments = bits, !.last = h]

ValidateAndStoreHeadersCommitments(s, headers) ==
    LET t == FoldLeft(ValidateAndProcessSingleHeader, s, headers)
    IN  IF Parent[Head(headers)] # s.last \/ t = NoSync THEN NoSync
        ELSE IF Work(t.last) >= MinWork
        THEN [t EXCEPT !.state = "redownload", !.buffer = <<>>, !.bufferLast = t.start, !.firstPrev = t.start]
        ELSE t

\* REDOWNLOAD, one header; NoSync when it is refused.
ValidateAndStoreRedownloadedHeader(s, h) ==
    LET n == Height[s.bufferLast] + 1
        previous == IF s.buffer # <<>> THEN NBits(Last(s.buffer)) ELSE NBits(s.start)
        all == s.all \/ Work(h) >= MinWork
        check == ~all /\ Committed(s, n)
    IN  IF \/ s = NoSync
           \/ Parent[h] # s.bufferLast
           \/ ~PermittedDifficultyTransition(n, previous, NBits(h))
           \/ check /\ s.commitments = <<>>
           \/ check /\ Head(s.commitments) # Bit(s, h)
        THEN NoSync
        ELSE [s EXCEPT !.all = all,
                       !.commitments = IF check THEN Tail(@) ELSE @,
                       !.buffer = Append(@, h),
                       !.bufferLast = h]

\* Mutant: one header too few is held back.
ReadyEarly(s) ==
    IF s.all THEN Len(s.buffer) ELSE IF Len(s.buffer) >= Buffer THEN Len(s.buffer) - Buffer + 1 ELSE 0

\* How many headers PopHeadersReadyForAcceptance takes from the buffer.
Ready(s) == IF s.all THEN Len(s.buffer) ELSE IF Len(s.buffer) > Buffer THEN Len(s.buffer) - Buffer ELSE 0

\* CompressedHeader::GetFullHeader: the header with the given hashPrevBlock.
GetFullHeader(h, prev) == IF Parent[h] = prev THEN h ELSE Garbled

\* The headers released, each put on the one before it.
Released(s) ==
    LET front == SubSeq(s.buffer, 1, Ready(s))
    IN  [i \in DOMAIN front |-> GetFullHeader(front[i], IF i = 1 THEN s.firstPrev ELSE front[i - 1])]

\* Mutant: the hash before the buffer is not brought forward.
PoppedStalePrev(s) == [s EXCEPT !.buffer = SubSeq(@, Ready(s) + 1, Len(@))]

Popped(s) ==
    [s EXCEPT !.buffer = SubSeq(@, Ready(s) + 1, Len(@)),
              !.firstPrev = IF Ready(s) = 0 THEN @ ELSE s.buffer[Ready(s)]]

\* ProcessNextHeaders: the object afterwards (NoSync once finalized), whether
\* the headers were in order, whether more are to be asked for, and the
\* headers released.
ProcessNextHeaders(s, headers) ==
    LET full == Len(headers) = MaxHeaders
        pre == ValidateAndStoreHeadersCommitments(s, headers)
        re == FoldLeft(ValidateAndStoreRedownloadedHeader, s, headers)
        popped == Popped(re)
        done == popped.buffer = <<>> /\ popped.all
        Result(t, success, more, released) ==
            [sync |-> IF more THEN t ELSE NoSync, success |-> success, more |-> more, headers |-> released]
    IN  IF s.state = "presync"
        THEN IF pre = NoSync THEN Result(NoSync, FALSE, FALSE, <<>>)
             ELSE Result(pre, TRUE, full \/ pre.state = "redownload", <<>>)
        ELSE IF re = NoSync THEN Result(NoSync, FALSE, FALSE, <<>>)
             ELSE Result(popped, TRUE, ~done /\ full, Released(re))

\* A locator: a first entry, and the block whose ancestors are the others
\* (LocatorEntries leaves out ancestors only more than ten blocks back).
GetLocator(h) == [first |-> h, rest |-> h]

\* Mutant: the second pass continues where the first one ended.
NextHeadersRequestLocatorOn(s) == [first |-> s.last, rest |-> s.start]

NextHeadersRequestLocator(s) ==
    [first |-> IF s.state = "presync" THEN s.last ELSE s.bufferLast, rest |-> s.start]
=============================================================================
