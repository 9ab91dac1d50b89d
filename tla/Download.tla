------------------------------ MODULE Download ------------------------------
(* A node that downloads one content over several channels: the receive      *)
(* threads of its PPClient objects, which share the chunk map and the hash   *)
(* tree of the node, and the datagrams between them and their peers. A step  *)
(* is a call a handler makes into the shared objects, with what leads to it. *)
(* The integrity check is what it decides (HashTree models how); INTEGRITY   *)
(* messages are not lost here.                                               *)
EXTENDS ChunkRanges

CONSTANTS
    NumChunks,          \* chunks of the content
    Channels,
    PeerRange,          \* the range each channel's peer announces
    MaxRetry,           \* RETRY_COUNT of the configuration
    InitialRetryCounts, \* values the uninitialised RetryCount may start with
    MaxFaults           \* bounds on the faults of a behaviour: how many of each
                        \* kind, in one of these combinations

\* One or two peak hashes and more than one chunk in the last of them: where
\* CheckPeakHash finds the last chunk whatever chunk comes first (HashTree
\* shows what it does elsewhere).
ASSUME NumChunksAssumption ==
    /\ NumChunks \in Nat \ {0, 1}
    /\ \E k, j \in 1..NumChunks :
          NumChunks = 2^k \/ (j < k /\ NumChunks = 2^k + 2^j)
ASSUME PeerRangeAssumption ==
    \A c \in Channels : /\ PeerRange[c] \in ChunkRangeSt
                        /\ PeerRange[c].Start <= PeerRange[c].End
                        /\ PeerRange[c].End < NumChunks
ASSUME RetryAssumption ==
    MaxRetry \in Nat /\ InitialRetryCounts \subseteq Nat

\* Powers of two, which reach the number of chunks.
ASSUME PowersAssumption ==
    /\ 2^0 = 1
    /\ \A k \in 1..NumChunks : 2^k \in Nat /\ 2^k >= 2
    /\ \E k \in 1..NumChunks : 2^k >= NumChunks

\* What the network may do to datagrams, and what may happen to a peer.
Faults == {"lose", "duplicate", "corrupt", "crash"}

ASSUME FaultsAssumption ==
    \A bound \in MaxFaults : bound \in [Faults -> Nat]

Chunks == 0..(NumChunks - 1)

\* The last leaf of the hash tree, which is padded to a power of two leaves.
PaddedEnd == Min({2^k : k \in 1..NumChunks} \cap {n \in Nat : n >= NumChunks}) - 1

\* Start of the sibling of the subtree of 2^k leaves that holds chunk i.
SiblingStart(i, k) ==
    2^k * (i \div 2^k + (IF (i \div 2^k) % 2 = 0 THEN 1 ELSE -1))

\* One of the hashes chunk i is checked with is that of a subtree of padding,
\* which no peer sends.
PaddedPath(i) ==
    \E k \in 0..NumChunks : SiblingStart(i, k) \in NumChunks..PaddedEnd

VARIABLES
    ChunkRangeList, CP, RequestedMap, LastChunk,    \* the node's Binmap
    disk, FilePointer,  \* chunks in its file, and whether the file is open
    ChunkRange,         \* HashTree: index of the last chunk, -1 while unknown
    ContentSize,        \* HashTree: is the content size known?
    IsFirstData,        \* PPInfo: the peak hashes have not been checked yet
    pc, message,        \* per channel: the step it is at, the DATA it handles
    blind,              \* per channel: the check began with no ChunkRange
    peerList,           \* per channel: range list of the peer's Binmap
    LastRequestedIndex, RetryCount,
    requests, datagrams,\* per channel: REQUESTs and DATAs in flight
    peerAlive,          \* per channel
    faults,             \* number of faults of each kind so far
    finished,           \* history: CheckFinish has answered 1
    unguarded,          \* history: chunks requested while the map was empty
    overwritten         \* history: a check that began blind has replaced the
                        \* ChunkRange of the peak hashes

mapVars  == <<ChunkRangeList, CP, RequestedMap, LastChunk>>
fileVars == <<disk, FilePointer>>
treeVars == <<ChunkRange, ContentSize, IsFirstData>>
chanVars == <<message, blind, peerList, LastRequestedIndex, RetryCount>>
netVars  == <<requests, datagrams, peerAlive, faults>>
histVars == <<finished, unguarded, overwritten>>
vars == <<ChunkRangeList, CP, RequestedMap, LastChunk, disk, FilePointer,
          ChunkRange, ContentSize, IsFirstData, pc, message, blind, peerList,
          LastRequestedIndex, RetryCount, requests, datagrams, peerAlive,
          faults, finished, unguarded, overwritten>>

Had == Covered(ChunkRangeList)

NoData == [chunk |-> -1, ok |-> FALSE]

Init ==
    /\ ChunkRangeList = <<>> /\ CP = -1 /\ RequestedMap = {} /\ LastChunk = -1
    /\ disk = {} /\ FilePointer = FALSE
    /\ ChunkRange = -1 /\ ContentSize = FALSE /\ IsFirstData = TRUE
    /\ pc = [c \in Channels |-> "handshake"]
    /\ message = [c \in Channels |-> NoData]
    /\ blind = [c \in Channels |-> FALSE]
    /\ peerList = [c \in Channels |-> <<>>]
    /\ LastRequestedIndex = [c \in Channels |-> -1]
    /\ RetryCount \in [Channels -> InitialRetryCounts]
    /\ requests = [c \in Channels |-> {}]
    /\ datagrams = [c \in Channels |-> {}]
    /\ peerAlive = [c \in Channels |-> TRUE]
    /\ faults = [kind \in Faults |-> 0]
    /\ finished = FALSE /\ unguarded = {} /\ overwritten = FALSE

\* None of these faults has happened.
Without(kinds) == \A kind \in kinds : faults[kind] = 0

\* One more fault of a kind.
Fault(kind) ==
    /\ faults' = [faults EXCEPT ![kind] = @ + 1]
    /\ \E bound \in MaxFaults : \A k \in Faults : faults'[k] <= bound[k]

goto(c, label) == pc' = [pc EXCEPT ![c] = label]

-----------------------------------------------------------------------------
(* The receive thread of a channel *)

\* ReceiveHandShake with its HAVE: the peer's range goes into the peer's map,
\* then SendNextRequest. The PEX_REQ thread it starts before that only sends
\* and touches nothing of the download (Server!PEXReqCheck).
ReceiveHandShakeHave(c) ==
    /\ pc[c] = "handshake"
    /\ peerList' = [peerList EXCEPT ![c] =
           AfterSetHave(@, -1, PeerRange[c].Start, PeerRange[c].End).list]
    /\ goto(c, "request")
    /\ UNCHANGED <<mapVars, fileVars, treeVars, message, blind,
                   LastRequestedIndex, RetryCount, netVars, histVars>>

\* Mutant of SendRequest: it asks for the chunk after the one chosen.
SendRequestOfNext(c, i) ==
    /\ LastRequestedIndex' = [LastRequestedIndex EXCEPT ![c] = i + 1]
    /\ requests' = [requests EXCEPT ![c] = @ \cup {i + 1}]
    /\ UNCHANGED <<datagrams, peerAlive, faults>>

SendRequest(c, i) ==
    /\ LastRequestedIndex' = [LastRequestedIndex EXCEPT ![c] = i]
    /\ requests' = [requests EXCEPT ![c] = @ \cup {i}]
    /\ UNCHANGED <<datagrams, peerAlive, faults>>

\* SendNextRequest: ask for the chunk GetRequestData answers; on -1 go on to
\* CheckFinish.
SendNextRequest(c) ==
    LET i == RequestIndex(ChunkRangeList, RequestedMap, CP, LastChunk,
                          peerList[c])
    IN  /\ pc[c] = "request"
        /\ IF i # -1
           THEN /\ SendRequest(c, i)
                /\ RequestedMap' = RequestedMap \cup {i}
                /\ unguarded' = unguarded \cup
                       IF ChunkRangeList = <<>> THEN {i} ELSE {}
                /\ goto(c, "idle")
           ELSE /\ goto(c, "finish")
                /\ UNCHANGED <<LastRequestedIndex, RequestedMap, unguarded,
                               netVars>>
        /\ UNCHANGED <<ChunkRangeList, CP, LastChunk, fileVars, treeVars,
                       message, blind, peerList, RetryCount, finished,
                       overwritten>>

\* CheckFinish closes the file of a finished download; otherwise a channel
\* with nothing to request stops.
CheckFinish(c) ==
    /\ pc[c] = "finish"
    /\ IF FinishRange(ChunkRangeList) = [Start |-> 0, End |-> LastChunk]
       THEN finished' = TRUE /\ FilePointer' = FALSE /\ goto(c, "idle")
       ELSE goto(c, "stopped") /\ UNCHANGED <<finished, FilePointer>>
    /\ UNCHANGED <<mapVars, disk, treeVars, chanVars, netVars, unguarded,
                   overwritten>>

\* A DATA is taken from the queue; CheckDataIntegrity looks at ChunkRange
\* before it takes any lock. A duplicated datagram stays in flight.
ReceiveData(c, m) ==
    /\ pc[c] = "idle" /\ m \in datagrams[c]
    /\ message' = [message EXCEPT ![c] = m]
    /\ blind' = [blind EXCEPT ![c] = ChunkRange < 0]
    /\ goto(c, "check")
    /\ \/ /\ datagrams' = [datagrams EXCEPT ![c] = @ \ {m}]
          /\ UNCHANGED faults
       \/ Fault("duplicate") /\ UNCHANGED datagrams
    /\ UNCHANGED <<mapVars, fileVars, treeVars, peerList, LastRequestedIndex,
                   RetryCount, requests, peerAlive, histVars>>

\* Mutant of Reject: the request stays recorded.
RejectWithoutRelease(c) == goto(c, "retry") /\ UNCHANGED RequestedMap

\* A failed check: ReceiveData releases what the channel requested last.
Reject(c) ==
    /\ RequestedMap' = RequestedMap \ {LastRequestedIndex[c]}
    /\ goto(c, "retry")

\* Padding is taken for missing hashes unless the last chunk is known.
Passes(c) ==
    /\ message[c].ok
    /\ blind[c] \/ ChunkRange # NumChunks - 1 => ~PaddedPath(message[c].chunk)

\* CheckDataIntegrity. The first one finds the end of the padded tree; the
\* one that passes for the last chunk finds the content size.
CheckDataIntegrity(c) ==
    /\ pc[c] = "check"
    /\ IF Passes(c)
       THEN /\ ChunkRange' = IF blind[c] THEN PaddedEnd ELSE ChunkRange
            /\ ContentSize' = \/ ContentSize
                              \/ ~blind[c] /\ message[c].chunk = ChunkRange
            /\ overwritten' = (overwritten \/ (blind[c] /\ ~IsFirstData))
            /\ goto(c, "first")
            /\ UNCHANGED RequestedMap
       ELSE /\ Reject(c)
            /\ UNCHANGED <<ChunkRange, ContentSize, overwritten>>
    /\ UNCHANGED <<ChunkRangeList, CP, LastChunk, fileVars, IsFirstData,
                   chanVars, netVars, finished, unguarded>>

\* CheckPeakHash, while no channel has passed it, finds the last chunk.
CheckPeakHash(c) ==
    /\ pc[c] = "first"
    /\ ChunkRange' = IF IsFirstData THEN NumChunks - 1 ELSE ChunkRange
    /\ IsFirstData' = FALSE
    /\ goto(c, "store")
    /\ UNCHANGED <<mapVars, fileVars, ContentSize, chanVars, netVars, histVars>>

\* Mutant of SetLastChunk: the index of the last chunk in the tree.
SetLastChunkIndex ==
    LastChunk' = IF ContentSize /\ LastChunk = -1 THEN 2 * ChunkRange
                                                  ELSE LastChunk

\* The map learns the last chunk once the content size is known.
SetLastChunk ==
    LastChunk' = IF ContentSize /\ LastChunk = -1 THEN ChunkRange ELSE LastChunk

\* The data is good: RetryCount starts again, and SetData stores the chunk,
\* truncating a file that is not open.
StoreData(c) ==
    LET i     == message[c].chunk
        after == AfterSetHave(ChunkRangeList, CP, i, i)
    IN  /\ pc[c] = "store"
        /\ RetryCount' = [RetryCount EXCEPT ![c] = 0]
        /\ SetLastChunk
        /\ ChunkRangeList' = after.list /\ CP' = after.CP
        /\ RequestedMap' = RequestedMap \ {i}
        /\ disk' = {i} \cup IF FilePointer THEN disk ELSE {}
        /\ FilePointer' = TRUE
        /\ goto(c, "next")
        /\ UNCHANGED <<treeVars, message, blind, peerList, LastRequestedIndex,
                       netVars, histVars>>

\* Mutant of AfterStore: nobody asks for the last chunk.
AfterStoreWaits(c) ==
    /\ pc[c] = "next"
    /\ goto(c, IF ContentSize THEN "request" ELSE "idle")
    /\ UNCHANGED <<mapVars, fileVars, treeVars, chanVars, netVars, histVars>>

\* Without a content size the channel asks for the last chunk, which it does
\* not record as requested; with one it goes on to SendNextRequest.
AfterStore(c) ==
    /\ pc[c] = "next"
    /\ IF ContentSize
       THEN goto(c, "request") /\ UNCHANGED <<LastRequestedIndex, netVars>>
       ELSE goto(c, "idle") /\ SendRequest(c, ChunkRange)
    /\ UNCHANGED <<mapVars, fileVars, treeVars, message, blind, peerList,
                   RetryCount, histVars>>

\* RetryRequest: stop when RetryCount has passed the limit, else try again.
RetryRequest(c) ==
    /\ pc[c] = "retry"
    /\ IF RetryCount[c] > MaxRetry
       THEN goto(c, "stopped") /\ UNCHANGED RetryCount
       ELSE /\ RetryCount' = [RetryCount EXCEPT ![c] = @ + 1]
            /\ goto(c, "request")
    /\ UNCHANGED <<mapVars, fileVars, treeVars, message, blind, peerList,
                   LastRequestedIndex, netVars, histVars>>

\* KeepAliveCheck stops a channel whose peer has fallen silent.
KeepAliveStop(c) ==
    /\ pc[c] = "idle" /\ ~peerAlive[c] /\ datagrams[c] = {}
    /\ goto(c, "stopped")
    /\ UNCHANGED <<mapVars, fileVars, treeVars, chanVars, netVars, histVars>>

-----------------------------------------------------------------------------
(* The peers and the network *)

\* The peer of channel c serves a request. A chunk beyond the end of its file
\* has no bytes and cannot pass the check.
Serve(c, i) ==
    /\ peerAlive[c] /\ i \in requests[c]
    /\ requests' = [requests EXCEPT ![c] = @ \ {i}]
    /\ \/ /\ datagrams' = [datagrams EXCEPT ![c] =
                              @ \cup {[chunk |-> i, ok |-> i \in Chunks]}]
          /\ UNCHANGED faults
       \/ /\ Fault("corrupt")
          /\ datagrams' = [datagrams EXCEPT ![c] =
                              @ \cup {[chunk |-> i, ok |-> FALSE]}]
    /\ UNCHANGED <<mapVars, fileVars, treeVars, pc, chanVars, peerAlive,
                   histVars>>

\* A REQUEST or a DATA is lost.
Lose(c) ==
    /\ Fault("lose")
    /\ \/ \E i \in requests[c] :
             /\ requests' = [requests EXCEPT ![c] = @ \ {i}]
             /\ UNCHANGED datagrams
       \/ \E m \in datagrams[c] :
             /\ datagrams' = [datagrams EXCEPT ![c] = @ \ {m}]
             /\ UNCHANGED requests
    /\ UNCHANGED <<mapVars, fileVars, treeVars, pc, chanVars, peerAlive,
                   histVars>>

\* The peer of a channel dies.
Crash(c) ==
    /\ Fault("crash")
    /\ peerAlive[c]
    /\ peerAlive' = [peerAlive EXCEPT ![c] = FALSE]
    /\ UNCHANGED <<mapVars, fileVars, treeVars, pc, chanVars, requests,
                   datagrams, histVars>>

-----------------------------------------------------------------------------
\* What the receive thread of c does next.
Receive(c) ==
    \/ ReceiveHandShakeHave(c)
    \/ SendNextRequest(c) \/ CheckFinish(c)
    \/ \E m \in datagrams[c] : ReceiveData(c, m)
    \/ CheckDataIntegrity(c) \/ CheckPeakHash(c)
    \/ StoreData(c) \/ AfterStore(c)
    \/ RetryRequest(c)

Next ==
    \E c \in Channels :
        \/ Receive(c)
        \/ KeepAliveStop(c)
        \/ \E i \in requests[c] : Serve(c, i)
        \/ Lose(c) \/ Crash(c)

\* A receive thread with something to do goes on, a live peer answers, and the
\* keep-alive thread of a channel does not stop before the channel does.
Fairness ==
    \A c \in Channels :
        /\ WF_vars(Receive(c))
        /\ WF_vars(KeepAliveStop(c))
        /\ WF_vars(\E i \in requests[c] : Serve(c, i))

Spec == Init /\ [][Next]_vars

FairSpec == Spec /\ Fairness

-----------------------------------------------------------------------------
(* Properties *)

\* Types of the shared objects and of the channels.
TypeOK ==
    /\ ChunkRangeList \in Seq(ChunkRangeSt)
    /\ CP \in Chunks \cup {-1} /\ RequestedMap \subseteq Chunks
    /\ LastChunk \in {-1, NumChunks - 1, PaddedEnd}
    /\ disk \subseteq Chunks /\ FilePointer \in BOOLEAN
    /\ ChunkRange \in {-1, NumChunks - 1, PaddedEnd}
    /\ ContentSize \in BOOLEAN /\ IsFirstData \in BOOLEAN
    /\ pc \in [Channels -> {"handshake", "request", "finish", "idle", "check",
                            "first", "store", "next", "retry", "stopped"}]
    /\ message \in [Channels -> [chunk : 0..PaddedEnd, ok : BOOLEAN] \cup {NoData}]
    /\ blind \in [Channels -> BOOLEAN]
    /\ peerList \in [Channels -> Seq(ChunkRangeSt)]
    /\ LastRequestedIndex \in [Channels -> -1..PaddedEnd]
    /\ RetryCount \in [Channels -> Nat]
    /\ requests \in [Channels -> SUBSET (0..PaddedEnd)]
    /\ datagrams \in [Channels -> SUBSET [chunk : 0..PaddedEnd, ok : BOOLEAN]]
    /\ peerAlive \in [Channels -> BOOLEAN]
    /\ faults \in [Faults -> Nat]
    /\ finished \in BOOLEAN /\ unguarded \subseteq Chunks
    /\ overwritten \in BOOLEAN

\* Channel c has asked for chunk i and not dealt with the answer yet.
Outstanding(c, i) ==
    \/ i \in requests[c]
    \/ \E m \in datagrams[c] : m.chunk = i
    \/ pc[c] \in {"check", "first", "store"} /\ message[c].chunk = i

\* GetRequestData never hands out a recorded chunk again, so a record without
\* an answer on its way would withhold the chunk for ever. Failed checks leave
\* no such record: each of them releases what it was about, as long as a
\* channel has one request at a time, which a duplicated DATA undoes.
RequestsAccounted ==
    Without({"lose", "duplicate", "crash"}) =>
        \A i \in RequestedMap : \E c \in Channels : Outstanding(c, i)

\* No chunk is fetched by two channels at once, except one that was requested
\* before the map had any range (IsHaveData then ignores RequestedMap) and the
\* last chunk, which AfterStore requests without recording it. What is lost or
\* left by a dead peer is not fetched again; only the second request a
\* duplicated DATA causes on a channel can be released by mistake.
SingleFetch ==
    Without({"duplicate"}) =>
        \A i \in Chunks \ (unguarded \cup {NumChunks - 1}) :
            \A c, d \in Channels : Outstanding(c, i) /\ Outstanding(d, i) => c = d

\* The map learns the right last chunk, unless the first check of a second
\* channel replaced the ChunkRange found with the peak hashes.
LastChunkRight ==
    LastChunk # -1 => LastChunk = NumChunks - 1 \/ overwritten

\* Without CheckFinish taking a partial map for the content: what has finished
\* has every chunk.
FinishedHasAll == finished => Had = Chunks

\* "Content download finished.": from then on the file holds the content.
FinishedFileComplete == finished => disk = Chunks

\* A channel that waits for a DATA that is no longer on its way ...
Stalled(c) ==
    /\ pc[c] = "idle" /\ LastRequestedIndex[c] \in RequestedMap
    /\ \A i \in 0..PaddedEnd : ~Outstanding(c, i)

\* ... retries or is closed in the end, as after any failure of receiving data.
StalledIsRetriedOrClosed ==
    \A c \in Channels :
        Stalled(c) ~> (requests[c] # {} \/ pc[c] = "stopped")

\* Nobody is at work on the download any more, and nothing is on its way.
Quiet ==
    \A c \in Channels :
        /\ pc[c] \in {"idle", "stopped"}
        /\ pc[c] = "idle" => requests[c] = {} /\ datagrams[c] = {} /\ peerAlive[c]

\* A download over a network without faults does not come to rest before it has
\* finished, whatever channels stop on the way because they find nothing to
\* request, unless the ChunkRange was overwritten; as long as one peer has the
\* whole content and the others lack at most its first chunk. (With less in
\* common, a channel that looks for a chunk while CP is known and LastChunk is
\* not finds nothing, and stops for good.)
QuietIsFinished == Quiet => finished \/ overwritten \/ ~Without(Faults)
=============================================================================
