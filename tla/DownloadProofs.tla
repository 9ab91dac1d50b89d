--------------------------- MODULE DownloadProofs ---------------------------
(* Proofs about Download, for every content that the module is about, every  *)
(* set of channels, every number of retries and every bound on faults.       *)
EXTENDS Download, ChunkRangesProofs

-----------------------------------------------------------------------------
(* The inductive invariant *)

\* The node's map is a list of separated ranges of chunks of the content.
MapExact ==
    /\ Separated(ChunkRangeList)
    /\ PrefixRange(ChunkRangeList, CP)
    /\ Had \subseteq Chunks

\* What a channel has from its peer: the range announced, and data that is good
\* only for a chunk of the content. A channel past its check has good data, and
\* then ChunkRange is known.
Heard(c) ==
    /\ peerList[c] \in {<<>>, <<PeerRange[c]>>}
    /\ pc[c] = "handshake" => peerList[c] = <<>>
    /\ message[c].ok => message[c].chunk \in Chunks
    /\ \A m \in datagrams[c] : m.ok => m.chunk \in Chunks
    /\ pc[c] \in {"first", "store"} => message[c].ok
    /\ pc[c] \in {"first", "store", "next"} => ChunkRange # -1
    /\ pc[c] = "check" /\ ~blind[c] => ChunkRange # -1

\* Before the peak hashes are checked ChunkRange can only be the end of the
\* tree, after that it is the last chunk until it is overwritten; and so it is
\* when the content size is known.
LastFound ==
    /\ IsFirstData => ChunkRange \in {-1, PaddedEnd}
    /\ ~IsFirstData /\ ~overwritten => ChunkRange = NumChunks - 1
    /\ ContentSize /\ ~overwritten => ChunkRange = NumChunks - 1
    /\ LastChunkRight

\* A channel has one request at a time: it is on its way, or its answer is, or
\* that is being handled.
OneRequest(c) ==
    /\ pc[c] \notin {"idle", "stopped"} => requests[c] = {} /\ datagrams[c] = {}
    /\ \A i \in requests[c] : i = LastRequestedIndex[c]
    /\ \A m \in datagrams[c] : m.chunk = LastRequestedIndex[c]
    /\ requests[c] = {} \/ datagrams[c] = {}
    /\ \A m, n \in datagrams[c] : m = n
    /\ pc[c] \in {"check", "first", "store"} =>
          message[c].chunk = LastRequestedIndex[c]

\* The chunks that nobody asks for without recording it.
Guarded == Chunks \ (unguarded \cup {NumChunks - 1})

\* A request that is not answered yet is recorded, and is the only one for its
\* chunk.
Recorded ==
    \A i \in Guarded, c \in Channels :
        Outstanding(c, i) =>
            i \in RequestedMap /\ \A d \in Channels : Outstanding(d, i) => c = d

\* What holds of the requests unless a DATA was duplicated.
Fetching ==
    Without({"duplicate"}) =>
        /\ \A c \in Channels : OneRequest(c)
        /\ Recorded
        /\ RequestsAccounted

IInv ==
    /\ TypeOK
    /\ MapExact
    /\ \A c \in Channels : Heard(c)
    /\ LastFound
    /\ Fetching

-----------------------------------------------------------------------------
(* Constants *)

\* The padded tree has a leaf for each chunk.
LEMMA PaddedEndBounds == PaddedEnd \in Nat /\ NumChunks - 1 <= PaddedEnd
<1> DEFINE S == {2^k : k \in 1..NumChunks} \cap {n \in Nat : n >= NumChunks}
<1>1. S # {} /\ S \in SUBSET Nat
  BY PowersAssumption
<1>2. Min(S) \in S
  BY <1>1, MinInSet
<1>3. PaddedEnd = Min(S) - 1
  BY DEF PaddedEnd
<1>4. Min(S) \in Nat /\ Min(S) >= NumChunks
  BY <1>2
<1> HIDE DEF S
<1> QED
  BY <1>3, <1>4, NumChunksAssumption

\* The chunks are leaves; the end of the tree is one only if it is the last.
LEMMA ChunkFacts ==
    /\ Chunks \subseteq 0..PaddedEnd /\ Chunks \subseteq Nat
    /\ NumChunks - 1 \in Chunks /\ -1 \notin Chunks
    /\ NumChunks - 1 \in 0..PaddedEnd /\ PaddedEnd \in 0..PaddedEnd
    /\ NumChunks - 1 # -1 /\ PaddedEnd # -1
    /\ \A x \in {NumChunks - 1, PaddedEnd} : x \in Chunks => x = NumChunks - 1
    /\ 0..PaddedEnd \subseteq -1..PaddedEnd /\ -1 \in -1..PaddedEnd
BY PaddedEndBounds, NumChunksAssumption DEF Chunks

\* What one channel may do, with its peer and the network.
Step(c) ==
    \/ Receive(c)
    \/ KeepAliveStop(c)
    \/ \E i \in requests[c] : Serve(c, i)
    \/ Lose(c) \/ Crash(c)

\* Counting a fault forgets none.
LEMMA FaultCounts ==
    ASSUME TypeOK, NEW kind \in Faults, Fault(kind)
    PROVE  /\ faults' \in [Faults -> Nat]
           /\ ~Without({kind})'
           /\ \A k \in Faults : faults'[k] = 0 => faults[k] = 0
BY DEF TypeOK, Fault, Without

\* Without faults of a kind now there were none before.
LEMMA FaultsGrow ==
    ASSUME TypeOK, NEW c \in Channels, Step(c)
    PROVE  /\ faults' \in [Faults -> Nat]
           /\ \A k \in Faults : faults'[k] = 0 => faults[k] = 0
<1>1. faults' = faults \/ \E kind \in Faults : Fault(kind)
  BY DEF Step, Receive, ReceiveHandShakeHave, SendNextRequest, SendRequest,
     CheckFinish, ReceiveData, CheckDataIntegrity, CheckPeakHash, StoreData,
     AfterStore, RetryRequest, KeepAliveStop, Serve, Lose, Crash, netVars, Faults
<1>2. CASE faults' = faults
  BY <1>2 DEF TypeOK
<1>3. CASE \E kind \in Faults : Fault(kind)
  BY <1>3, FaultCounts
<1> QED
  BY <1>1, <1>2, <1>3

-----------------------------------------------------------------------------
(* Requests *)

\* GetRequestData answers -1 or a chunk of the content that is missing and, if
\* the map has any range, not recorded.
LEMMA NextRequest ==
    ASSUME IInv, NEW c \in Channels
    PROVE  LET i == RequestIndex(ChunkRangeList, RequestedMap, CP, LastChunk,
                                 peerList[c])
           IN  i = -1 \/ /\ i \in Chunks
                         /\ ChunkRangeList # <<>> => i \notin RequestedMap
<1> DEFINE i == RequestIndex(ChunkRangeList, RequestedMap, CP, LastChunk,
                             peerList[c])
<1>1. /\ ChunkRangeList \in Seq(ChunkRangeSt) /\ CP \in Int /\ LastChunk \in Int
      /\ peerList[c] \in Seq(ChunkRangeSt)
  BY ChunkFacts, PaddedEndBounds, NumChunksAssumption DEF IInv, TypeOK, Chunks
<1>2. Covered(peerList[c]) \subseteq Chunks
  <2>1. CASE peerList[c] = <<>>
    BY <2>1 DEF Covered
  <2>2. CASE peerList[c] = <<PeerRange[c]>>
    <3>1. /\ PeerRange[c].Start \in Nat /\ PeerRange[c].End \in Nat
          /\ PeerRange[c].End < NumChunks
      BY PeerRangeAssumption DEF ChunkRangeSt
    <3>2. ASSUME NEW x \in Covered(peerList[c]) PROVE x \in Chunks
      <4>1. PICK k \in DOMAIN peerList[c] : /\ x \in Int
                                            /\ peerList[c][k].Start <= x
                                            /\ x <= peerList[c][k].End
        BY <1>1, <3>2, CoveredMember
      <4>2. peerList[c][k] = PeerRange[c]
        BY <2>2
      <4> QED
        BY <3>1, <4>1, <4>2, NumChunksAssumption DEF Chunks
    <3> QED
      BY <3>2
  <2> QED
    BY <2>1, <2>2 DEF IInv, Heard
<1>3. \/ i = -1
      \/ /\ i \in Covered(peerList[c])
         /\ ~IsHaveData(ChunkRangeList, RequestedMap, i)
  BY <1>1, RequestIndexWanted
<1> HIDE DEF i
<1>4. ASSUME ~IsHaveData(ChunkRangeList, RequestedMap, i), ChunkRangeList # <<>>
      PROVE  i \notin RequestedMap
  <2>1. 1 \in DOMAIN ChunkRangeList
    BY <1>1, <1>4
  <2> QED
    BY <1>4, <2>1 DEF IsHaveData
<1>5. i = -1 \/ (i \in Chunks /\ (ChunkRangeList # <<>> => i \notin RequestedMap))
  BY <1>2, <1>3, <1>4
<1> QED
  BY <1>5 DEF i

\* SetData of a chunk of the content keeps the map exact.
LEMMA StoreExact ==
    ASSUME IInv, NEW i \in Chunks
    PROVE  LET after == AfterSetHave(ChunkRangeList, CP, i, i)
           IN  /\ after.list \in Seq(ChunkRangeSt)
               /\ after.CP \in Chunks \cup {-1}
               /\ Separated(after.list) /\ PrefixRange(after.list, after.CP)
               /\ Covered(after.list) \subseteq Chunks
<1> DEFINE after == AfterSetHave(ChunkRangeList, CP, i, i)
<1>1. /\ ChunkRangeList \in Seq(ChunkRangeSt) /\ CP \in Int
      /\ Separated(ChunkRangeList) /\ PrefixRange(ChunkRangeList, CP)
      /\ i \in Nat /\ CP \in Chunks \cup {-1} /\ Covered(ChunkRangeList) \subseteq Chunks
  BY ChunkFacts DEF IInv, TypeOK, MapExact, Had
<1>2. TakesIn(ChunkRangeList, CP, i, after.list, after.CP)
  BY <1>1, SetHaveOne
<1> HIDE DEF after
<1>3. /\ after.list \in Seq(ChunkRangeSt) /\ Separated(after.list)
      /\ Covered(after.list) \subseteq Chunks
      /\ after.CP \in Int /\ (after.CP >= 0 \/ after.CP = CP)
      /\ PrefixRange(after.list, after.CP)
  BY <1>1, <1>2 DEF TakesIn
<1>4. ASSUME after.CP >= 0 PROVE after.CP \in Chunks
  <2>1. PICK k \in DOMAIN after.list : /\ after.list[k].Start = 0
                                       /\ after.list[k].End = after.CP
    BY <1>3, <1>4 DEF PrefixRange
  <2>2. after.CP \in Covered(after.list)
    BY <1>3, <1>4, <2>1, CoveredMember
  <2> QED
    BY <1>3, <2>2
<1> QED
  BY <1>1, <1>3, <1>4 DEF after

-----------------------------------------------------------------------------
(* Types *)

\* TypeOK in parts: what a node shares among its channels, the threads of the
\* channels, their peers and the network.
Data == [chunk : 0..PaddedEnd, ok : BOOLEAN]
Labels == {"handshake", "request", "finish", "idle", "check", "first", "store",
           "next", "retry", "stopped"}

SharedTypes ==
    /\ ChunkRangeList \in Seq(ChunkRangeSt)
    /\ CP \in Chunks \cup {-1} /\ RequestedMap \subseteq Chunks
    /\ LastChunk \in {-1, NumChunks - 1, PaddedEnd}
    /\ disk \subseteq Chunks /\ FilePointer \in BOOLEAN
    /\ ChunkRange \in {-1, NumChunks - 1, PaddedEnd}
    /\ ContentSize \in BOOLEAN /\ IsFirstData \in BOOLEAN
    /\ finished \in BOOLEAN /\ unguarded \subseteq Chunks
    /\ overwritten \in BOOLEAN

ThreadTypes ==
    /\ pc \in [Channels -> Labels]
    /\ message \in [Channels -> Data \cup {NoData}]
    /\ blind \in [Channels -> BOOLEAN]
    /\ peerList \in [Channels -> Seq(ChunkRangeSt)]
    /\ LastRequestedIndex \in [Channels -> -1..PaddedEnd]
    /\ RetryCount \in [Channels -> Nat]

NetTypes ==
    /\ requests \in [Channels -> SUBSET (0..PaddedEnd)]
    /\ datagrams \in [Channels -> SUBSET Data]
    /\ peerAlive \in [Channels -> BOOLEAN]
    /\ faults \in [Faults -> Nat]

\* The parts are all of it.
LEMMA Types == TypeOK <=> SharedTypes /\ ThreadTypes /\ NetTypes
BY DEF TypeOK, SharedTypes, ThreadTypes, NetTypes, Data, Labels

\* The map of a peer takes in the range it announces.
LEMMA FirstRange ==
    ASSUME NEW start, NEW end
    PROVE  AfterSetHave(<<>>, -1, start, end).list =
               <<[Start |-> start, End |-> end]>>
<1>1. {m \in DOMAIN <<>> : Meets(<<>>[m], start, end)} = {}
  OBVIOUS
<1>2. First({m \in DOMAIN <<>> : Meets(<<>>[m], start, end)}) = 0
  BY <1>1 DEF First
<1>3. Append(<<>>, [Start |-> start, End |-> end]) =
          <<[Start |-> start, End |-> end]>>
  OBVIOUS
<1> QED
  BY <1>2, <1>3 DEF AfterSetHave

\* A download begins with nothing stored, asked for or heard.
LEMMA InitInv == Init => IInv
<1> SUFFICES ASSUME Init PROVE IInv
  OBVIOUS
<1>1. TypeOK
  <2>1. SharedTypes
    <3>1. <<>> \in Seq(ChunkRangeSt)
      OBVIOUS
    <3>2. {} \subseteq Chunks
      OBVIOUS
    <3> QED
      BY <3>1, <3>2 DEF Init, SharedTypes
  <2>2. ThreadTypes
    <3>1. RetryCount \in [Channels -> Nat]
      BY RetryAssumption DEF Init
    <3>2. <<>> \in Seq(ChunkRangeSt) /\ "handshake" \in Labels
      BY DEF Labels
    <3> HIDE DEF ChunkRangeSt
    <3> QED
      BY <3>1, <3>2, ChunkFacts DEF Init, ThreadTypes
  <2>3. NetTypes
    BY DEF Init, NetTypes
  <2> QED
    BY <2>1, <2>2, <2>3, Types
<1>2. MapExact
  BY DEF Init, MapExact, Separated, PrefixRange, Had, Covered
<1>3. \A c \in Channels : Heard(c)
  BY DEF Init, Heard, NoData
<1>4. LastFound
  BY DEF Init, LastFound, LastChunkRight
<1>5. Fetching
  BY DEF Init, Fetching, OneRequest, Recorded, RequestsAccounted, Outstanding
<1> QED
  BY <1>1, <1>2, <1>3, <1>4, <1>5 DEF IInv

\* Every step keeps the types of what the channels share.
LEMMA SharedStep ==
    ASSUME IInv, NEW c \in Channels, Step(c)
    PROVE  SharedTypes'
<1> USE DEF SharedTypes, mapVars, fileVars, treeVars, histVars
<1>0. SharedTypes /\ Heard(c)
  BY Types DEF IInv
<1>1. CASE SendNextRequest(c)
  <2> DEFINE i == RequestIndex(ChunkRangeList, RequestedMap, CP, LastChunk,
                               peerList[c])
  <2>1. i = -1 \/ i \in Chunks
    BY NextRequest
  <2>2. /\ RequestedMap' \in {RequestedMap, RequestedMap \cup {i}}
        /\ i = -1 => RequestedMap' = RequestedMap /\ unguarded' = unguarded
        /\ unguarded' \subseteq unguarded \cup {i}
    BY <1>1 DEF SendNextRequest
  <2> HIDE DEF i
  <2>3. RequestedMap' \subseteq Chunks /\ unguarded' \subseteq Chunks
    BY <1>0, <2>1, <2>2
  <2> QED
    BY <1>0, <1>1, <2>3 DEF SendNextRequest
<1>2. CASE CheckFinish(c)
  BY <1>0, <1>2 DEF CheckFinish
<1>3. CASE CheckDataIntegrity(c)
  BY <1>0, <1>3 DEF CheckDataIntegrity, Reject
<1>4. CASE CheckPeakHash(c)
  BY <1>0, <1>4 DEF CheckPeakHash
<1>5. CASE StoreData(c)
  <2> DEFINE i == message[c].chunk
             after == AfterSetHave(ChunkRangeList, CP, i, i)
  <2>1. i \in Chunks
    BY <1>0, <1>5 DEF StoreData, Heard
  <2>2. after.list \in Seq(ChunkRangeSt) /\ after.CP \in Chunks \cup {-1}
    BY <2>1, StoreExact
  <2>3. ChunkRangeList' = after.list /\ CP' = after.CP
    BY <1>5 DEF StoreData
  <2> HIDE DEF i, after
  <2> QED
    BY <1>0, <1>5, <2>1, <2>2, <2>3 DEF StoreData, SetLastChunk, i
<1>6. CASE UNCHANGED <<mapVars, fileVars, treeVars, histVars>>
  BY <1>0, <1>6
<1>7. \/ SendNextRequest(c) \/ CheckFinish(c) \/ CheckDataIntegrity(c)
      \/ CheckPeakHash(c) \/ StoreData(c)
      \/ UNCHANGED <<mapVars, fileVars, treeVars, histVars>>
  BY DEF Step, Receive, ReceiveHandShakeHave, ReceiveData, AfterStore,
     RetryRequest, KeepAliveStop, Serve, Lose, Crash
<1> QED
  BY <1>1, <1>2, <1>3, <1>4, <1>5, <1>6, <1>7

\* Every step keeps the types of the threads.
LEMMA ThreadStep ==
    ASSUME IInv, NEW c \in Channels, Step(c)
    PROVE  ThreadTypes'
<1> USE DEF ThreadTypes, goto, chanVars
<1>0. SharedTypes /\ ThreadTypes /\ NetTypes /\ Heard(c)
  BY Types DEF IInv
<1>a. Labels' = Labels /\ Data' = Data
  BY DEF Labels, Data
<1>1. CASE ReceiveHandShakeHave(c)
  <2>1. peerList' = [peerList EXCEPT ![c] = <<PeerRange[c]>>]
    <3>1. PeerRange[c] = [Start |-> PeerRange[c].Start, End |-> PeerRange[c].End]
      BY PeerRangeAssumption DEF ChunkRangeSt
    <3>2. peerList[c] = <<>>
      BY <1>0, <1>1 DEF ReceiveHandShakeHave, Heard
    <3>3. AfterSetHave(peerList[c], -1, PeerRange[c].Start, PeerRange[c].End).list
              = <<PeerRange[c]>>
      BY <3>1, <3>2, FirstRange
    <3> QED
      BY <1>1, <3>3 DEF ReceiveHandShakeHave
  <2>2. <<PeerRange[c]>> \in Seq(ChunkRangeSt)
    BY PeerRangeAssumption
  <2>3. pc' = [pc EXCEPT ![c] = "request"] /\ "request" \in Labels
    BY <1>1 DEF ReceiveHandShakeHave, Labels
  <2> QED
    BY <1>0, <1>1, <2>1, <2>2, <2>3 DEF ReceiveHandShakeHave
<1>2. \A label \in Labels : goto(c, label) => pc' \in [Channels -> Labels]
  BY <1>0
<1>3. pc' \in [Channels -> Labels]
  <2>1. pc' = pc \/ \E label \in Labels : goto(c, label)
    BY DEF Step, Receive, ReceiveHandShakeHave, SendNextRequest, CheckFinish,
       ReceiveData, CheckDataIntegrity, Reject, CheckPeakHash, StoreData,
       AfterStore, RetryRequest, KeepAliveStop, Serve, Lose, Crash, Labels
  <2> QED
    BY <1>0, <1>2, <2>1
<1>4. CASE SendNextRequest(c)
  <2> DEFINE i == RequestIndex(ChunkRangeList, RequestedMap, CP, LastChunk,
                               peerList[c])
  <2>1. i \in -1..PaddedEnd
    BY NextRequest, ChunkFacts
  <2>2. LastRequestedIndex' \in {LastRequestedIndex,
                                 [LastRequestedIndex EXCEPT ![c] = i]}
    BY <1>4 DEF SendNextRequest, SendRequest
  <2> HIDE DEF i
  <2>3. LastRequestedIndex' \in [Channels -> -1..PaddedEnd]
    BY <1>0, <2>1, <2>2
  <2> QED
    BY <1>0, <1>3, <1>4, <2>3 DEF SendNextRequest
<1>5. CASE \E m \in datagrams[c] : ReceiveData(c, m)
  <2>1. PICK m \in datagrams[c] : ReceiveData(c, m)
    BY <1>5
  <2>2. m \in Data
    BY <1>0, <2>1 DEF NetTypes
  <2>3. (ChunkRange < 0) \in BOOLEAN
    OBVIOUS
  <2> QED
    BY <1>0, <1>3, <2>1, <2>2, <2>3 DEF ReceiveData
<1>6. CASE StoreData(c)
  BY <1>0, <1>3, <1>6 DEF StoreData
<1>7. CASE AfterStore(c)
  <2>1. pc[c] = "next" => ChunkRange \in -1..PaddedEnd
    BY <1>0, ChunkFacts DEF Heard, SharedTypes
  <2> QED
    BY <1>0, <1>3, <1>7, <2>1 DEF AfterStore, SendRequest
<1>8. CASE RetryRequest(c)
  <2>1. RetryCount' \in [Channels -> Nat]
    BY <1>0, <1>8 DEF RetryRequest
  <2> QED
    BY <1>0, <1>3, <1>8, <2>1 DEF RetryRequest
<1>9. CASE UNCHANGED chanVars
  BY <1>0, <1>3, <1>9
<1>10. \/ ReceiveHandShakeHave(c) \/ SendNextRequest(c)
       \/ \E m \in datagrams[c] : ReceiveData(c, m)
       \/ StoreData(c) \/ AfterStore(c) \/ RetryRequest(c)
       \/ UNCHANGED chanVars
  BY DEF Step, Receive, CheckFinish, CheckDataIntegrity, CheckPeakHash,
     KeepAliveStop, Serve, Lose, Crash
<1> QED
  BY <1>1, <1>4, <1>5, <1>6, <1>7, <1>8, <1>9, <1>10

\* Every step keeps the types of the requests and of the datagrams.
LEMMA NetStep ==
    ASSUME IInv, NEW c \in Channels, Step(c)
    PROVE  NetTypes'
<1> USE DEF NetTypes, netVars
<1>0. /\ SharedTypes /\ NetTypes /\ Heard(c)
      /\ faults' \in [Faults -> Nat]
  BY Types, FaultsGrow DEF IInv
<1>a. Data' = Data
  BY DEF Data
<1>1. CASE SendNextRequest(c)
  <2> DEFINE i == RequestIndex(ChunkRangeList, RequestedMap, CP, LastChunk,
                               peerList[c])
  <2>1. i = -1 \/ i \in 0..PaddedEnd
    BY NextRequest, ChunkFacts
  <2>2. \/ UNCHANGED netVars
        \/ /\ i # -1 /\ requests' = [requests EXCEPT ![c] = @ \cup {i}]
           /\ UNCHANGED <<datagrams, peerAlive, faults>>
    BY <1>1 DEF SendNextRequest, SendRequest
  <2> HIDE DEF i
  <2> QED
    BY <1>0, <2>1, <2>2
<1>2. CASE \E m \in datagrams[c] : ReceiveData(c, m)
  <2>1. /\ datagrams' \in [Channels -> SUBSET Data]
        /\ UNCHANGED <<requests, peerAlive>>
    BY <1>0, <1>2 DEF ReceiveData
  <2> QED
    BY <1>0, <2>1
<1>3. CASE AfterStore(c)
  <2>1. pc[c] = "next" => ChunkRange \in 0..PaddedEnd
    BY <1>0, ChunkFacts DEF Heard, SharedTypes
  <2> QED
    BY <1>0, <1>3, <2>1 DEF AfterStore, SendRequest
<1>4. CASE \E i \in requests[c] : Serve(c, i)
  <2>1. PICK i \in requests[c] : Serve(c, i)
    BY <1>4
  <2>2. i \in 0..PaddedEnd
    BY <1>0, <2>1
  <2>3. PICK b \in BOOLEAN :
            datagrams' = [datagrams EXCEPT ![c] =
                             @ \cup {[chunk |-> i, ok |-> b]}]
    <3>1. (i \in Chunks) \in BOOLEAN /\ FALSE \in BOOLEAN
      OBVIOUS
    <3>2. \/ datagrams' = [datagrams EXCEPT ![c] =
                              @ \cup {[chunk |-> i, ok |-> i \in Chunks]}]
          \/ datagrams' = [datagrams EXCEPT ![c] =
                              @ \cup {[chunk |-> i, ok |-> FALSE]}]
      BY <2>1 DEF Serve
    <3> HIDE DEF Chunks
    <3> QED
      BY <3>1, <3>2, Zenon
  <2>4. [chunk |-> i, ok |-> b] \in Data
    BY <2>2 DEF Data
  <2>5. datagrams' \in [Channels -> SUBSET Data]
    BY <1>0, <2>3, <2>4
  <2> QED
    BY <1>0, <2>1, <2>5 DEF Serve
<1>5. CASE Lose(c)
  <2>1. /\ requests' \in [Channels -> SUBSET (0..PaddedEnd)]
        /\ datagrams' \in [Channels -> SUBSET Data]
    BY <1>0, <1>5 DEF Lose
  <2> QED
    BY <1>0, <1>5, <2>1 DEF Lose, chanVars
<1>6. CASE Crash(c)
  BY <1>0, <1>6 DEF Crash
<1>7. CASE UNCHANGED netVars
  BY <1>0, <1>7
<1>8. \/ SendNextRequest(c) \/ \E m \in datagrams[c] : ReceiveData(c, m)
      \/ AfterStore(c) \/ \E i \in requests[c] : Serve(c, i)
      \/ Lose(c) \/ Crash(c) \/ UNCHANGED netVars
  BY DEF Step, Receive, ReceiveHandShakeHave, CheckFinish, CheckDataIntegrity,
     CheckPeakHash, StoreData, RetryRequest, KeepAliveStop
<1> QED
  BY <1>1, <1>2, <1>3, <1>4, <1>5, <1>6, <1>7, <1>8

\* Every step keeps the types.
LEMMA TypeStep ==
    ASSUME IInv, NEW c \in Channels, Step(c)
    PROVE  TypeOK'
<1>1. TypeOK' <=> SharedTypes' /\ ThreadTypes' /\ NetTypes'
  BY DEF TypeOK, SharedTypes, ThreadTypes, NetTypes, Data, Labels
<1> QED
  BY <1>1, SharedStep, ThreadStep, NetStep

-----------------------------------------------------------------------------
(* The map, the last chunk, and what is heard *)

\* Only SetData changes the map.
LEMMA MapStep ==
    ASSUME IInv, NEW c \in Channels, Step(c)
    PROVE  MapExact'
<1>1. CASE StoreData(c)
  <2> DEFINE i == message[c].chunk
             after == AfterSetHave(ChunkRangeList, CP, i, i)
  <2>1. i \in Chunks
    BY <1>1 DEF IInv, Heard, StoreData
  <2>2. /\ Separated(after.list) /\ PrefixRange(after.list, after.CP)
        /\ Covered(after.list) \subseteq Chunks
    BY <2>1, StoreExact
  <2>3. ChunkRangeList' = after.list /\ CP' = after.CP
    BY <1>1 DEF StoreData
  <2> HIDE DEF after
  <2> QED
    BY <2>2, <2>3 DEF MapExact, Had
<1>2. CASE UNCHANGED <<ChunkRangeList, CP>>
  BY <1>2 DEF IInv, MapExact, Had
<1>3. StoreData(c) \/ UNCHANGED <<ChunkRangeList, CP>>
  BY DEF Step, Receive, ReceiveHandShakeHave, SendNextRequest, CheckFinish,
     ReceiveData, CheckDataIntegrity, CheckPeakHash, AfterStore, RetryRequest,
     KeepAliveStop, Serve, Lose, Crash, mapVars
<1> QED
  BY <1>1, <1>2, <1>3

\* A check that passes for data of the last chunk knows it; a check that began
\* without ChunkRange moves it only while the peak hashes are unchecked, or is
\* recorded.
LEMMA LastStep ==
    ASSUME IInv, NEW c \in Channels, Step(c)
    PROVE  LastFound'
<1> USE ChunkFacts DEF LastFound, LastChunkRight, mapVars, treeVars, histVars
<1>0. /\ LastFound /\ Heard(c) /\ SharedTypes
      /\ pc[c] = "check" /\ ~blind[c] => ChunkRange # -1
  BY Types DEF IInv, Heard
<1>1. CASE CheckDataIntegrity(c)
  <2>1. CASE ~Passes(c)
    BY <1>0, <1>1, <2>1 DEF CheckDataIntegrity
  <2>2. CASE Passes(c) /\ ~blind[c]
    <3>1. message[c].chunk = ChunkRange => ChunkRange = NumChunks - 1
      BY <1>0, <1>1, <2>2 DEF CheckDataIntegrity, Heard, Passes, SharedTypes
    <3> QED
      BY <1>0, <1>1, <2>2, <3>1 DEF CheckDataIntegrity
  <2>3. CASE Passes(c) /\ blind[c]
    BY <1>0, <1>1, <2>3 DEF CheckDataIntegrity
  <2> QED
    BY <2>1, <2>2, <2>3
<1>2. CASE CheckPeakHash(c)
  BY <1>0, <1>2 DEF CheckPeakHash
<1>3. CASE StoreData(c)
  BY <1>0, <1>3 DEF StoreData, SetLastChunk
<1>4. CASE UNCHANGED <<ChunkRange, IsFirstData, ContentSize, LastChunk, overwritten>>
  BY <1>0, <1>4
<1>5. \/ CheckDataIntegrity(c) \/ CheckPeakHash(c) \/ StoreData(c)
      \/ UNCHANGED <<ChunkRange, IsFirstData, ContentSize, LastChunk, overwritten>>
  BY DEF Step, Receive, ReceiveHandShakeHave, SendNextRequest, CheckFinish,
     ReceiveData, AfterStore, RetryRequest, KeepAliveStop, Serve, Lose, Crash
<1> QED
  BY <1>1, <1>2, <1>3, <1>4, <1>5

\* A step of a channel leaves what the others are at, have asked for and have
\* been sent.
Only(c) ==
    \A d \in Channels \ {c} :
        /\ pc'[d] = pc[d] /\ message'[d] = message[d] /\ blind'[d] = blind[d]
        /\ peerList'[d] = peerList[d]
        /\ LastRequestedIndex'[d] = LastRequestedIndex[d]
        /\ requests'[d] = requests[d] /\ datagrams'[d] = datagrams[d]

\* Every step is one of its channel only.
LEMMA OthersSame ==
    ASSUME IInv, NEW c \in Channels, Step(c)
    PROVE  Only(c)
<1> USE DEF Only, goto, chanVars, netVars
<1>0. ThreadTypes /\ NetTypes
  BY Types DEF IInv
<1> USE <1>0 DEF ThreadTypes, NetTypes
<1>1. CASE ReceiveHandShakeHave(c)
  BY <1>1 DEF ReceiveHandShakeHave
<1>2. CASE SendNextRequest(c)
  BY <1>2 DEF SendNextRequest, SendRequest
<1>3. CASE CheckFinish(c)
  BY <1>3 DEF CheckFinish
<1>4. CASE \E m \in datagrams[c] : ReceiveData(c, m)
  BY <1>4 DEF ReceiveData
<1>5. CASE CheckDataIntegrity(c)
  BY <1>5 DEF CheckDataIntegrity, Reject
<1>6. CASE CheckPeakHash(c)
  BY <1>6 DEF CheckPeakHash
<1>7. CASE StoreData(c)
  BY <1>7 DEF StoreData
<1>8. CASE AfterStore(c)
  BY <1>8 DEF AfterStore, SendRequest
<1>9. CASE RetryRequest(c)
  BY <1>9 DEF RetryRequest
<1>10. CASE KeepAliveStop(c)
  BY <1>10 DEF KeepAliveStop
<1>11. CASE \E i \in requests[c] : Serve(c, i)
  BY <1>11 DEF Serve
<1>12. CASE Lose(c)
  BY <1>12 DEF Lose
<1>13. CASE Crash(c)
  BY <1>13 DEF Crash
<1> QED
  BY <1>1, <1>2, <1>3, <1>4, <1>5, <1>6, <1>7, <1>8, <1>9, <1>10, <1>11, <1>12,
     <1>13 DEF Step, Receive

\* ChunkRange, once known, is not forgotten.
LEMMA RangeStays ==
    ASSUME IInv, NEW c \in Channels, Step(c)
    PROVE  ChunkRange # -1 => ChunkRange' # -1
BY ChunkFacts
   DEF Step, Receive, ReceiveHandShakeHave, SendNextRequest, CheckFinish,
       ReceiveData, CheckDataIntegrity, CheckPeakHash, StoreData, AfterStore,
       RetryRequest, KeepAliveStop, Serve, Lose, Crash, treeVars

\* What a channel has heard stays sound, whoever makes a step.
LEMMA HeardStep ==
    ASSUME IInv, NEW c \in Channels, Step(c), NEW d \in Channels
    PROVE  Heard(d)'
<1> USE DEF Heard, goto, chanVars, netVars, treeVars
<1>0. /\ ThreadTypes /\ NetTypes /\ SharedTypes /\ Heard(c) /\ Heard(d)
      /\ ChunkRange # -1 => ChunkRange' # -1
  BY Types, RangeStays DEF IInv
<1>1. CASE d # c
  BY <1>0, <1>1, OthersSame DEF Only
<1> SUFFICES ASSUME d = c PROVE Heard(c)'
  BY <1>1
<1> USE <1>0 DEF ThreadTypes, NetTypes
<1>2. CASE ReceiveHandShakeHave(c)
  <2>1. peerList'[c] = <<PeerRange[c]>>
    <3>1. PeerRange[c] = [Start |-> PeerRange[c].Start, End |-> PeerRange[c].End]
      BY PeerRangeAssumption DEF ChunkRangeSt
    <3>2. peerList[c] = <<>>
      BY <1>2 DEF ReceiveHandShakeHave
    <3>3. AfterSetHave(peerList[c], -1, PeerRange[c].Start, PeerRange[c].End).list
              = <<PeerRange[c]>>
      BY <3>1, <3>2, FirstRange
    <3> QED
      BY <1>2, <3>3 DEF ReceiveHandShakeHave
  <2> QED
    BY <1>2, <2>1 DEF ReceiveHandShakeHave
<1>3. CASE SendNextRequest(c)
  BY <1>3 DEF SendNextRequest, SendRequest
<1>4. CASE CheckFinish(c)
  BY <1>4 DEF CheckFinish
<1>5. CASE \E m \in datagrams[c] : ReceiveData(c, m)
  <2>1. PICK m \in datagrams[c] : ReceiveData(c, m)
    BY <1>5
  <2>2. datagrams'[c] \subseteq datagrams[c] /\ message'[c] = m
    BY <2>1 DEF ReceiveData
  <2>3. pc'[c] = "check" /\ blind'[c] = (ChunkRange < 0)
    BY <2>1 DEF ReceiveData
  <2>4. ~blind'[c] => ChunkRange' # -1
    <3>1. -1 < 0
      OBVIOUS
    <3> QED
      BY <2>3, <3>1, <1>0
  <2> QED
    BY <2>1, <2>2, <2>3, <2>4 DEF ReceiveData
<1>6. CASE CheckDataIntegrity(c)
  <2>1. CASE Passes(c)
    <3>1. blind[c] => ChunkRange' # -1
      BY <1>6, <2>1, ChunkFacts DEF CheckDataIntegrity
    <3>2. message[c].ok
      BY <2>1 DEF Passes
    <3> QED
      BY <1>6, <2>1, <3>1, <3>2 DEF CheckDataIntegrity
  <2>2. CASE ~Passes(c)
    BY <1>6, <2>2 DEF CheckDataIntegrity, Reject
  <2> QED
    BY <2>1, <2>2
<1>7. CASE CheckPeakHash(c)
  BY <1>7 DEF CheckPeakHash
<1>8. CASE StoreData(c)
  BY <1>8 DEF StoreData
<1>9. CASE AfterStore(c)
  BY <1>9 DEF AfterStore, SendRequest
<1>10. CASE RetryRequest(c)
  BY <1>10 DEF RetryRequest
<1>11. CASE KeepAliveStop(c)
  BY <1>11 DEF KeepAliveStop
<1>12. CASE \E i \in requests[c] : Serve(c, i)
  <2>1. PICK i \in requests[c] : Serve(c, i)
    BY <1>12
  <2>2. \A m \in datagrams'[c] :
            m \in datagrams[c] \/ (m.ok => m.chunk \in Chunks)
    <3> DEFINE good == [chunk |-> i, ok |-> i \in Chunks]
               bad == [chunk |-> i, ok |-> FALSE]
    <3>1. (good.ok => good.chunk \in Chunks) /\ ~bad.ok
      OBVIOUS
    <3> HIDE DEF good, bad
    <3>2. \/ datagrams'[c] = datagrams[c] \cup {good}
          \/ datagrams'[c] = datagrams[c] \cup {bad}
      BY <2>1 DEF Serve, good, bad
    <3> QED
      BY <3>1, <3>2
  <2> QED
    BY <2>1, <2>2 DEF Serve
<1>13. CASE Lose(c)
  BY <1>13 DEF Lose
<1>14. CASE Crash(c)
  BY <1>14 DEF Crash
<1> QED
  BY <1>2, <1>3, <1>4, <1>5, <1>6, <1>7, <1>8, <1>9, <1>10, <1>11, <1>12, <1>13,
     <1>14 DEF Step, Receive

-----------------------------------------------------------------------------
(* The requests *)

\* What others have asked for is not disturbed.
LEMMA OthersRequests ==
    ASSUME NEW c \in Channels, Only(c), NEW d \in Channels \ {c}
    PROVE  /\ OneRequest(d)' <=> OneRequest(d)
           /\ \A i : Outstanding(d, i)' <=> Outstanding(d, i)
BY DEF Only, OneRequest, Outstanding

\* A fault that has not happened yet had not happened before.
LEMMA StillWithout ==
    ASSUME IInv, NEW c \in Channels, Step(c), NEW kinds \in SUBSET Faults
    PROVE  Without(kinds)' => Without(kinds)
BY FaultsGrow DEF IInv, Without

\* A step that leaves what is recorded, and what is outstanding, or loses it.
LEMMA KeptFetching ==
    ASSUME IInv, NEW c \in Channels, Step(c),
           UNCHANGED <<RequestedMap, unguarded>>,
           Without({"duplicate"})' /\ OneRequest(c) =>
               /\ OneRequest(c)'
               /\ \A i : Outstanding(c, i)' => Outstanding(c, i)
               /\ Without({"lose"})' =>
                     \A i : Outstanding(c, i) => Outstanding(c, i)'
    PROVE  Fetching'
<1> SUFFICES ASSUME Without({"duplicate"})'
             PROVE  /\ \A d \in Channels : OneRequest(d)'
                    /\ Recorded' /\ RequestsAccounted'
  BY DEF Fetching
<1>1. /\ \A d \in Channels : OneRequest(d)
      /\ Recorded /\ RequestsAccounted
  BY StillWithout DEF IInv, Fetching, Faults
<1>2. /\ \A d \in Channels : OneRequest(d)'
      /\ \A d \in Channels : \A i : Outstanding(d, i)' => Outstanding(d, i)
  BY <1>1, OthersSame, OthersRequests
<1>3. Recorded'
  <2>1. Guarded' = Guarded
    BY DEF Guarded
  <2> QED
    BY <1>1, <1>2, <2>1 DEF Recorded
<1>4. RequestsAccounted'
  <2> SUFFICES ASSUME Without({"lose", "duplicate", "crash"})',
                      NEW i \in RequestedMap'
               PROVE  \E d \in Channels : Outstanding(d, i)'
    BY DEF RequestsAccounted
  <2>1. Without({"lose", "duplicate", "crash"}) /\ Without({"lose"})'
    BY StillWithout DEF Without, Faults
  <2>2. PICK d \in Channels : Outstanding(d, i)
    BY <1>1, <2>1 DEF RequestsAccounted
  <2> QED
    BY <1>1, <2>1, <2>2, OthersSame, OthersRequests
<1> QED
  BY <1>2, <1>3, <1>4

\* A step that deals with the answer of channel c and releases its chunk.
LEMMA SettledFetching ==
    ASSUME IInv, NEW c \in Channels, Step(c), NEW x,
           RequestedMap' = RequestedMap \ {x}, UNCHANGED unguarded,
           OneRequest(c) =>
               /\ OneRequest(c)'
               /\ \A i : Outstanding(c, i) <=> i = x
               /\ \A i : ~Outstanding(c, i)'
    PROVE  Fetching'
<1> SUFFICES ASSUME Without({"duplicate"})'
             PROVE  /\ \A d \in Channels : OneRequest(d)'
                    /\ Recorded' /\ RequestsAccounted'
  BY DEF Fetching
<1>1. /\ \A d \in Channels : OneRequest(d)
      /\ Recorded /\ RequestsAccounted
  BY StillWithout DEF IInv, Fetching, Faults
<1>2. \A d \in Channels : OneRequest(d)'
  BY <1>1, OthersSame, OthersRequests
<1>3. \A d \in Channels : \A i : Outstanding(d, i)' => d # c /\ Outstanding(d, i)
  BY <1>1, OthersSame, OthersRequests
<1>4. Recorded'
  <2>1. Guarded' = Guarded
    BY DEF Guarded
  <2>2. ASSUME NEW i \in Guarded, NEW d \in Channels, Outstanding(d, i)'
        PROVE  i \in RequestedMap'
    <3>1. d # c /\ Outstanding(d, i) /\ i \in RequestedMap
      BY <1>1, <1>3, <2>2 DEF Recorded
    <3>2. i # x
      BY <1>1, <2>2, <3>1 DEF Recorded
    <3> QED
      BY <3>1, <3>2
  <2> QED
    BY <1>1, <1>3, <2>1, <2>2 DEF Recorded
<1>5. RequestsAccounted'
  <2> SUFFICES ASSUME Without({"lose", "duplicate", "crash"})',
                      NEW i \in RequestedMap'
               PROVE  \E d \in Channels : Outstanding(d, i)'
    BY DEF RequestsAccounted
  <2>1. Without({"lose", "duplicate", "crash"})
    BY StillWithout DEF Faults
  <2>2. i # x /\ i \in RequestedMap
    OBVIOUS
  <2>3. PICK d \in Channels : Outstanding(d, i)
    BY <1>1, <2>1, <2>2 DEF RequestsAccounted
  <2>4. d # c
    BY <1>1, <2>2, <2>3
  <2> QED
    BY <2>3, <2>4, OthersSame, OthersRequests
<1> QED
  BY <1>2, <1>4, <1>5

\* A step that asks for x: a chunk not recorded before, or one that is not to
\* be guarded.
LEMMA AskedFetching ==
    ASSUME IInv, NEW c \in Channels, Step(c), NEW x,
           RequestedMap \subseteq RequestedMap',
           RequestedMap' \subseteq RequestedMap \cup {x},
           unguarded \subseteq unguarded',
           x \in Guarded' => x \in RequestedMap' /\ x \notin RequestedMap,
           OneRequest(c) =>
               /\ OneRequest(c)'
               /\ \A i : ~Outstanding(c, i)
               /\ \A i : Outstanding(c, i)' <=> i = x
    PROVE  Fetching'
<1> SUFFICES ASSUME Without({"duplicate"})'
             PROVE  /\ \A d \in Channels : OneRequest(d)'
                    /\ Recorded' /\ RequestsAccounted'
  BY DEF Fetching
<1>1. /\ \A d \in Channels : OneRequest(d)
      /\ Recorded /\ RequestsAccounted
  BY StillWithout DEF IInv, Fetching, Faults
<1>2. \A d \in Channels : OneRequest(d)'
  BY <1>1, OthersSame, OthersRequests
<1>3. \A d \in Channels : \A i :
          Outstanding(d, i)' <=> IF d = c THEN i = x ELSE Outstanding(d, i)
  BY <1>1, OthersSame, OthersRequests
<1>4. Guarded' \subseteq Guarded
  BY DEF Guarded
<1>5. Recorded'
  <2> SUFFICES ASSUME NEW i \in Guarded', NEW d \in Channels, Outstanding(d, i)'
               PROVE  /\ i \in RequestedMap'
                      /\ \A e \in Channels : Outstanding(e, i)' => d = e
    BY DEF Recorded
  <2>1. i \in Guarded
    BY <1>4
  <2>2. CASE i = x
    <3>1. \A e \in Channels : ~Outstanding(e, x)
      BY <1>1, <2>1, <2>2 DEF Recorded
    <3> QED
      BY <1>3, <2>2, <3>1
  <2>3. CASE i # x
    BY <1>1, <1>3, <2>1, <2>3 DEF Recorded
  <2> QED
    BY <2>2, <2>3
<1>6. RequestsAccounted'
  <2> SUFFICES ASSUME Without({"lose", "duplicate", "crash"})',
                      NEW i \in RequestedMap'
               PROVE  \E d \in Channels : Outstanding(d, i)'
    BY DEF RequestsAccounted
  <2>1. Without({"lose", "duplicate", "crash"})
    BY StillWithout DEF Faults
  <2>2. CASE i = x
    BY <1>3, <2>2
  <2>3. CASE i # x
    <3>1. PICK d \in Channels : Outstanding(d, i)
      BY <1>1, <2>1, <2>3 DEF RequestsAccounted
    <3>2. d # c
      BY <1>1, <3>1
    <3> QED
      BY <1>3, <3>1, <3>2
  <2> QED
    BY <2>2, <2>3
<1> QED
  BY <1>2, <1>5, <1>6

\* Every step keeps the requests in order.
LEMMA FetchStep ==
    ASSUME IInv, NEW c \in Channels, Step(c)
    PROVE  Fetching'
<1> USE DEF goto, chanVars, netVars, mapVars, histVars
<1>0. /\ ThreadTypes /\ NetTypes /\ SharedTypes /\ Heard(c)
  BY Types DEF IInv
<1> USE <1>0 DEF ThreadTypes, NetTypes
<1>1. CASE SendNextRequest(c)
  <2> DEFINE i == RequestIndex(ChunkRangeList, RequestedMap, CP, LastChunk,
                               peerList[c])
  <2>1. i = -1 \/ /\ i \in Chunks
                  /\ ChunkRangeList # <<>> => i \notin RequestedMap
    BY NextRequest
  <2>2. pc[c] = "request"
    BY <1>1 DEF SendNextRequest
  <2>3. CASE i = -1
    <3>1. /\ UNCHANGED <<RequestedMap, unguarded, LastRequestedIndex, netVars,
                         message>>
          /\ pc'[c] = "finish"
      BY <1>1, <2>3 DEF SendNextRequest
    <3> QED
      BY <2>2, <3>1, KeptFetching DEF OneRequest, Outstanding
  <2>4. CASE i # -1
    <3>1. /\ RequestedMap' = RequestedMap \cup {i}
          /\ unguarded' = unguarded \cup IF ChunkRangeList = <<>> THEN {i} ELSE {}
          /\ pc'[c] = "idle" /\ UNCHANGED datagrams
          /\ SendRequest(c, i)
      BY <1>1, <2>4 DEF SendNextRequest, SendRequest
    <3> HIDE DEF i
    <3>2. requests'[c] = requests[c] \cup {i} /\ LastRequestedIndex'[c] = i
      BY <3>1 DEF SendRequest
    <3>3. ASSUME i \in Guarded' PROVE i \in RequestedMap' /\ i \notin RequestedMap
      <4>1. ChunkRangeList # <<>>
        BY <3>1, <3>3 DEF Guarded
      <4> QED
        BY <2>1, <2>4, <3>1, <4>1
    <3>4. ASSUME OneRequest(c)
          PROVE  /\ OneRequest(c)'
                 /\ \A j : ~Outstanding(c, j)
                 /\ \A j : Outstanding(c, j)' <=> j = i
      BY <2>2, <3>1, <3>2, <3>4 DEF OneRequest, Outstanding
    <3> QED
      BY <3>1, <3>3, <3>4, AskedFetching
  <2> QED
    BY <2>3, <2>4
<1>2. CASE \E m \in datagrams[c] : ReceiveData(c, m)
  <2>1. PICK m \in datagrams[c] : ReceiveData(c, m)
    BY <1>2
  <2>2. /\ pc[c] = "idle" /\ pc'[c] = "check" /\ message'[c] = m
        /\ UNCHANGED <<RequestedMap, unguarded, requests, LastRequestedIndex>>
    BY <2>1 DEF ReceiveData
  <2>3. Without({"duplicate"})' => datagrams'[c] = datagrams[c] \ {m}
    BY <2>1, FaultCounts DEF ReceiveData, Faults, IInv
  <2>4. ASSUME Without({"duplicate"})', OneRequest(c)
        PROVE  /\ OneRequest(c)'
               /\ \A i : Outstanding(c, i)' <=> Outstanding(c, i)
    BY <2>1, <2>2, <2>3, <2>4 DEF OneRequest, Outstanding
  <2> QED
    BY <2>2, <2>4, KeptFetching
<1>3. CASE CheckDataIntegrity(c)
  <2>1. /\ pc[c] = "check" /\ pc'[c] \in {"first", "retry"}
        /\ UNCHANGED <<unguarded, message, LastRequestedIndex, requests,
                       datagrams>>
        /\ pc'[c] = "first" => UNCHANGED RequestedMap
        /\ pc'[c] = "retry" =>
              RequestedMap' = RequestedMap \ {LastRequestedIndex[c]}
    BY <1>3 DEF CheckDataIntegrity, Reject
  <2>2. CASE pc'[c] = "first"
    <3>1. ASSUME OneRequest(c)
          PROVE  /\ OneRequest(c)'
                 /\ \A i : Outstanding(c, i)' <=> Outstanding(c, i)
      BY <2>1, <2>2, <3>1 DEF OneRequest, Outstanding
    <3> QED
      BY <2>1, <2>2, <3>1, KeptFetching
  <2>3. CASE pc'[c] = "retry"
    <3>1. ASSUME OneRequest(c)
          PROVE  /\ OneRequest(c)'
                 /\ \A i : Outstanding(c, i) <=> i = LastRequestedIndex[c]
                 /\ \A i : ~Outstanding(c, i)'
      BY <2>1, <2>3, <3>1 DEF OneRequest, Outstanding
    <3> QED
      BY <2>1, <2>3, <3>1, SettledFetching
  <2> QED
    BY <2>1, <2>2, <2>3
<1>4. CASE StoreData(c)
  <2>1. /\ pc[c] = "store" /\ pc'[c] = "next"
        /\ RequestedMap' = RequestedMap \ {message[c].chunk}
        /\ UNCHANGED <<unguarded, message, LastRequestedIndex, requests,
                       datagrams>>
    BY <1>4 DEF StoreData
  <2>2. ASSUME OneRequest(c)
        PROVE  /\ OneRequest(c)'
               /\ \A i : Outstanding(c, i) <=> i = message[c].chunk
               /\ \A i : ~Outstanding(c, i)'
    BY <2>1, <2>2 DEF OneRequest, Outstanding
  <2> QED
    BY <2>1, <2>2, SettledFetching
<1>5. CASE AfterStore(c)
  <2>1. CASE ContentSize
    <3>1. /\ pc[c] = "next" /\ pc'[c] = "request"
          /\ UNCHANGED <<RequestedMap, unguarded, message, LastRequestedIndex,
                         requests, datagrams>>
      BY <1>5, <2>1 DEF AfterStore
    <3> QED
      BY <3>1, KeptFetching DEF OneRequest, Outstanding
  <2>2. CASE ~ContentSize
    <3>1. /\ pc[c] = "next" /\ pc'[c] = "idle"
          /\ requests'[c] = requests[c] \cup {ChunkRange}
          /\ LastRequestedIndex'[c] = ChunkRange
          /\ UNCHANGED <<RequestedMap, unguarded, message, datagrams>>
      BY <1>5, <2>2 DEF AfterStore, SendRequest
    <3>2. ChunkRange \notin Guarded'
      BY <3>1, ChunkFacts DEF Guarded, Heard, SharedTypes
    <3>3. ASSUME OneRequest(c)
          PROVE  /\ OneRequest(c)'
                 /\ \A i : ~Outstanding(c, i)
                 /\ \A i : Outstanding(c, i)' <=> i = ChunkRange
      BY <3>1, <3>3 DEF OneRequest, Outstanding
    <3> QED
      BY <3>1, <3>2, <3>3, AskedFetching
  <2> QED
    BY <2>1, <2>2
<1>6. CASE \E i \in requests[c] : Serve(c, i)
  <2>1. PICK i \in requests[c] : Serve(c, i)
    BY <1>6
  <2>2. PICK b \in BOOLEAN :
            datagrams'[c] = datagrams[c] \cup {[chunk |-> i, ok |-> b]}
    <3> DEFINE good == [chunk |-> i, ok |-> i \in Chunks]
    <3>1. (i \in Chunks) \in BOOLEAN /\ FALSE \in BOOLEAN
      OBVIOUS
    <3>2. \/ datagrams'[c] = datagrams[c] \cup {[chunk |-> i, ok |-> i \in Chunks]}
          \/ datagrams'[c] = datagrams[c] \cup {[chunk |-> i, ok |-> FALSE]}
      BY <2>1 DEF Serve
    <3> QED
      BY <3>1, <3>2, Zenon
  <2> DEFINE m == [chunk |-> i, ok |-> b]
  <2>3. m.chunk = i
    OBVIOUS
  <2> HIDE DEF m
  <2>4. /\ requests'[c] = requests[c] \ {i}
        /\ UNCHANGED <<RequestedMap, unguarded, pc, message, LastRequestedIndex>>
        /\ datagrams'[c] = datagrams[c] \cup {m}
    BY <2>1, <2>2 DEF Serve, m
  <2>5. ASSUME OneRequest(c)
        PROVE  /\ OneRequest(c)'
               /\ \A j : Outstanding(c, j)' <=> Outstanding(c, j)
    BY <2>1, <2>3, <2>4, <2>5 DEF OneRequest, Outstanding
  <2> QED
    BY <2>4, <2>5, KeptFetching
<1>7. CASE Lose(c)
  <2>1. /\ UNCHANGED <<RequestedMap, unguarded, pc, message, LastRequestedIndex>>
        /\ requests'[c] \subseteq requests[c]
        /\ datagrams'[c] \subseteq datagrams[c]
    BY <1>7 DEF Lose
  <2>2. ~Without({"lose"})'
    BY <1>7, FaultCounts DEF Lose, Faults, IInv
  <2>3. ASSUME OneRequest(c)
        PROVE  /\ OneRequest(c)'
               /\ \A i : Outstanding(c, i)' => Outstanding(c, i)
    BY <2>1, <2>3 DEF OneRequest, Outstanding
  <2> QED
    BY <2>1, <2>2, <2>3, KeptFetching
<1>8. ASSUME UNCHANGED <<RequestedMap, unguarded, message, LastRequestedIndex,
                         requests, datagrams>>,
             \/ pc'[c] = pc[c]
             \/ pc[c] \in {"handshake", "finish", "retry", "first", "idle"} /\
                pc'[c] \in IF pc[c] = "first" THEN {"store"}
                           ELSE IF pc[c] = "idle" THEN {"stopped"}
                           ELSE {"request", "idle", "stopped"}
      PROVE  Fetching'
  <2>1. ASSUME OneRequest(c)
        PROVE  /\ OneRequest(c)'
               /\ \A i : Outstanding(c, i)' <=> Outstanding(c, i)
    BY <1>8, <2>1 DEF OneRequest, Outstanding
  <2> QED
    BY <1>8, <2>1, KeptFetching
<1>9. CASE ReceiveHandShakeHave(c)
  BY <1>8, <1>9 DEF ReceiveHandShakeHave
<1>10. CASE CheckFinish(c)
  BY <1>8, <1>10 DEF CheckFinish
<1>11. CASE CheckPeakHash(c)
  BY <1>8, <1>11 DEF CheckPeakHash
<1>12. CASE RetryRequest(c)
  BY <1>8, <1>12 DEF RetryRequest
<1>13. CASE KeepAliveStop(c)
  BY <1>8, <1>13 DEF KeepAliveStop
<1>14. CASE Crash(c)
  BY <1>8, <1>14 DEF Crash
<1> QED
  BY <1>1, <1>2, <1>3, <1>4, <1>5, <1>6, <1>7, <1>9, <1>10, <1>11, <1>12, <1>13,
     <1>14 DEF Step, Receive

\* Nothing changes without a step.
LEMMA Stutter == IInv /\ UNCHANGED vars => IInv'
<1> SUFFICES ASSUME IInv, UNCHANGED vars PROVE IInv'
  OBVIOUS
<1> USE DEF IInv, vars
<1>1. TypeOK'
  BY DEF TypeOK
<1>2. MapExact'
  BY DEF MapExact, Had
<1>3. \A c \in Channels : Heard(c)'
  BY DEF Heard
<1>4. LastFound'
  BY DEF LastFound, LastChunkRight
<1>5. Fetching'
  <2>1. \A c \in Channels : OneRequest(c)' <=> OneRequest(c)
    BY DEF OneRequest
  <2>2. \A c \in Channels : \A i : Outstanding(c, i)' <=> Outstanding(c, i)
    BY DEF Outstanding
  <2>3. /\ Guarded' = Guarded /\ RequestedMap' = RequestedMap
        /\ \A kinds \in SUBSET Faults : Without(kinds)' <=> Without(kinds)
    BY DEF Guarded, Without
  <2> QED
    BY <2>1, <2>2, <2>3 DEF Fetching, Recorded, RequestsAccounted, Faults
<1> QED
  BY <1>1, <1>2, <1>3, <1>4, <1>5

\* The invariant holds throughout.
LEMMA Inductive == Spec => []IInv
<1>1. IInv /\ [Next]_vars => IInv'
  <2>1. ASSUME IInv, Next PROVE IInv'
    <3>1. PICK c \in Channels : Step(c)
      BY <2>1 DEF Next, Step
    <3> QED
      BY <2>1, <3>1, TypeStep, MapStep, HeardStep, LastStep, FetchStep DEF IInv
  <2> QED
    BY <2>1, Stutter
<1> QED
  BY <1>1, InitInv, PTL DEF Spec

-----------------------------------------------------------------------------
(* The theorems *)

\* The objects the channels share, the channels and the datagrams keep their
\* types: no request goes beyond the tree, no chunk beyond the content gets into
\* the map or the file.
THEOREM DownloadTypeCorrect == Spec => []TypeOK
<1>1. IInv => TypeOK
  BY DEF IInv
<1> QED
  BY <1>1, Inductive, PTL

\* Over a network that spoils DATAs only, each recorded request of any channel
\* has its answer on the way: ReceiveData releases what it rejects, so that no
\* chunk is withheld from the others.
THEOREM RequestsNeverForgotten == Spec => []RequestsAccounted
<1>1. IInv => RequestsAccounted
  <2> SUFFICES ASSUME IInv, Without({"lose", "duplicate", "crash"})
               PROVE  RequestsAccounted
    BY DEF RequestsAccounted
  <2>1. Without({"duplicate"})
    BY DEF Without
  <2> QED
    BY <2>1 DEF IInv, Fetching
<1> QED
  BY <1>1, Inductive, PTL

\* Whatever is lost, spoilt or left by dead peers, no two channels fetch one
\* chunk, but the last and those asked for before the map had a range.
THEOREM NeverFetchedTwice == Spec => []SingleFetch
<1>1. IInv => SingleFetch
  BY DEF IInv, Fetching, Recorded, Guarded, SingleFetch
<1> QED
  BY <1>1, Inductive, PTL

\* SetLastChunk, fed by two checks that several channels run in any order, gets
\* the right index unless one of them began before ChunkRange was known and
\* ended after the peak hashes had been checked.
THEOREM LastChunkAlwaysRight == Spec => []LastChunkRight
<1>1. IInv => LastChunkRight
  BY DEF IInv, LastFound
<1> QED
  BY <1>1, Inductive, PTL

\* What has finished has every chunk: CheckFinish compares the range it has put
\* together with the LastChunk of the map, and whichever of its possible values
\* that has, a range that reaches it is the content; no chunk is ever lost.
THEOREM FinishedAlwaysHasAll == Spec => []FinishedHasAll
<1>1. Init => FinishedHasAll
  BY DEF Init, FinishedHasAll
<1>2. ASSUME IInv, FinishedHasAll, NEW c \in Channels, Step(c)
      PROVE  FinishedHasAll'
  <2>0. SharedTypes /\ MapExact /\ Heard(c)
    BY <1>2, Types DEF IInv
  <2>1. CASE CheckFinish(c)
    <3>1. CASE FinishRange(ChunkRangeList) = [Start |-> 0, End |-> LastChunk]
      <4> DEFINE f == FinishRange(ChunkRangeList)
      <4>1. f.Start = 0 /\ f.End = LastChunk
        BY <3>1
      <4>2. f.Start >= 0 => f.End \in Nat /\ f.Start .. f.End \subseteq Had
        BY <2>0, FinishRangeCovered DEF SharedTypes, Had
      <4> HIDE DEF f
      <4>3. LastChunk \in Nat /\ 0..LastChunk \subseteq Had
        BY <4>1, <4>2
      <4>4. LastChunk >= NumChunks - 1
        BY <2>0, <4>3, PaddedEndBounds, NumChunksAssumption DEF SharedTypes
      <4>5. Chunks \subseteq 0..LastChunk
        BY <4>3, <4>4, NumChunksAssumption DEF Chunks
      <4>6. Had' = Had
        BY <2>1 DEF CheckFinish, mapVars, Had
      <4> QED
        BY <2>0, <4>3, <4>5, <4>6 DEF MapExact, FinishedHasAll
    <3>2. CASE FinishRange(ChunkRangeList) # [Start |-> 0, End |-> LastChunk]
      BY <1>2, <2>1, <3>2 DEF CheckFinish, mapVars, Had, FinishedHasAll
    <3> QED
      BY <3>1, <3>2
  <2>2. CASE StoreData(c)
    <3> DEFINE i == message[c].chunk
               after == AfterSetHave(ChunkRangeList, CP, i, i)
    <3>1. i \in Chunks /\ i \in Nat /\ CP \in Int
      <4>1. pc[c] = "store"
        BY <2>2 DEF StoreData
      <4>2. message[c].ok
        BY <2>0, <4>1 DEF Heard
      <4>3. i \in Chunks
        BY <2>0, <4>2 DEF Heard
      <4>4. CP \in Chunks \cup {-1}
        BY <2>0 DEF SharedTypes
      <4> HIDE DEF i
      <4> QED
        BY <4>3, <4>4, ChunkFacts
    <3>2. TakesIn(ChunkRangeList, CP, i, after.list, after.CP)
      BY <2>0, <3>1, SetHaveOne DEF SharedTypes, MapExact
    <3>3. ChunkRangeList' = after.list /\ finished' = finished
      BY <2>2 DEF StoreData, histVars
    <3> HIDE DEF after, i
    <3>4. Had' = Had \cup {i}
      BY <3>2, <3>3 DEF TakesIn, Had
    <3> QED
      BY <1>2, <3>1, <3>3, <3>4 DEF FinishedHasAll
  <2>3. CASE UNCHANGED <<ChunkRangeList, finished>>
    BY <1>2, <2>3 DEF Had, FinishedHasAll
  <2>4. CheckFinish(c) \/ StoreData(c) \/ UNCHANGED <<ChunkRangeList, finished>>
    BY <1>2 DEF Step, Receive, ReceiveHandShakeHave, SendNextRequest,
       ReceiveData, CheckDataIntegrity, CheckPeakHash, AfterStore, RetryRequest,
       KeepAliveStop, Serve, Lose, Crash, mapVars, histVars
  <2> QED
    BY <2>1, <2>2, <2>3, <2>4
<1>3. IInv /\ FinishedHasAll /\ [Next]_vars => FinishedHasAll'
  <2>1. ASSUME IInv, FinishedHasAll, Next PROVE FinishedHasAll'
    BY <1>2, <2>1 DEF Next, Step
  <2>2. ASSUME FinishedHasAll, UNCHANGED vars PROVE FinishedHasAll'
    BY <2>2 DEF vars, Had, FinishedHasAll
  <2> QED
    BY <2>1, <2>2
<1> QED
  BY <1>1, <1>3, Inductive, PTL DEF Spec

-----------------------------------------------------------------------------
(* Coming to rest *)

\* The peers that are asked: one has the whole content, the others may lack its
\* first chunk.
Overlapping ==
    /\ \A c \in Channels : /\ PeerRange[c].Start \in {0, 1}
                           /\ PeerRange[c].End = NumChunks - 1
    /\ \E c \in Channels : PeerRange[c].Start = 0

\* No fault has happened, and no check has replaced the ChunkRange found.
Calm == Without(Faults) /\ ~overwritten

\* All that the peer of channel c has is stored or recorded as requested.
Settled(c) == PeerRange[c].Start .. PeerRange[c].End \subseteq Had \cup RequestedMap

\* A channel never fails a check; it waits only for what is on its way.
NoSetback(c) ==
    /\ pc[c] # "retry" /\ peerAlive[c]
    /\ requests[c] \subseteq Chunks
    /\ \A m \in datagrams[c] : m.ok
    /\ pc[c] = "check" => message[c].ok
    /\ pc[c] # "handshake" => peerList[c] = <<PeerRange[c]>>
    /\ pc[c] = "idle" /\ ~finished => requests[c] # {} \/ datagrams[c] # {}
    /\ pc[c] = "stopped" => requests[c] = {} /\ datagrams[c] = {}
    /\ pc[c] = "check" /\ blind[c] => message[c].chunk = PeerRange[c].Start

\* All that channel c has asked for is the first chunk of its peer.
AskedFirst(c) ==
    /\ \A i \in requests[c] : i = PeerRange[c].Start
    /\ \A m \in datagrams[c] : m.chunk = PeerRange[c].Start
    /\ pc[c] \in {"check", "first", "store"} => message[c].chunk = PeerRange[c].Start

\* Before the peak hashes are checked nothing is stored, and before anything is
\* stored no channel gives up.
FirstChunks ==
    /\ IsFirstData =>
          /\ ChunkRangeList = <<>>
          /\ \A c \in Channels : pc[c] # "store" /\ AskedFirst(c)
    /\ ChunkRangeList = <<>> =>
          \A c \in Channels : pc[c] \notin {"next", "finish", "stopped"}

\* Once a chunk is stored somebody fetches the last one until the content size
\* is known, and then somebody is about to tell the map.
LastComes ==
    /\ ~ContentSize /\ ChunkRangeList # <<>> =>
          \E c \in Channels : pc[c] = "next" \/ Outstanding(c, NumChunks - 1)
    /\ ContentSize /\ LastChunk = -1 =>
          \E c \in Channels : pc[c] \in {"first", "store"}

\* Once the map knows the last chunk some channel goes on until all that its
\* peer has is asked for, and no channel with the first chunk gives up before
\* that is; not all of them stop before the download is finished.
RestComes ==
    /\ LastChunk # -1 =>
          \E c \in Channels : pc[c] \notin {"finish", "stopped"} \/ Settled(c)
    /\ \A c \in Channels :
          pc[c] \in {"finish", "stopped"} /\ PeerRange[c].Start = 0 =>
              0 \in Had \cup RequestedMap
    /\ finished \/ \E c \in Channels : pc[c] # "stopped"

\* What holds of a download without setbacks.
RestInv ==
    /\ \A c \in Channels : NoSetback(c)
    /\ FirstChunks
    /\ LastComes
    /\ RestComes

\* No hash of padding is needed to check chunk 0 or chunk 1.
LEMMA FirstNotPadded == \A i \in {0, 1} : ~PaddedPath(i)
<1> SUFFICES ASSUME NEW i \in {0, 1}, NEW k \in 0..NumChunks,
                    SiblingStart(i, k) \in NumChunks..PaddedEnd
             PROVE  FALSE
  BY DEF PaddedPath
<1>0. PaddedEnd \in Nat /\ NumChunks \in Nat /\ NumChunks >= 2
  BY PaddedEndBounds, NumChunksAssumption
<1>1. CASE k = 0
  <2>1. SiblingStart(i, k) = 1 * (i \div 1 + (IF (i \div 1) % 2 = 0 THEN 1 ELSE -1))
    BY <1>1, PowersAssumption DEF SiblingStart
  <2>2. SiblingStart(i, k) \in {0, 1}
    <3>1. CASE i = 0
      BY <2>1, <3>1
    <3>2. CASE i = 1
      BY <2>1, <3>2
    <3> QED
      BY <3>1, <3>2
  <2> QED
    BY <1>0, <2>2
<1>2. CASE k # 0
  <2> DEFINE p == 2^k
             S == {2^j : j \in 1..NumChunks} \cap {n \in Nat : n >= NumChunks}
  <2>1. k \in 1..NumChunks
    BY <1>0, <1>2
  <2>2. p \in Nat /\ p >= 2
    BY <2>1, PowersAssumption
  <2>3. SiblingStart(i, k) = p * (i \div p + (IF (i \div p) % 2 = 0 THEN 1 ELSE -1))
    BY DEF SiblingStart
  <2>4. p >= NumChunks => p \in S
    BY <1>0, <2>1, <2>2
  <2>5. PaddedEnd = Min(S) - 1
    BY DEF PaddedEnd
  <2>6. S \in SUBSET Nat
    OBVIOUS
  <2> HIDE DEF p, S
  <2>7. i \div p = 0
    BY <2>2
  <2>8. SiblingStart(i, k) = p
    <3>1. SiblingStart(i, k) = p * (0 + 1)
      BY <2>3, <2>7
    <3> QED
      BY <2>2, <3>1
  <2>9. p \in S
    BY <1>0, <2>2, <2>4, <2>8
  <2>10. Min(S) <= p /\ Min(S) \in Nat
    BY <2>6, <2>9, MinInSet
  <2> QED
    BY <1>0, <2>2, <2>5, <2>8, <2>10
<1> QED
  BY <1>1, <1>2

\* With an empty map a channel asks for the first chunk of its peer.
LEMMA AsksFirst ==
    ASSUME IInv, NEW c \in Channels, ChunkRangeList = <<>>,
           peerList[c] = <<PeerRange[c]>>
    PROVE  RequestIndex(ChunkRangeList, RequestedMap, CP, LastChunk, peerList[c])
              = PeerRange[c].Start
<1>1. CP \in Chunks \cup {-1} /\ PrefixRange(ChunkRangeList, CP)
  BY DEF IInv, TypeOK, MapExact
<1>2. CP \in Int /\ (CP >= 0 \/ CP = -1)
  BY <1>1, ChunkFacts
<1>3. ~(CP >= 0)
  BY <1>1 DEF PrefixRange
<1>4. CP < 0
  BY <1>2, <1>3
<1>5. PeerRange[c] \in ChunkRangeSt /\ PeerRange[c].Start <= PeerRange[c].End
  BY PeerRangeAssumption
<1> QED
  BY <1>2, <1>4, <1>5, RequestIndexFirst

\* A channel that gets no chunk to ask for has chunk 0, or somebody fetches it,
\* if its peer has it; and if the last chunk is known all its peer has is.
LEMMA GivesUp ==
    ASSUME Overlapping, IInv, Calm, NEW c \in Channels,
           peerList[c] = <<PeerRange[c]>>,
           RequestIndex(ChunkRangeList, RequestedMap, CP, LastChunk,
                        peerList[c]) = -1
    PROVE  /\ PeerRange[c].Start = 0 => 0 \in Had \cup RequestedMap
           /\ LastChunk # -1 => Settled(c)
<1> DEFINE last == NumChunks - 1
           start == PeerRange[c].Start
<1>1. /\ ChunkRangeList \in Seq(ChunkRangeSt) /\ Separated(ChunkRangeList)
      /\ PrefixRange(ChunkRangeList, CP)
      /\ CP \in Chunks \cup {-1} /\ LastChunk \in {-1, NumChunks - 1, PaddedEnd}
      /\ peerList[c] \in Seq(ChunkRangeSt)
  BY DEF IInv, TypeOK, MapExact
<1>2. CP \in Int /\ LastChunk \in Int /\ NumChunks - 1 \in Nat
  BY <1>1, ChunkFacts, PaddedEndBounds, NumChunksAssumption
<1>3. LastChunk # -1 => LastChunk = last
  BY DEF IInv, LastFound, LastChunkRight, Calm
<1>4. start \in {0, 1} /\ PeerRange[c].End = last
  BY DEF Overlapping
<1>5. \A i : i \in Covered(peerList[c]) <=> i \in start..last
  <2>1. DOMAIN peerList[c] = {1} /\ peerList[c][1] = PeerRange[c]
    OBVIOUS
  <2> DEFINE peer == peerList[c]
  <2>2. peer \in Seq(ChunkRangeSt) /\ DOMAIN peer = {1}
        /\ peer[1].Start = start /\ peer[1].End = last
    BY <1>1, <1>4, <2>1
  <2>3. start \in Int /\ last \in Int
    BY <1>2, <1>4
  <2> HIDE DEF peer, start, last
  <2>4. ASSUME NEW i PROVE i \in Covered(peer) <=> i \in start..last
    <3>1. i \in Covered(peer) <=> \E k \in DOMAIN peer : /\ i \in Int
                                   /\ peer[k].Start <= i /\ i <= peer[k].End
      BY <2>2, CoveredMember
    <3> QED
      BY <2>2, <2>3, <3>1
  <2> QED
    BY <2>4 DEF peer
<1>6. CP >= 0 => \A i \in 0..CP : i \in Had
  <2>1. SUFFICES ASSUME CP >= 0, NEW i \in 0..CP PROVE i \in Had
    OBVIOUS
  <2>2. PICK k \in DOMAIN ChunkRangeList : /\ ChunkRangeList[k].Start = 0
                                           /\ ChunkRangeList[k].End = CP
    BY <1>1, <2>1 DEF PrefixRange
  <2> QED
    BY <1>1, <1>2, <2>1, <2>2, CoveredMember DEF Had
<1>7. ASSUME NEW i \in start..last, CP >= 0 => CP < i /\ i <= LastChunk
      PROVE  i \in Had \cup RequestedMap
  BY <1>1, <1>2, <1>5, <1>7, RequestIndexNone DEF Had
<1>8. start = 0 => 0 \in Had \cup RequestedMap
  <2>1. CASE CP >= 0
    BY <1>2, <1>6, <2>1
  <2>2. CASE ~(CP >= 0)
    BY <1>2, <1>7, <2>2
  <2> QED
    BY <2>1, <2>2
<1>9. LastChunk # -1 => start..last \subseteq Had \cup RequestedMap
  <2>1. SUFFICES ASSUME LastChunk = last, NEW i \in start..last
                 PROVE  i \in Had \cup RequestedMap
    BY <1>3
  <2>2. i \in Int /\ i >= 0 /\ i <= last
    BY <1>2, <1>4
  <2>3. CASE CP >= 0 /\ i <= CP
    BY <1>2, <1>6, <2>2, <2>3
  <2>4. CASE ~(CP >= 0 /\ i <= CP)
    BY <1>2, <1>7, <2>1, <2>2, <2>4
  <2> QED
    BY <2>3, <2>4
<1> QED
  BY <1>4, <1>8, <1>9 DEF Settled

\* What a step can be as long as there are no setbacks.
Forward(c) ==
    \/ ReceiveHandShakeHave(c) \/ SendNextRequest(c) \/ CheckFinish(c)
    \/ \E m \in datagrams[c] :
          ReceiveData(c, m) /\ datagrams' = [datagrams EXCEPT ![c] = @ \ {m}]
    \/ CheckDataIntegrity(c) /\ Passes(c)
    \/ CheckPeakHash(c) \/ StoreData(c) \/ AfterStore(c)
    \/ \E i \in requests[c] : \E m :
          /\ Serve(c, i) /\ m.chunk = i /\ m.ok
          /\ datagrams' = [datagrams EXCEPT ![c] = @ \cup {m}]

\* No check fails: the data is good and, where the last chunk is not known yet,
\* it is the first chunk of the peer.
LEMMA AlwaysPasses ==
    ASSUME Overlapping, IInv, Calm, RestInv, NEW c \in Channels, pc[c] = "check"
    PROVE  Passes(c)
<1>1. NoSetback(c) /\ FirstChunks /\ PeerRange[c].Start \in {0, 1}
  BY DEF RestInv, Overlapping
<1>2. message[c].ok
  BY <1>1 DEF NoSetback
<1>3. ASSUME blind[c] \/ ChunkRange # NumChunks - 1
      PROVE  message[c].chunk = PeerRange[c].Start
  <2>1. CASE blind[c]
    BY <1>1, <2>1 DEF NoSetback
  <2>2. CASE ~blind[c]
    <3>1. IsFirstData
      BY <1>3, <2>2 DEF IInv, LastFound, Calm
    <3> QED
      BY <1>1, <3>1 DEF FirstChunks, AskedFirst
  <2> QED
    BY <2>1, <2>2
<1> QED
  BY <1>1, <1>2, <1>3, FirstNotPadded DEF Passes

\* So every step is such a step.
LEMMA CalmStep ==
    ASSUME Overlapping, IInv, Calm, RestInv, NEW c \in Channels, Step(c), Calm'
    PROVE  Forward(c)
<1>0. NoSetback(c) /\ NetTypes
  BY Types DEF RestInv, IInv
<1>1. \A kind \in Faults : ~Fault(kind)
  <2>1. ASSUME NEW kind \in Faults, Fault(kind) PROVE FALSE
    <3>1. ~Without({kind})'
      BY <2>1, FaultCounts DEF IInv
    <3> QED
      BY <3>1 DEF Calm, Without
  <2> QED
    BY <2>1
<1>2. ~Lose(c) /\ ~Crash(c)
  BY <1>1 DEF Lose, Crash, Faults
<1>3. ~KeepAliveStop(c) /\ ~RetryRequest(c)
  BY <1>0 DEF KeepAliveStop, RetryRequest, NoSetback
<1>4. ASSUME NEW m \in datagrams[c], ReceiveData(c, m)
      PROVE  datagrams' = [datagrams EXCEPT ![c] = @ \ {m}]
  BY <1>1, <1>4 DEF ReceiveData, Faults
<1>5. CheckDataIntegrity(c) => Passes(c)
  BY AlwaysPasses DEF CheckDataIntegrity
<1>6. ASSUME NEW i \in requests[c], Serve(c, i)
      PROVE  \E m : /\ m.chunk = i /\ m.ok
                    /\ datagrams' = [datagrams EXCEPT ![c] = @ \cup {m}]
  <2> DEFINE good == [chunk |-> i, ok |-> i \in Chunks]
  <2>1. i \in Chunks
    BY <1>0 DEF NoSetback
  <2>2. good.chunk = i /\ good.ok
    BY <2>1
  <2> HIDE DEF good
  <2>3. datagrams' = [datagrams EXCEPT ![c] = @ \cup {good}]
    BY <1>1, <1>6 DEF Serve, Faults, good
  <2> QED
    BY <2>2, <2>3
<1>7. \/ ReceiveHandShakeHave(c) \/ SendNextRequest(c) \/ CheckFinish(c)
      \/ \E m \in datagrams[c] : ReceiveData(c, m)
      \/ CheckDataIntegrity(c) \/ CheckPeakHash(c) \/ StoreData(c)
      \/ AfterStore(c) \/ \E i \in requests[c] : Serve(c, i)
  BY <1>2, <1>3 DEF Step, Receive
<1> QED
  BY <1>4, <1>5, <1>6, <1>7 DEF Forward

\* SetData adds the chunk to the map.
LEMMA StoreAdds ==
    ASSUME IInv, NEW c \in Channels, StoreData(c)
    PROVE  /\ message[c].chunk \in Chunks
           /\ Had' = Had \cup {message[c].chunk}
           /\ ChunkRangeList' # <<>>
<1> DEFINE i == message[c].chunk
           after == AfterSetHave(ChunkRangeList, CP, i, i)
<1>1. pc[c] = "store" /\ Heard(c)
  BY DEF StoreData, IInv
<1>2. i \in Chunks
  BY <1>1 DEF Heard
<1>3. /\ ChunkRangeList \in Seq(ChunkRangeSt) /\ CP \in Chunks \cup {-1}
      /\ Separated(ChunkRangeList) /\ PrefixRange(ChunkRangeList, CP)
  BY DEF IInv, TypeOK, MapExact
<1>4. ChunkRangeList' = after.list
  BY DEF StoreData
<1>5. TakesIn(ChunkRangeList, CP, i, after.list, after.CP)
  <2> HIDE DEF i
  <2>1. i \in Nat /\ CP \in Int
    BY <1>2, <1>3, ChunkFacts
  <2> QED
    BY <1>3, <2>1, SetHaveOne
<1> HIDE DEF after, i
<1>6. Covered(ChunkRangeList') = Covered(ChunkRangeList) \cup {i}
  BY <1>4, <1>5 DEF TakesIn
<1>7. ChunkRangeList' # <<>>
  <2>1. Covered(<<>>) = {}
    BY DEF Covered
  <2> QED
    BY <1>6, <2>1
<1> QED
  BY <1>2, <1>6, <1>7 DEF Had, i

\* The peers stay alive, and a finished download stays finished.
LEMMA CalmKeeps ==
    ASSUME IInv, NEW c \in Channels, Forward(c)
    PROVE  /\ peerAlive' = peerAlive
           /\ finished => finished'
<1>1. peerAlive' = peerAlive
  BY DEF Forward, ReceiveHandShakeHave, SendNextRequest, SendRequest, CheckFinish,
     ReceiveData, CheckDataIntegrity, CheckPeakHash, StoreData, AfterStore, Serve,
     netVars
<1>2. finished' = finished \/ CheckFinish(c)
  BY DEF Forward, ReceiveHandShakeHave, SendNextRequest, ReceiveData,
     CheckDataIntegrity, CheckPeakHash, StoreData, AfterStore, Serve, histVars
<1>3. CASE CheckFinish(c)
  <2>1. finished' = TRUE \/ finished' = finished
    BY <1>3 DEF CheckFinish
  <2> QED
    BY <1>1, <2>1
<1>4. CASE finished' = finished
  BY <1>1, <1>4
<1> QED
  BY <1>2, <1>3, <1>4

\* The handshake gives a channel the range of its peer.
LEMMA Opened ==
    ASSUME IInv, NEW c \in Channels, ReceiveHandShakeHave(c)
    PROVE  peerList'[c] = <<PeerRange[c]>>
<1>1. PeerRange[c] = [Start |-> PeerRange[c].Start, End |-> PeerRange[c].End]
  BY PeerRangeAssumption DEF ChunkRangeSt
<1>2. peerList[c] = <<>> /\ ThreadTypes
  BY Types DEF ReceiveHandShakeHave, IInv, Heard
<1>3. AfterSetHave(peerList[c], -1, PeerRange[c].Start, PeerRange[c].End).list
          = <<PeerRange[c]>>
  BY <1>1, <1>2, FirstRange
<1> QED
  BY <1>2, <1>3 DEF ReceiveHandShakeHave, ThreadTypes

\* Every step keeps a channel from setbacks.
LEMMA NoSetbackStep ==
    ASSUME Overlapping, IInv, Calm, RestInv, NEW c \in Channels, Step(c), Calm',
           NEW d \in Channels
    PROVE  NoSetback(d)'
<1> USE DEF NoSetback, goto, chanVars, netVars
<1>0. /\ NoSetback(d) /\ ThreadTypes /\ NetTypes /\ SharedTypes /\ Heard(d)
      /\ FirstChunks /\ Forward(c)
      /\ peerAlive' = peerAlive /\ (finished => finished')
      /\ ~overwritten /\ ~overwritten'
  BY Types, CalmStep, CalmKeeps DEF IInv, RestInv, Calm
<1>1. CASE d # c
  BY <1>0, <1>1, OthersSame DEF Only
<1> SUFFICES ASSUME d = c PROVE NoSetback(c)'
  BY <1>1
<1> USE <1>0 DEF ThreadTypes, NetTypes
<1>2. CASE ReceiveHandShakeHave(c)
  <2>1. peerList'[c] = <<PeerRange[c]>>
    BY <1>2, Opened
  <2> QED
    BY <1>2, <2>1 DEF ReceiveHandShakeHave
<1>3. CASE SendNextRequest(c)
  <2> DEFINE i == RequestIndex(ChunkRangeList, RequestedMap, CP, LastChunk,
                               peerList[c])
  <2>1. i = -1 \/ i \in Chunks
    BY NextRequest
  <2>2. \/ pc'[c] = "finish" /\ UNCHANGED netVars
        \/ pc'[c] = "idle" /\ UNCHANGED datagrams
           /\ requests'[c] = requests[c] \cup {i} /\ i # -1
    BY <1>3 DEF SendNextRequest, SendRequest
  <2> HIDE DEF i
  <2> QED
    BY <1>3, <2>1, <2>2 DEF SendNextRequest
<1>4. CASE CheckFinish(c)
  <2>1. requests[c] = {} /\ datagrams[c] = {}
    <3>1. OneRequest(c)
      BY DEF IInv, Fetching, Calm, Without, Faults
    <3> QED
      BY <1>4, <3>1 DEF OneRequest, CheckFinish
  <2> QED
    BY <1>4, <2>1 DEF CheckFinish
<1>5. CASE \E m \in datagrams[c] :
              ReceiveData(c, m) /\ datagrams' = [datagrams EXCEPT ![c] = @ \ {m}]
  <2>1. PICK m \in datagrams[c] :
              ReceiveData(c, m) /\ datagrams' = [datagrams EXCEPT ![c] = @ \ {m}]
    BY <1>5
  <2>2. /\ pc[c] = "idle" /\ pc'[c] = "check" /\ message'[c] = m
        /\ blind'[c] = (ChunkRange < 0)
        /\ UNCHANGED <<requests, peerList>>
    BY <2>1 DEF ReceiveData
  <2>3. ChunkRange < 0 => m.chunk = PeerRange[c].Start
    <3>1. ASSUME ChunkRange < 0 PROVE IsFirstData
      BY <3>1, NumChunksAssumption DEF IInv, LastFound
    <3> QED
      BY <3>1 DEF FirstChunks, AskedFirst
  <2> QED
    BY <2>1, <2>2, <2>3
<1>6. CASE CheckDataIntegrity(c) /\ Passes(c)
  BY <1>6 DEF CheckDataIntegrity
<1>7. CASE CheckPeakHash(c)
  BY <1>7 DEF CheckPeakHash
<1>8. CASE StoreData(c)
  BY <1>8 DEF StoreData
<1>9. CASE AfterStore(c)
  <2>1. CASE ContentSize
    BY <1>9, <2>1 DEF AfterStore
  <2>2. CASE ~ContentSize
    <3>1. ChunkRange = NumChunks - 1
      BY <1>9 DEF AfterStore, FirstChunks, IInv, LastFound
    <3>2. ChunkRange \in Chunks
      BY <3>1, ChunkFacts
    <3>3. /\ requests'[c] = requests[c] \cup {ChunkRange} /\ pc'[c] = "idle"
          /\ UNCHANGED <<datagrams, message, blind, peerList>>
      BY <1>9, <2>2 DEF AfterStore, SendRequest
    <3>4. requests'[c] \subseteq Chunks /\ requests'[c] # {}
      BY <3>2, <3>3
    <3>5. pc[c] = "next"
      BY <1>9 DEF AfterStore
    <3> QED
      BY <3>3, <3>4, <3>5
  <2> QED
    BY <2>1, <2>2
<1>10. CASE \E i \in requests[c] : \E m :
              /\ Serve(c, i) /\ m.chunk = i /\ m.ok
              /\ datagrams' = [datagrams EXCEPT ![c] = @ \cup {m}]
  <2>1. PICK i \in requests[c] : \E m :
              /\ Serve(c, i) /\ m.chunk = i /\ m.ok
              /\ datagrams' = [datagrams EXCEPT ![c] = @ \cup {m}]
    BY <1>10
  <2>2. PICK m :
              /\ Serve(c, i) /\ m.chunk = i /\ m.ok
              /\ datagrams' = [datagrams EXCEPT ![c] = @ \cup {m}]
    BY <2>1
  <2>3. /\ requests'[c] = requests[c] \ {i} /\ datagrams'[c] = datagrams[c] \cup {m}
        /\ m.ok /\ UNCHANGED <<pc, message, blind, peerList>>
    BY <2>2 DEF Serve
  <2>4. pc[c] # "stopped"
    BY <2>1
  <2> QED
    BY <2>3, <2>4
<1> QED
  BY <1>2, <1>3, <1>4, <1>5, <1>6, <1>7, <1>8, <1>9, <1>10 DEF Forward

\* Every step keeps what is asked for first.
LEMMA FirstChunksStep ==
    ASSUME Overlapping, IInv, Calm, RestInv, NEW c \in Channels, Step(c), Calm'
    PROVE  FirstChunks'
<1> USE DEF goto, chanVars, netVars, treeVars, mapVars
<1>0. /\ NoSetback(c) /\ ThreadTypes /\ NetTypes /\ SharedTypes
      /\ FirstChunks /\ Forward(c) /\ Only(c)
      /\ PeerRange[c].Start \in {0, 1}
  BY Types, CalmStep, OthersSame DEF IInv, RestInv, Overlapping
<1> USE <1>0 DEF ThreadTypes, NetTypes
<1>1. \/ StoreData(c)
      \/ /\ ChunkRangeList' = ChunkRangeList
         /\ pc'[c] \in {"next", "finish", "stopped"} =>
               \/ pc[c] \in {"next", "finish", "stopped"}
               \/ SendNextRequest(c) /\ pc'[c] = "finish"
  BY DEF Forward, ReceiveHandShakeHave, SendNextRequest, CheckFinish, ReceiveData,
     CheckDataIntegrity, CheckPeakHash, AfterStore, Serve
<1>2. ASSUME SendNextRequest(c), ChunkRangeList = <<>>
      PROVE  /\ pc'[c] = "idle" /\ requests'[c] = requests[c] \cup {PeerRange[c].Start}
             /\ UNCHANGED <<datagrams, message>>
  <2>1. peerList[c] = <<PeerRange[c]>>
    BY <1>2 DEF SendNextRequest, NoSetback
  <2>2. RequestIndex(ChunkRangeList, RequestedMap, CP, LastChunk, peerList[c])
              = PeerRange[c].Start
    BY <1>2, <2>1, AsksFirst
  <2>3. PeerRange[c].Start # -1
    OBVIOUS
  <2> QED
    BY <1>2, <2>2, <2>3 DEF SendNextRequest, SendRequest
<1>3. ASSUME ChunkRangeList' = <<>>, NEW d \in Channels
      PROVE  pc'[d] \notin {"next", "finish", "stopped"}
  <2>1. ~StoreData(c)
    BY <1>3, StoreAdds
  <2>2. ChunkRangeList = <<>>
    BY <1>1, <1>3, <2>1
  <2>3. pc[d] \notin {"next", "finish", "stopped"}
    BY <2>2 DEF FirstChunks
  <2> QED
    BY <1>1, <1>2, <2>1, <2>2, <2>3 DEF Only
<1>4. ASSUME IsFirstData'
      PROVE  /\ ChunkRangeList' = <<>>
             /\ \A d \in Channels : pc'[d] # "store" /\ AskedFirst(d)'
  <2>1. IsFirstData /\ ~CheckPeakHash(c)
    BY <1>4 DEF Forward, ReceiveHandShakeHave, SendNextRequest, CheckFinish,
       ReceiveData, CheckDataIntegrity, CheckPeakHash, StoreData, AfterStore, Serve
  <2>2. ChunkRangeList = <<>> /\ \A d \in Channels : pc[d] # "store" /\ AskedFirst(d)
    BY <2>1 DEF FirstChunks
  <2>3. pc[c] \notin {"next", "finish", "stopped"}
    BY <2>2 DEF FirstChunks
  <2>4. ~StoreData(c) /\ ~AfterStore(c) /\ ~CheckFinish(c)
    BY <2>2, <2>3 DEF StoreData, AfterStore, CheckFinish
  <2>5. ChunkRangeList' = <<>>
    BY <1>1, <2>2, <2>4
  <2>6. pc'[c] # "store" /\ AskedFirst(c)'
    <3> USE <2>2 DEF AskedFirst
    <3>1. CASE ReceiveHandShakeHave(c)
      BY <3>1 DEF ReceiveHandShakeHave
    <3>2. CASE SendNextRequest(c)
      BY <1>2, <3>2
    <3>3. CASE \E m \in datagrams[c] : ReceiveData(c, m)
      <4>1. PICK m \in datagrams[c] : ReceiveData(c, m)
        BY <3>3
      <4>2. /\ pc'[c] = "check" /\ message'[c] = m /\ UNCHANGED requests
            /\ datagrams'[c] \subseteq datagrams[c]
        BY <4>1 DEF ReceiveData
      <4> QED
        BY <4>2
    <3>4. CASE CheckDataIntegrity(c) /\ Passes(c)
      BY <3>4 DEF CheckDataIntegrity
    <3>5. CASE \E i \in requests[c] : \E m :
              /\ Serve(c, i) /\ m.chunk = i /\ m.ok
              /\ datagrams' = [datagrams EXCEPT ![c] = @ \cup {m}]
      <4>1. PICK i \in requests[c] : \E m :
              /\ Serve(c, i) /\ m.chunk = i /\ m.ok
              /\ datagrams' = [datagrams EXCEPT ![c] = @ \cup {m}]
        BY <3>5
      <4>2. PICK m :
              /\ Serve(c, i) /\ m.chunk = i /\ m.ok
              /\ datagrams' = [datagrams EXCEPT ![c] = @ \cup {m}]
        BY <4>1
      <4>3. /\ requests'[c] = requests[c] \ {i} /\ m.chunk = i
            /\ datagrams'[c] = datagrams[c] \cup {m} /\ UNCHANGED <<pc, message>>
        BY <4>2 DEF Serve
      <4> QED
        BY <4>3
    <3> QED
      BY <2>1, <2>4, <3>1, <3>2, <3>3, <3>4, <3>5 DEF Forward
  <2> QED
    BY <2>2, <2>5, <2>6 DEF Only, AskedFirst
<1> QED
  BY <1>3, <1>4 DEF FirstChunks

\* What is stored or recorded as requested stays one or the other.
LEMMA NothingDropped ==
    ASSUME IInv, NEW c \in Channels, Forward(c)
    PROVE  Had \cup RequestedMap \subseteq (Had \cup RequestedMap)'
<1>1. CASE StoreData(c)
  <2>1. RequestedMap' = RequestedMap \ {message[c].chunk}
    BY <1>1 DEF StoreData
  <2> QED
    BY <1>1, <2>1, StoreAdds
<1>2. CASE Had' = Had /\ RequestedMap \subseteq RequestedMap'
  BY <1>2
<1>3. StoreData(c) \/ (ChunkRangeList' = ChunkRangeList /\ RequestedMap \subseteq RequestedMap')
  BY DEF Forward, ReceiveHandShakeHave, SendNextRequest, CheckFinish, ReceiveData,
     CheckDataIntegrity, CheckPeakHash, AfterStore, Serve, mapVars
<1>4. StoreData(c) \/ (Had' = Had /\ RequestedMap \subseteq RequestedMap')
  BY <1>3 DEF Had
<1> QED
  BY <1>1, <1>2, <1>4

\* Every step keeps the last chunk coming.
LEMMA LastComesStep ==
    ASSUME Overlapping, IInv, Calm, RestInv, NEW c \in Channels, Step(c), Calm'
    PROVE  LastComes'
<1> USE DEF goto, chanVars, netVars, treeVars, mapVars
<1>0. /\ ThreadTypes /\ NetTypes /\ LastComes /\ FirstChunks /\ LastFound
      /\ Heard(c) /\ Forward(c) /\ Only(c) /\ ~overwritten
  BY Types, CalmStep, OthersSame DEF IInv, RestInv, Calm
<1> USE <1>0 DEF ThreadTypes, NetTypes
<1> DEFINE last == NumChunks - 1
<1>1. ASSUME ~ContentSize', ChunkRangeList' # <<>>
      PROVE  \E d \in Channels : pc'[d] = "next" \/ Outstanding(d, last)'
  <2>1. CASE StoreData(c)
    <3>1. pc'[c] = "next"
      BY <2>1 DEF StoreData
    <3> QED
      BY <3>1
  <2>2. CASE ~StoreData(c)
    <3>1. ChunkRangeList' = ChunkRangeList /\ ~ContentSize
      <4>1. ChunkRangeList' = ChunkRangeList
        BY <2>2 DEF Forward, ReceiveHandShakeHave, SendNextRequest,
           CheckFinish, ReceiveData, CheckDataIntegrity, CheckPeakHash,
           AfterStore, Serve
      <4>2. CASE CheckDataIntegrity(c) /\ Passes(c)
        <5>1. ContentSize => ContentSize'
          BY <4>2, Zenon DEF CheckDataIntegrity
        <5> QED
          BY <1>1, <4>1, <5>1
      <4>3. CASE ~(CheckDataIntegrity(c) /\ Passes(c))
        <5>1. ContentSize' = ContentSize
          BY <2>2, <4>3 DEF Forward, ReceiveHandShakeHave, SendNextRequest,
             CheckFinish, ReceiveData, CheckPeakHash, AfterStore, Serve
        <5> QED
          BY <1>1, <4>1, <5>1
      <4> QED
        BY <4>2, <4>3
    <3>2. PICK d \in Channels : pc[d] = "next" \/ Outstanding(d, last)
      BY <1>1, <3>1 DEF LastComes
    <3>3. CASE d # c
      BY <3>2, <3>3 DEF Only, Outstanding
    <3>4. ~IsFirstData /\ ChunkRange = last
      BY <1>1, <3>1 DEF FirstChunks, LastFound
    <3> SUFFICES ASSUME pc[c] = "next" \/ Outstanding(c, last)
                 PROVE  pc'[c] = "next" \/ Outstanding(c, last)'
      BY <3>2, <3>3
    <3> HIDE DEF last
    <3> USE DEF Outstanding
    <3>5. CASE ReceiveHandShakeHave(c)
      BY <3>5 DEF ReceiveHandShakeHave
    <3>6. CASE SendNextRequest(c)
      <4>1. /\ pc[c] = "request" /\ UNCHANGED datagrams
            /\ requests[c] \subseteq requests'[c]
        BY <3>6 DEF SendNextRequest, SendRequest
      <4> QED
        BY <4>1
    <3>7. CASE CheckFinish(c)
      BY <3>7 DEF CheckFinish
    <3>8. CASE \E m \in datagrams[c] :
              ReceiveData(c, m) /\ datagrams' = [datagrams EXCEPT ![c] = @ \ {m}]
      <4>1. PICK m \in datagrams[c] :
              ReceiveData(c, m) /\ datagrams' = [datagrams EXCEPT ![c] = @ \ {m}]
        BY <3>8
      <4>2. /\ pc[c] = "idle" /\ pc'[c] = "check" /\ message'[c] = m
            /\ requests' = requests /\ datagrams'[c] = datagrams[c] \ {m}
        BY <4>1 DEF ReceiveData
      <4> QED
        BY <4>2
    <3>9. CASE CheckDataIntegrity(c) /\ Passes(c)
      BY <3>9 DEF CheckDataIntegrity
    <3>10. CASE CheckPeakHash(c)
      BY <3>10 DEF CheckPeakHash
    <3>11. CASE AfterStore(c)
      <4>1. requests'[c] = requests[c] \cup {last}
        BY <3>1, <3>4, <3>11 DEF AfterStore, SendRequest
      <4> QED
        BY <4>1
    <3>12. CASE \E i \in requests[c] : \E m :
              /\ Serve(c, i) /\ m.chunk = i /\ m.ok
              /\ datagrams' = [datagrams EXCEPT ![c] = @ \cup {m}]
      <4>1. PICK i \in requests[c] : \E m :
              /\ Serve(c, i) /\ m.chunk = i /\ m.ok
              /\ datagrams' = [datagrams EXCEPT ![c] = @ \cup {m}]
        BY <3>12
      <4>2. PICK m :
              /\ Serve(c, i) /\ m.chunk = i /\ m.ok
              /\ datagrams' = [datagrams EXCEPT ![c] = @ \cup {m}]
        BY <4>1
      <4>3. /\ requests'[c] = requests[c] \ {i} /\ m.chunk = i
            /\ datagrams'[c] = datagrams[c] \cup {m} /\ UNCHANGED <<pc, message>>
        BY <4>2 DEF Serve
      <4> QED
        BY <4>3
    <3> QED
      BY <2>2, <3>5, <3>6, <3>7, <3>8, <3>9, <3>10, <3>11, <3>12 DEF Forward
  <2> QED
    BY <2>1, <2>2
<1>2. ASSUME ContentSize', LastChunk' = -1
      PROVE  \E d \in Channels : pc'[d] \in {"first", "store"}
  <2>1. CASE CheckDataIntegrity(c) /\ Passes(c)
    <3>1. pc'[c] = "first"
      BY <2>1 DEF CheckDataIntegrity
    <3> QED
      BY <3>1
  <2>2. CASE CheckPeakHash(c)
    <3>1. pc'[c] = "store"
      BY <2>2 DEF CheckPeakHash
    <3> QED
      BY <3>1
  <2>3. CASE StoreData(c)
    BY <1>2, <2>3 DEF StoreData, SetLastChunk, Heard
  <2>4. CASE ~(CheckDataIntegrity(c) /\ Passes(c)) /\ ~CheckPeakHash(c) /\ ~StoreData(c)
    <3>1. /\ ContentSize' = ContentSize /\ LastChunk' = LastChunk
          /\ pc[c] \in {"first", "store"} => pc'[c] = pc[c]
      BY <2>4 DEF Forward, ReceiveHandShakeHave, SendNextRequest, CheckFinish,
         ReceiveData, AfterStore, Serve
    <3>2. PICK d \in Channels : pc[d] \in {"first", "store"}
      BY <1>2, <3>1 DEF LastComes
    <3>3. pc'[d] \in {"first", "store"}
      BY <3>1, <3>2 DEF Only
    <3> QED
      BY <3>3
  <2> QED
    BY <2>1, <2>2, <2>3, <2>4
<1> QED
  BY <1>1, <1>2 DEF LastComes

\* The last channel at work finds the download finished.
LEMMA LastOne ==
    ASSUME Overlapping, IInv, Calm, RestInv, NEW c \in Channels, pc[c] = "finish",
           \A d \in Channels : d # c => pc[d] = "stopped"
    PROVE  FinishRange(ChunkRangeList) = [Start |-> 0, End |-> LastChunk]
<1>0. \A d \in Channels : pc[d] \in {"finish", "stopped"}
  OBVIOUS
<1>1. \A d \in Channels : requests[d] = {} /\ datagrams[d] = {}
  <2>1. Without({"duplicate"})
    BY DEF Calm, Without, Faults
  <2>2. OneRequest(c)
    BY <2>1 DEF IInv, Fetching
  <2> QED
    BY <2>2 DEF OneRequest, RestInv, NoSetback
<1>2. \A d \in Channels : \A i : ~Outstanding(d, i)
  BY <1>0, <1>1 DEF Outstanding
<1>3. RequestedMap = {}
  <2>1. Without({"lose", "duplicate", "crash"}) /\ Without({"duplicate"})
    BY DEF Calm, Without, Faults
  <2>2. RequestsAccounted
    BY <2>1 DEF IInv, Fetching
  <2> QED
    BY <1>2, <2>1, <2>2 DEF RequestsAccounted
<1>4. ChunkRangeList # <<>>
  BY DEF RestInv, FirstChunks
<1>5. ContentSize
  BY <1>0, <1>2, <1>4 DEF RestInv, LastComes
<1>6. LastChunk = NumChunks - 1
  <2>1. LastChunk # -1
    BY <1>0, <1>5 DEF RestInv, LastComes
  <2> QED
    BY <2>1 DEF IInv, LastFound, LastChunkRight, Calm
<1>7. 0 \in Had
  <2>1. PICK d \in Channels : PeerRange[d].Start = 0
    BY DEF Overlapping
  <2> QED
    BY <1>0, <1>3, <2>1 DEF RestInv, RestComes
<1>8. \A i \in 1..(NumChunks - 1) : i \in Had
  <2>1. NumChunks - 1 # -1
    BY NumChunksAssumption
  <2>2. PICK d \in Channels : Settled(d)
    BY <1>0, <1>6, <2>1 DEF RestInv, RestComes
  <2>3. PeerRange[d].Start \in {0, 1} /\ PeerRange[d].End = NumChunks - 1
    BY DEF Overlapping
  <2>4. \A i \in 1..(NumChunks - 1) : i \in PeerRange[d].Start .. PeerRange[d].End
    BY <2>3, NumChunksAssumption
  <2> QED
    BY <1>3, <2>2, <2>4 DEF Settled
<1>9. Had = 0..(NumChunks - 1)
  <2>1. Had \subseteq 0..(NumChunks - 1)
    BY DEF IInv, MapExact, Chunks
  <2>2. \A i \in 0..(NumChunks - 1) : i \in Had
    BY <1>7, <1>8, NumChunksAssumption
  <2> QED
    BY <2>1, <2>2
<1>10. /\ ChunkRangeList \in Seq(ChunkRangeSt) /\ Separated(ChunkRangeList)
       /\ NumChunks - 1 \in Nat
  BY NumChunksAssumption DEF IInv, TypeOK, MapExact
<1> QED
  BY <1>6, <1>9, <1>10, FinishRangeWhole DEF Had

\* Every step keeps somebody at the rest of the content.
LEMMA RestComesStep ==
    ASSUME Overlapping, IInv, Calm, RestInv, NEW c \in Channels, Step(c), Calm'
    PROVE  RestComes'
<1> USE DEF goto, chanVars, netVars, treeVars, mapVars
<1>0. /\ ThreadTypes /\ NetTypes /\ RestComes /\ NoSetback(c)
      /\ Forward(c) /\ Only(c) /\ (finished => finished')
      /\ Had \cup RequestedMap \subseteq (Had \cup RequestedMap)'
  BY Types, CalmStep, CalmKeeps, OthersSame, NothingDropped DEF IInv, RestInv
<1> USE <1>0 DEF ThreadTypes, NetTypes
<1>1. ASSUME NEW d \in Channels, Settled(d) PROVE Settled(d)'
  BY <1>1 DEF Settled
<1>2. ASSUME pc'[c] \in {"finish", "stopped"}
      PROVE  \/ pc[c] \in {"finish", "stopped"}
             \/ /\ SendNextRequest(c)
                /\ PeerRange[c].Start = 0 => 0 \in Had \cup RequestedMap
                /\ LastChunk # -1 => Settled(c)
  <2>1. pc[c] \in {"finish", "stopped"} \/ SendNextRequest(c)
    BY <1>2 DEF Forward, ReceiveHandShakeHave, CheckFinish, ReceiveData,
       CheckDataIntegrity, CheckPeakHash, StoreData, AfterStore, Serve
  <2>2. CASE SendNextRequest(c)
    <3>1. peerList[c] = <<PeerRange[c]>>
      BY <2>2 DEF SendNextRequest, NoSetback
    <3>2. RequestIndex(ChunkRangeList, RequestedMap, CP, LastChunk,
                       peerList[c]) = -1
      BY <1>2, <2>2 DEF SendNextRequest
    <3> QED
      BY <2>2, <3>1, <3>2, GivesUp
  <2> QED
    BY <2>1, <2>2
<1>3. ASSUME LastChunk' # -1
      PROVE  \E d \in Channels : pc'[d] \notin {"finish", "stopped"} \/ Settled(d)'
  <2>1. CASE StoreData(c)
    <3>1. pc'[c] = "next"
      BY <2>1 DEF StoreData
    <3> QED
      BY <3>1
  <2>2. CASE ~StoreData(c)
    <3>1. LastChunk' = LastChunk
      BY <2>2 DEF Forward, ReceiveHandShakeHave, SendNextRequest, CheckFinish,
         ReceiveData, CheckDataIntegrity, CheckPeakHash, AfterStore, Serve
    <3>2. PICK d \in Channels : pc[d] \notin {"finish", "stopped"} \/ Settled(d)
      BY <1>3, <3>1 DEF RestComes
    <3>3. CASE d # c
      BY <1>1, <3>2, <3>3 DEF Only
    <3>4. CASE d = c
      BY <1>1, <1>2, <1>3, <3>1, <3>2, <3>4
    <3> QED
      BY <3>3, <3>4
  <2> QED
    BY <2>1, <2>2
<1>4. ASSUME NEW d \in Channels, pc'[d] \in {"finish", "stopped"},
             PeerRange[d].Start = 0
      PROVE  0 \in (Had \cup RequestedMap)'
  <2>1. 0 \in Had \cup RequestedMap
    <3>1. CASE pc[d] \in {"finish", "stopped"}
      BY <1>4, <3>1 DEF RestComes
    <3>2. CASE pc[d] \notin {"finish", "stopped"}
      <4>1. d = c
        BY <1>4, <3>2 DEF Only
      <4> QED
        BY <1>2, <1>4, <3>2, <4>1
    <3> QED
      BY <3>1, <3>2
  <2> QED
    BY <2>1
<1>5. finished' \/ \E d \in Channels : pc'[d] # "stopped"
  <2>1. CASE \E d \in Channels : d # c /\ pc[d] # "stopped"
    BY <2>1 DEF Only
  <2>2. CASE \A d \in Channels : d # c => pc[d] = "stopped"
    <3>1. CASE pc[c] = "finish"
      <4>1. FinishRange(ChunkRangeList) = [Start |-> 0, End |-> LastChunk]
        BY <2>2, <3>1, LastOne
      <4>2. CheckFinish(c) => finished'
        BY <4>1 DEF CheckFinish
      <4>3. ~CheckFinish(c) => pc'[c] # "stopped"
        BY <3>1 DEF Forward, ReceiveHandShakeHave, SendNextRequest, ReceiveData,
           CheckDataIntegrity, CheckPeakHash, StoreData, AfterStore, Serve
      <4> QED
        BY <4>2, <4>3
    <3>2. CASE pc[c] = "stopped"
      <4>1. finished
        BY <2>2, <3>2 DEF RestComes
      <4> QED
        BY <4>1
    <3>3. CASE pc[c] \notin {"finish", "stopped"}
      <4>1. pc'[c] # "stopped"
        BY <3>3 DEF Forward, ReceiveHandShakeHave, SendNextRequest, CheckFinish,
           ReceiveData, CheckDataIntegrity, CheckPeakHash, StoreData, AfterStore,
           Serve
      <4> QED
        BY <4>1
    <3> QED
      BY <3>1, <3>2, <3>3
  <2> QED
    BY <2>1, <2>2
<1> QED
  BY <1>3, <1>4, <1>5 DEF RestComes

\* A download over a network without faults does not come to rest before it has
\* finished, for every content and every number of channels, in whatever order
\* they are served and stop, as long as each peer lacks at most the first chunk
\* and no check replaces the ChunkRange found.
THEOREM QuietAlwaysFinished ==
    ASSUME Overlapping
    PROVE  Spec => []QuietIsFinished
<1> DEFINE Inv == Calm => RestInv
<1>1. Init => Inv
  <2>1. SUFFICES ASSUME Init PROVE RestInv
    OBVIOUS
  <2>2. \A c \in Channels : NoSetback(c)
    BY <2>1 DEF Init, NoSetback
  <2>3. FirstChunks
    BY <2>1 DEF Init, FirstChunks, AskedFirst
  <2>4. LastComes
    BY <2>1 DEF Init, LastComes
  <2>5. RestComes
    BY <2>1 DEF Init, RestComes, Overlapping
  <2> QED
    BY <2>2, <2>3, <2>4, <2>5 DEF RestInv
<1>2. ASSUME IInv, Inv, NEW c \in Channels, Step(c) PROVE Inv'
  <2>1. SUFFICES ASSUME Calm' PROVE RestInv'
    OBVIOUS
  <2>2. Calm
    <3>1. Without(Faults)' => Without(Faults)
      BY <1>2, StillWithout
    <3>2. overwritten => overwritten'
      BY <1>2 DEF Step, Receive, ReceiveHandShakeHave, SendNextRequest,
         CheckFinish, ReceiveData, CheckDataIntegrity, CheckPeakHash, StoreData,
         AfterStore, RetryRequest, KeepAliveStop, Serve, Lose, Crash, histVars
    <3> QED
      BY <2>1, <3>1, <3>2 DEF Calm
  <2>3. RestInv
    BY <1>2, <2>2
  <2> QED
    BY <1>2, <2>1, <2>2, <2>3, NoSetbackStep, FirstChunksStep, LastComesStep,
       RestComesStep DEF RestInv
<1>3. ASSUME Inv, UNCHANGED vars PROVE Inv'
  <2> USE <1>3 DEF vars
  <2>1. Calm' <=> Calm
    BY DEF Calm, Without
  <2>2. /\ \A c \in Channels : NoSetback(c)' <=> NoSetback(c)
        /\ FirstChunks' <=> FirstChunks
        /\ LastComes' <=> LastComes
        /\ RestComes' <=> RestComes
    BY DEF NoSetback, FirstChunks, AskedFirst, LastComes, Outstanding, RestComes,
       Settled, Had
  <2> QED
    BY <2>1, <2>2 DEF RestInv
<1>4. IInv /\ Inv /\ [Next]_vars => Inv'
  <2>1. ASSUME IInv, Inv, Next PROVE Inv'
    BY <1>2, <2>1 DEF Next, Step
  <2> QED
    BY <1>3, <2>1
<1>5. Inv => QuietIsFinished
  <2>1. SUFFICES ASSUME Calm, RestInv, Quiet PROVE finished
    BY DEF QuietIsFinished, Calm
  <2>2. SUFFICES ASSUME NEW c \in Channels, pc[c] # "stopped" PROVE finished
    BY <2>1 DEF RestInv, RestComes
  <2>3. pc[c] = "idle" /\ requests[c] = {} /\ datagrams[c] = {}
    BY <2>1, <2>2 DEF Quiet
  <2> QED
    BY <2>1, <2>3 DEF RestInv, NoSetback
<1> QED
  BY <1>1, <1>4, <1>5, Inductive, PTL DEF Spec
=============================================================================
