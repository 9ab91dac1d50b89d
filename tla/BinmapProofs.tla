---------------------------- MODULE BinmapProofs ----------------------------
(* Proofs about Binmap, for every content size, every set of receive threads *)
(* and every order of their steps.                                           *)
EXTENDS Binmap, ChunkRangesProofs

-----------------------------------------------------------------------------
(* The map *)

\* What EndsPrefix says of the chunks, PrefixRange says of the ranges.
LEMMA PrefixIsARange ==
    ASSUME NEW list \in Seq(ChunkRangeSt), NEW cp \in Int, Separated(list)
    PROVE  EndsPrefix(Covered(list), cp) <=> PrefixRange(list, cp)
<1>0. \A k \in DOMAIN list : list[k].Start \in Nat /\ list[k].End \in Nat
  BY RangeBounds
<1>1. ASSUME cp >= 0, EndsPrefix(Covered(list), cp)
      PROVE  PrefixRange(list, cp)
  <2>1. /\ \A i \in 0..cp : i \in Covered(list)
        /\ cp + 1 \notin Covered(list)
    BY <1>1 DEF EndsPrefix
  <2>2. PICK k \in DOMAIN list : list[k].Start <= 0 /\ 0 <= list[k].End
    BY <1>1, <2>1, CoveredMember
  <2>3. list[k].End <= cp
    BY <1>0, <1>1, <2>1, <2>2, CoveredMember
  <2>4. list[k].End + 1 \notin Covered(list)
    BY GapAfterRange
  <2>5. ~(list[k].End + 1 \in 0..cp)
    BY <2>1, <2>4
  <2> QED
    BY <1>0, <1>1, <2>2, <2>3, <2>5 DEF PrefixRange
<1>2. ASSUME cp >= 0, PrefixRange(list, cp)
      PROVE  EndsPrefix(Covered(list), cp)
  <2>1. PICK k \in DOMAIN list : list[k].Start = 0 /\ list[k].End = cp
    BY <1>2 DEF PrefixRange
  <2>2. 0..cp \subseteq Covered(list)
    BY <2>1, CoveredMember
  <2>3. cp + 1 \notin Covered(list)
    BY <2>1, GapAfterRange
  <2> QED
    BY <1>2, <2>2, <2>3 DEF EndsPrefix
<1>3. ASSUME cp < 0
      PROVE  EndsPrefix(Covered(list), cp) <=> PrefixRange(list, cp)
  <2>1. ASSUME NEW k \in DOMAIN list, list[k].Start = 0, list[k].End # 0
        PROVE  0 \in Covered(list) /\ 1 \in Covered(list)
    BY <1>0, <2>1, CoveredMember
  <2>2. ASSUME 0 \in Covered(list), 1 \in Covered(list)
        PROVE  \E k \in DOMAIN list : list[k].Start = 0 /\ list[k].End # 0
    <3>1. PICK k \in DOMAIN list : list[k].Start <= 0 /\ 0 <= list[k].End
      BY <2>2, CoveredMember
    <3>2. PICK m \in DOMAIN list : list[m].Start <= 1 /\ 1 <= list[m].End
      BY <2>2, CoveredMember
    <3> QED
      BY <1>0, <3>1, <3>2 DEF Separated
  <2> QED
    BY <1>3, <2>1, <2>2 DEF EndsPrefix, PrefixRange
<1> QED
  BY <1>1, <1>2, <1>3

\* GetRequestData answers -1 or a chunk of the content that is missing.
LEMMA RequestIndexMissing ==
    ASSUME NEW list \in Seq(ChunkRangeSt), NEW requested, NEW cp \in Int,
           NEW last \in Int, NEW peer \in PeerLists
    PROVE  LET i == RequestIndex(list, requested, cp, last, peer)
           IN  i = -1 \/ (i \in Chunks /\ i \notin Covered(list))
<1>1. /\ peer \in Seq(ChunkRangeSt)
      /\ \A m \in DOMAIN peer : peer[m].End < NumChunks
  BY PeerListsAssumption
<1>2. \A m \in DOMAIN peer : peer[m].Start \in Nat /\ peer[m].End \in Nat
  BY <1>1, RangeBounds
<1>3. Covered(peer) \subseteq Chunks
  BY <1>1, <1>2, CoveredMember, NumChunksAssumption DEF Chunks
<1> QED
  BY <1>1, <1>3, RequestIndexWanted

\* The constructor leaves an empty map.
LEMMA InitMap == Init => MapInv
<1> SUFFICES ASSUME Init PROVE MapInv
  OBVIOUS
<1>1. TypeOK
  <2>1. disk \in [Chunks -> 0..ChunkSize]
    BY SizeAssumption DEF Init, NoBytes
  <2>2. pc \in [Threads -> PcType]
    BY DEF Init, PcType
  <2>3. ChunkRangeList \in Seq(ChunkRangeSt) /\ DOMAIN found = Threads
    BY DEF Init
  <2>4. /\ index \in [Threads -> Chunks \cup {-1}]
        /\ told \in [Threads -> {0, LastSize}]
    BY DEF Init
  <2> QED
    BY <2>1, <2>2, <2>3, <2>4 DEF Init, TypeOK
<1>2. Separated(ChunkRangeList) /\ Covered(ChunkRangeList) = {}
  BY DEF Init, Separated, Covered
<1> QED
  BY <1>1, <1>2 DEF Init, MapInv, RangesExact, CPExact, EndsPrefix,
     NoStaleRequest, Storing

\* Each critical section keeps the list exact, CP at the end of its run and no
\* stored chunk recorded as requested.
LEMMA MapStep == MapInv /\ [Next]_vars => MapInv'
<1> SUFFICES ASSUME MapInv, [Next]_vars PROVE MapInv'
  OBVIOUS
<1> USE DEF MapInv, TypeOK
<1>0. /\ \A i \in Chunks : i \in Nat
      /\ \A i \in Chunks \cup {-1} : i \in Int
  BY NumChunksAssumption DEF Chunks
<1>1. ASSUME NEW t \in Threads, SetDataOpen(t)
      PROVE  MapInv'
  <2>1. TypeOK'
    BY <1>1, SizeAssumption
    DEF SetDataOpen, goto, PcType, NoBytes, mapVars, lastVars, registers
  <2>2. RangesExact' /\ CPExact'
    BY <1>1 DEF SetDataOpen, mapVars, RangesExact, CPExact
  <2>3. NoStaleRequest' /\ Storing'
    BY <1>1 DEF SetDataOpen, goto, mapVars, registers, NoStaleRequest, Storing
  <2> QED
    BY <2>1, <2>2, <2>3
<1>2. ASSUME NEW t \in Threads, SetDataHave(t)
      PROVE  MapInv'
  <2> DEFINE after == AfterSetHave(ChunkRangeList, CP, index[t], index[t])
  <2>1. index[t] \in Chunks /\ index[t] \in Nat /\ CP \in Int
    BY <1>0, <1>2 DEF SetDataHave, Storing
  <2>2. PrefixRange(ChunkRangeList, CP)
    BY <2>1, PrefixIsARange DEF RangesExact, CPExact
  <2>3. TakesIn(ChunkRangeList, CP, index[t], after.list, after.CP)
    BY <2>1, <2>2, SetHaveOne DEF RangesExact
  <2>4. ChunkRangeList' = after.list /\ CP' = after.CP /\ had' = had \cup {index[t]}
    BY <1>2 DEF SetDataHave
  <2> HIDE DEF after
  <2>5. /\ ChunkRangeList' \in Seq(ChunkRangeSt)
        /\ RangesExact'
        /\ CP' \in Int /\ (CP' >= 0 \/ CP' = CP)
        /\ PrefixRange(ChunkRangeList', CP')
    BY <2>3, <2>4 DEF TakesIn, RangesExact
  <2>6. CPExact'
    BY <2>5, PrefixIsARange DEF RangesExact, CPExact
  <2>7. CP' \in Chunks \cup {-1}
    <3>1. had' \subseteq Chunks
      BY <2>1, <2>4
    <3>2. CASE CP' >= 0
      <4>1. CP' \in 0..CP' /\ 0..CP' \subseteq had'
        BY <2>5, <2>6, <3>2 DEF CPExact, EndsPrefix
      <4> QED
        BY <3>1, <4>1
    <3>3. CASE ~(CP' >= 0)
      BY <2>5, <3>3
    <3> QED
      BY <3>2, <3>3
  <2>8. TypeOK'
    <3>1. pc' \in [Threads -> PcType] /\ had' \subseteq Chunks
      BY <1>2, <2>1, <2>4 DEF SetDataHave, goto, PcType
    <3>2. UNCHANGED <<RequestedMap, lastVars, fileVars, mutexes, registers,
                      history>>
      BY <1>2 DEF SetDataHave
    <3> QED
      BY <2>5, <2>7, <3>1, <3>2
      DEF lastVars, fileVars, mutexes, registers, history
  <2>9. NoStaleRequest'
    <3> SUFFICES ASSUME NEW i \in RequestedMap' \cap had'
                 PROVE  \E u \in Threads : pc'[u] = "release" /\ index'[u] = i
      BY DEF NoStaleRequest
    <3>2. CASE i = index[t]
      BY <1>2, <3>2 DEF SetDataHave, goto, registers
    <3>3. CASE i # index[t]
      <4>1. i \in RequestedMap \cap had
        BY <1>2, <3>3 DEF SetDataHave
      <4>2. PICK u \in Threads : pc[u] = "release" /\ index[u] = i
        BY <4>1 DEF NoStaleRequest
      <4> QED
        BY <1>2, <4>2 DEF SetDataHave, goto, registers
    <3> QED
      BY <3>2, <3>3
  <2>10. Storing'
    BY <1>2, <2>1 DEF SetDataHave, goto, registers, Storing
  <2> QED
    BY <2>5, <2>6, <2>8, <2>9, <2>10
<1>3. ASSUME NEW t \in Threads, SetDataRelease(t)
      PROVE  MapInv'
  <2>1. TypeOK'
    BY <1>3 DEF SetDataRelease, goto, PcType, mapVars, lastVars, fileVars, mutexes,
       registers, history
  <2>2. RangesExact' /\ CPExact'
    BY <1>3 DEF SetDataRelease, mapVars, RangesExact, CPExact
  <2>3. NoStaleRequest' /\ Storing'
    BY <1>3 DEF SetDataRelease, goto, mapVars, registers, NoStaleRequest,
       Storing
  <2> QED
    BY <2>1, <2>2, <2>3
<1>4. ASSUME NEW t \in Threads, SetDataWrite(t)
      PROVE  MapInv'
  <2>1. DataSize(index[t]) \in 0..ChunkSize
    BY SizeAssumption DEF DataSize
  <2>2. disk' \in [Chunks -> 0..ChunkSize]
    BY <1>4, <2>1 DEF SetDataWrite, Written
  <2>3. TypeOK'
    <3>1. /\ pc' \in [Threads -> PcType]
          /\ index' \in [Threads -> Chunks \cup {-1}]
      BY <1>4 DEF SetDataWrite, goto, PcType
    <3>2. LogPrintSize' \in {-1, NumChunks - 1, OtherChunk}
      BY <1>4 DEF SetDataWrite, Logged
    <3>3. FileMutex' = NoThread
      BY <1>4 DEF SetDataWrite
    <3>4. UNCHANGED <<mapVars, RequestedMap, LastChunk, LastChunkSize,
                      FilePointer, created, RequestedMutex, told, found,
                      history>>
      BY <1>4 DEF SetDataWrite
    <3> QED
      BY <2>2, <3>1, <3>2, <3>3, <3>4 DEF mapVars, history
  <2>4. RangesExact' /\ CPExact'
    BY <1>4 DEF SetDataWrite, mapVars, RangesExact, CPExact
  <2>5. NoStaleRequest' /\ Storing'
    <3>1. \A u \in Threads :
             u # t => pc'[u] = pc[u] /\ index'[u] = index[u]
      BY <1>4 DEF SetDataWrite, goto
    <3>2. pc[t] = "write" /\ pc'[t] \in {"idle", "log"}
      BY <1>4 DEF SetDataWrite, goto
    <3>3. had' = had /\ RequestedMap' = RequestedMap
      BY <1>4 DEF SetDataWrite, mapVars
    <3> QED
      BY <3>1, <3>2, <3>3 DEF NoStaleRequest, Storing
  <2> QED
    BY <2>3, <2>4, <2>5
<1>5. ASSUME NEW t \in Threads, GetData(t)
      PROVE  MapInv'
  BY <1>5 DEF GetData, mapVars, lastVars, mutexes, registers, history,
     RangesExact, CPExact, NoStaleRequest, Storing
<1>6. ASSUME NEW t \in Threads, GetRequestLock(t)
      PROVE  MapInv'
  <2>1. TypeOK'
    BY <1>6 DEF GetRequestLock, goto, PcType, mapVars, lastVars, fileVars,
       history
  <2>2. RangesExact' /\ CPExact'
    BY <1>6 DEF GetRequestLock, mapVars, RangesExact, CPExact
  <2>3. NoStaleRequest' /\ Storing'
    BY <1>6 DEF GetRequestLock, goto, mapVars, NoStaleRequest, Storing
  <2> QED
    BY <2>1, <2>2, <2>3
<1>7. ASSUME NEW t \in Threads, NEW peer \in PeerLists, GetRequestScan(t, peer)
      PROVE  MapInv'
  <2> DEFINE i == RequestIndex(ChunkRangeList, RequestedMap, index[t],
                               LastChunk, peer)
  <2>1. index[t] \in Int /\ LastChunk \in Int
    BY <1>0, NumChunksAssumption
  <2>2. i = -1 \/ (i \in Chunks /\ i \notin had)
    BY <2>1, RequestIndexMissing DEF RangesExact
  <2>3. RequestedMap' = IF i = -1 THEN RequestedMap ELSE RequestedMap \cup {i}
    BY <1>7 DEF GetRequestScan
  <2> HIDE DEF i
  <2>4. TypeOK'
    BY <1>7, <2>2, <2>3
    DEF GetRequestScan, goto, PcType, mapVars, lastVars, fileVars, history
  <2>5. RangesExact' /\ CPExact'
    BY <1>7 DEF GetRequestScan, mapVars, RangesExact, CPExact
  <2>6. NoStaleRequest' /\ Storing'
    BY <1>7, <2>2, <2>3
    DEF GetRequestScan, goto, mapVars, NoStaleRequest, Storing
  <2> QED
    BY <2>4, <2>5, <2>6
<1>8. ASSUME NEW t \in Threads, NEW i \in Chunks, ReleaseRequested(t, i)
      PROVE  MapInv'
  BY <1>8 DEF ReleaseRequested, mapVars, lastVars, fileVars, mutexes, registers,
     history, RangesExact, CPExact, NoStaleRequest, Storing
<1>9. ASSUME NEW t \in Threads, CheckFinishScan(t)
      PROVE  MapInv'
  <2>1. TypeOK'
    BY <1>9 DEF CheckFinishScan, goto, PcType, mapVars, lastVars, fileVars, mutexes,
       registers, history, NoRange
  <2>2. RangesExact' /\ CPExact' /\ NoStaleRequest' /\ Storing'
    BY <1>9 DEF CheckFinishScan, goto, mapVars, registers, RangesExact, CPExact,
       NoStaleRequest, Storing
  <2> QED
    BY <2>1, <2>2
<1>10. ASSUME NEW t \in Threads, CheckFinishTest(t)
       PROVE  MapInv'
  <2>1. TypeOK'
    BY <1>10 DEF CheckFinishTest, goto, PcType, mapVars, lastVars, fileVars, mutexes,
       registers, history, NoRange
  <2>2. RangesExact' /\ CPExact' /\ NoStaleRequest' /\ Storing'
    BY <1>10 DEF CheckFinishTest, goto, mapVars, registers, RangesExact, CPExact,
       NoStaleRequest, Storing
  <2> QED
    BY <2>1, <2>2
<1>11. ASSUME NEW t \in Threads, CheckFinishClose(t)
       PROVE  MapInv'
  <2>1. TypeOK'
    BY <1>11 DEF CheckFinishClose, goto, PcType, mapVars, lastVars, mutexes,
       registers, history, NoRange
  <2>2. RangesExact' /\ CPExact' /\ NoStaleRequest' /\ Storing'
    BY <1>11 DEF CheckFinishClose, goto, mapVars, registers, RangesExact, CPExact,
       NoStaleRequest, Storing
  <2> QED
    BY <2>1, <2>2
<1>12. ASSUME NEW t \in Threads, NEW answer \in Answers, SetLastChunkIndex(t, answer)
       PROVE  MapInv'
  <2>1. TypeOK'
    BY <1>12 DEF SetLastChunkIndex, goto, PcType, mapVars, lastVars, fileVars,
       mutexes, registers, history, Answers
  <2>2. RangesExact' /\ CPExact' /\ NoStaleRequest' /\ Storing'
    BY <1>12 DEF SetLastChunkIndex, goto, mapVars, registers, RangesExact, CPExact,
       NoStaleRequest, Storing
  <2> QED
    BY <2>1, <2>2
<1>13. ASSUME NEW t \in Threads, SetLastChunkSize(t)
       PROVE  MapInv'
  <2>1. TypeOK'
    BY <1>13 DEF SetLastChunkSize, goto, PcType, mapVars, lastVars, fileVars,
       mutexes, registers, history
  <2>2. RangesExact' /\ CPExact' /\ NoStaleRequest' /\ Storing'
    BY <1>13 DEF SetLastChunkSize, goto, mapVars, registers, RangesExact, CPExact,
       NoStaleRequest, Storing
  <2> QED
    BY <2>1, <2>2
<1>14. ASSUME NEW t \in Threads, NEW i \in Chunks, ReceiveData(t, i)
       PROVE  MapInv'
  <2>0. misled' \in BOOLEAN
    BY <1>14 DEF ReceiveData
  <2>1. TypeOK'
    BY <1>14, <2>0 DEF ReceiveData, goto, PcType, mapVars, lastVars, fileVars,
       mutexes, registers, history
  <2>2. RangesExact' /\ CPExact' /\ NoStaleRequest' /\ Storing'
    BY <1>14 DEF ReceiveData, goto, mapVars, registers, RangesExact, CPExact,
       NoStaleRequest, Storing
  <2> QED
    BY <2>1, <2>2
<1>15. ASSUME NEW t \in Threads, SetDataFails(t)
       PROVE  MapInv'
  <2>1. TypeOK'
    BY <1>15 DEF SetDataFails, goto, PcType, mapVars, lastVars, fileVars,
       mutexes, registers, history
  <2>2. RangesExact' /\ CPExact' /\ NoStaleRequest' /\ Storing'
    BY <1>15 DEF SetDataFails, goto, mapVars, registers, RangesExact, CPExact,
       NoStaleRequest, Storing
  <2> QED
    BY <2>1, <2>2
<1>16. ASSUME NEW t \in Threads, SetDataLog(t)
       PROVE  MapInv'
  <2>1. TypeOK'
    BY <1>16 DEF SetDataLog, goto, PcType, mapVars, lastVars, fileVars,
       mutexes, registers, history
  <2>2. RangesExact' /\ CPExact' /\ NoStaleRequest' /\ Storing'
    BY <1>16 DEF SetDataLog, goto, mapVars, registers, RangesExact, CPExact,
       NoStaleRequest, Storing
  <2> QED
    BY <2>1, <2>2
<1>17. ASSUME NEW t \in Threads, SetDataLogged(t)
       PROVE  MapInv'
  <2>1. TypeOK'
    BY <1>17 DEF SetDataLogged, Logged, goto, PcType, mapVars, lastVars, fileVars,
       mutexes, registers, history
  <2>2. RangesExact' /\ CPExact' /\ NoStaleRequest' /\ Storing'
    BY <1>17 DEF SetDataLogged, goto, mapVars, registers, RangesExact, CPExact,
       NoStaleRequest, Storing
  <2> QED
    BY <2>1, <2>2
<1>18. CASE UNCHANGED vars
  BY <1>18 DEF vars, mapVars, lastVars, fileVars, mutexes, registers, history,
     RangesExact, CPExact, NoStaleRequest, Storing
<1> QED
  BY <1>1, <1>2, <1>3, <1>4, <1>5, <1>6, <1>7, <1>8, <1>9, <1>10, <1>11,
     <1>12, <1>13, <1>14, <1>15, <1>16, <1>17, <1>18 DEF Next

\* The inductive invariant of the map holds in every reachable state.
THEOREM MapInvariant == Spec => []MapInv
BY InitMap, MapStep, PTL DEF Spec

\* Every member of Binmap keeps its type: in particular CP and RequestedMap
\* never name anything but a chunk of the content.
THEOREM TypeCorrect == Spec => []TypeOK
<1>1. MapInv => TypeOK
  BY DEF MapInv
<1> QED
  BY <1>1, MapInvariant, PTL

\* SetHave keeps the list exact: the ranges are separated and cover exactly the
\* chunks stored, for every order of arrival and every interleaving.
THEOREM RangesAlwaysExact == Spec => []RangesExact
<1>1. MapInv => RangesExact
  BY DEF MapInv
<1> QED
  BY <1>1, MapInvariant, PTL

\* CP ends the run of chunks that starts at chunk 0, so that GetRequestData,
\* which searches from CP + 1, skips no missing chunk.
THEOREM CPAlwaysExact == Spec => []CPExact
<1>1. MapInv => CPExact
  BY DEF MapInv
<1> QED
  BY <1>1, MapInvariant, PTL

\* A stored chunk is recorded as requested only while SetData is storing it.
THEOREM NeverStaleRequest == Spec => []NoStaleRequest
<1>1. MapInv => NoStaleRequest
  BY DEF MapInv
<1> QED
  BY <1>1, MapInvariant, PTL

-----------------------------------------------------------------------------
(* The file *)

\* SetLastChunk has not been called.
LEMMA InitLast == Init => LastInv
BY DEF Init, LastInv

\* What SetLastChunk has stored stays right for as long as the tree tells the
\* right thing, whatever the order of the calls of several channels.
LEMMA LastStep == MapInv /\ LastInv /\ [Next]_vars => LastInv'
<1> SUFFICES ASSUME MapInv, LastInv, [Next]_vars PROVE LastInv'
  OBVIOUS
<1> DEFINE Stores == {"store", "have", "release", "write"}
<1>0. TypeOK
  BY DEF MapInv
<1>1. ASSUME LastChunk' = LastChunk, LastChunkSize' = LastChunkSize,
             misled => misled',
             \A u \in Threads :
                /\ pc'[u] = "lastsize" => pc[u] = "lastsize" /\ told'[u] = told[u]
                /\ pc'[u] \in Stores => pc[u] \in Stores /\ index'[u] = index[u]
      PROVE  LastInv'
  BY <1>1 DEF LastInv
<1>2. ASSUME NEW t \in Threads, NEW i \in Chunks, ReceiveData(t, i)
      PROVE  LastInv'
  <2>1. /\ LastChunk' = LastChunk /\ LastChunkSize' = LastChunkSize
        /\ told' = told
    BY <1>2 DEF ReceiveData, lastVars
  <2>2. ASSUME NEW u \in Threads, u # t
        PROVE  pc'[u] = pc[u] /\ index'[u] = index[u]
    BY <1>0, <1>2, <2>2 DEF ReceiveData, goto, TypeOK
  <2>3. index'[t] = i /\ pc'[t] \in {"store", "lastchunk"}
    BY <1>0, <1>2 DEF ReceiveData, goto, TypeOK
  <2>4. ~misled' /\ pc'[t] = "store" /\ i = NumChunks - 1 => LastChunkSize > 0
    <3>1. pc'[t] = "store" /\ ~misled' => ~(i = NumChunks - 1 /\ LastChunkSize <= 0)
      <4>1. CASE goto(t, "store")
        <5>1. SUFFICES ASSUME ~misled' PROVE ~(i = NumChunks - 1 /\ LastChunkSize <= 0)
          OBVIOUS
        <5>2. \/ misled' = (misled \/ (i = NumChunks - 1 /\ LastChunkSize <= 0))
              \/ goto(t, "lastchunk")
          BY <1>2 DEF ReceiveData
        <5>3. ~goto(t, "lastchunk")
          BY <1>0, <4>1 DEF goto, TypeOK
        <5> QED
          BY <5>1, <5>2, <5>3
      <4>2. CASE goto(t, "lastchunk")
        BY <1>0, <4>2 DEF goto, TypeOK
      <4> QED
        BY <1>2, <4>1, <4>2 DEF ReceiveData
    <3>2. LastChunkSize \in Nat
      BY <1>0, SizeAssumption DEF TypeOK
    <3> QED
      BY <3>1, <3>2
  <2>5. misled => misled'
    BY <1>2 DEF ReceiveData
  <2> QED
    BY <2>1, <2>2, <2>3, <2>4, <2>5 DEF LastInv
<1>3. ASSUME NEW t \in Threads, NEW answer \in Answers,
             SetLastChunkIndex(t, answer)
      PROVE  LastInv'
  <2>1. ~misled' => ~misled /\ answer = RightAnswer
    BY <1>3 DEF SetLastChunkIndex
  <2>2. ~misled' => LastChunk' = NumChunks - 1 /\ told'[t] = LastSize
    BY <1>0, <1>3, <2>1 DEF SetLastChunkIndex, RightAnswer, TypeOK
  <2>3. LastChunkSize' = LastChunkSize /\ index' = index
    BY <1>3 DEF SetLastChunkIndex
  <2>4. ASSUME NEW u \in Threads, u # t
        PROVE  pc'[u] = pc[u] /\ told'[u] = told[u]
    BY <1>0, <1>3, <2>4 DEF SetLastChunkIndex, goto, TypeOK
  <2>5. pc'[t] = "lastsize"
    BY <1>0, <1>3 DEF SetLastChunkIndex, goto, TypeOK
  <2> QED
    BY <2>1, <2>2, <2>3, <2>4, <2>5 DEF LastInv
<1>4. ASSUME NEW t \in Threads, SetLastChunkSize(t)
      PROVE  LastInv'
  <2>1. misled' = misled /\ LastChunk' = LastChunk /\ index' = index
    BY <1>4 DEF SetLastChunkSize, history
  <2>2. ~misled => LastChunk = NumChunks - 1 /\ LastChunkSize' > 0
    BY <1>4, SizeAssumption DEF SetLastChunkSize, LastInv
  <2>3. ASSUME NEW u \in Threads, u # t
        PROVE  pc'[u] = pc[u] /\ told'[u] = told[u]
    BY <1>0, <1>4, <2>3 DEF SetLastChunkSize, goto, TypeOK
  <2>4. pc'[t] = "store"
    BY <1>0, <1>4 DEF SetLastChunkSize, goto, TypeOK
  <2> QED
    BY <2>1, <2>2, <2>3, <2>4 DEF LastInv
<1>5. ASSUME NEW t \in Threads, SetDataLogged(t)
      PROVE  LastInv'
  <2>1. ~misled' => ~misled /\ LastChunkSize' = LastChunkSize
    BY <1>5 DEF SetDataLogged
  <2>2. LastChunk' = LastChunk /\ told' = told
    BY <1>5 DEF SetDataLogged
  <2>3. \A u \in Threads :
           pc'[u] # "idle" => pc'[u] = pc[u] /\ index'[u] = index[u]
    BY <1>0, <1>5 DEF SetDataLogged, goto, TypeOK
  <2> QED
    BY <2>1, <2>2, <2>3 DEF LastInv
<1>6. ASSUME NEW t \in Threads,
             \/ SetDataOpen(t) \/ SetDataHave(t) \/ SetDataRelease(t)
             \/ SetDataWrite(t) \/ SetDataLog(t)
      PROVE  LastInv'
  <2>1. /\ LastChunk' = LastChunk /\ LastChunkSize' = LastChunkSize
        /\ misled' = misled /\ told' = told
    BY <1>6 DEF SetDataOpen, SetDataHave, SetDataRelease, SetDataWrite,
       SetDataLog, lastVars, registers, history
  <2>2. \A u \in Threads :
           /\ pc'[u] = "lastsize" => pc[u] = "lastsize"
           /\ pc'[u] \in Stores => pc[u] \in Stores /\ index'[u] = index[u]
    BY <1>0, <1>6 DEF SetDataOpen, SetDataHave, SetDataRelease, SetDataWrite,
       SetDataLog, registers, goto, TypeOK
  <2> HIDE DEF Stores
  <2> QED
    BY <1>1, <2>1, <2>2
<1>7. ASSUME NEW t \in Threads,
             \/ SetDataFails(t) \/ GetData(t) \/ GetRequestLock(t)
             \/ \E peer \in PeerLists : GetRequestScan(t, peer)
             \/ \E i \in Chunks : ReleaseRequested(t, i)
             \/ CheckFinishScan(t) \/ CheckFinishTest(t) \/ CheckFinishClose(t)
      PROVE  LastInv'
  <2>1. /\ LastChunk' = LastChunk /\ LastChunkSize' = LastChunkSize
        /\ misled' = misled /\ told' = told
    BY <1>7 DEF SetDataFails, GetData, GetRequestLock, GetRequestScan,
       ReleaseRequested, CheckFinishScan, CheckFinishTest, CheckFinishClose,
       lastVars, registers, history
  <2>2. \A u \in Threads :
           /\ pc'[u] = "lastsize" => pc[u] = "lastsize"
           /\ pc'[u] \in Stores => pc[u] \in Stores /\ index'[u] = index[u]
    BY <1>0, <1>7 DEF SetDataFails, GetData, GetRequestLock, GetRequestScan,
       ReleaseRequested, CheckFinishScan, CheckFinishTest, CheckFinishClose,
       registers, goto, TypeOK
  <2> HIDE DEF Stores
  <2> QED
    BY <1>1, <2>1, <2>2
<1>8. CASE UNCHANGED vars
  BY <1>8 DEF vars, lastVars, registers, history, LastInv
<1> QED
  BY <1>2, <1>3, <1>4, <1>5, <1>6, <1>7, <1>8 DEF Next

\* There is no file before the first SetData.
LEMMA InitFile == Init => FileInv
<1> SUFFICES ASSUME Init PROVE FileInv
  OBVIOUS
<1>1. \A i \in Chunks : disk[i] <= ContentBytes(i)
  BY SizeAssumption DEF Init, NoBytes, ContentBytes
<1> QED
  BY <1>1 DEF Init, FileInv

\* The write of SetData gives the chunk exactly its size in the content, the
\* last one once SetLastChunk has been told the right thing.
LEMMA WriteSize ==
    ASSUME TypeOK, LastInv, NEW t \in Threads, pc[t] = "write",
           index[t] \in Chunks, ~(index[t] = NumChunks - 1 /\ misled)
    PROVE  DataSize(index[t]) = ContentBytes(index[t])
<1>1. /\ index[t] \in 0..(NumChunks - 1) /\ NumChunks \in Nat
      /\ LastChunk \in {-1, NumChunks - 1, PaddedEnd}
      /\ PaddedEnd \in Nat /\ PaddedEnd >= NumChunks - 1
      /\ LastChunkSize \in {0, LastSize}
      /\ LastSize \in 1..ChunkSize /\ ChunkSize \in Nat
  BY NumChunksAssumption, PaddedEndAssumption, SizeAssumption DEF TypeOK, Chunks
<1>2. CASE index[t] = NumChunks - 1
  <2>1. LastChunkSize > 0 /\ LastChunk = NumChunks - 1
    BY <1>2 DEF LastInv
  <2>2. LastChunkSize = LastSize
    BY <1>1, <2>1
  <2> QED
    BY <1>1, <1>2, <2>1, <2>2 DEF DataSize, ContentBytes
<1>3. CASE index[t] # NumChunks - 1
  <2>1. index[t] # LastChunk
    BY <1>1, <1>3
  <2> QED
    BY <1>1, <1>3, <2>1 DEF DataSize, ContentBytes
<1> QED
  BY <1>2, <1>3

\* Each critical section keeps the file in step with the map, whatever the
\* order of SetData, GetData, CheckFinish and SetLastChunk.
LEMMA FileStep == MapInv /\ LastInv /\ FileInv /\ [Next]_vars => FileInv'
<1> SUFFICES ASSUME MapInv, LastInv, FileInv, [Next]_vars PROVE FileInv'
  OBVIOUS
<1> DEFINE Holding == {"have", "release", "write"}
           Exempt(i) == i = NumChunks - 1 /\ misled
<1>0. TypeOK /\ Storing
  BY DEF MapInv
<1>a. \A i \in Chunks : ContentBytes(i) \in Nat
  BY SizeAssumption DEF ContentBytes
<1>1. ASSUME UNCHANGED <<FileMutex, FilePointer, disk, had, finished, late>>,
             misled => misled',
             \A u \in Threads :
                pc[u] \in Holding \/ pc'[u] \in Holding
                   => pc'[u] = pc[u] /\ index'[u] = index[u]
      PROVE  FileInv'
  <2>1. FileMutex # NoThread => FileMutex \in Threads
    BY <1>0 DEF TypeOK
  <2> QED
    BY <1>1, <2>1 DEF FileInv, InFile, ContentBytes
<1>2. ASSUME NEW t \in Threads, SetDataOpen(t)
      PROVE  FileInv'
  <2>1. /\ FileMutex' = t /\ pc' = [pc EXCEPT ![t] = "have"]
        /\ FilePointer' /\ had' = had /\ misled' = misled
        /\ late' = (late \/ finished) /\ FileMutex = NoThread
        /\ disk' = IF FilePointer THEN disk ELSE NoBytes
    BY <1>2 DEF SetDataOpen, goto, mapVars
  <2>2. \A u \in Threads : pc[u] \notin Holding
    BY <2>1, ThreadAssumption DEF FileInv
  <2>3. ~late' /\ ~FilePointer => had = {}
    BY <2>1 DEF FileInv
  <2>4. ~late' => \A n \in had : disk'[n] = ContentBytes(n) \/ Exempt(n)
    BY <2>1, <2>3 DEF FileInv, InFile
  <2>5. \A n \in Chunks : disk'[n] <= ContentBytes(n) \/ Exempt(n)
    BY <1>a, <2>1 DEF FileInv, NoBytes
  <2>6. \A u \in Threads : pc'[u] \in Holding => u = t
    BY <1>0, <2>1, <2>2 DEF TypeOK
  <2>7. pc'[t] = "have"
    BY <1>0, <2>1 DEF TypeOK
  <2> QED
    BY <2>1, <2>4, <2>5, <2>6, <2>7 DEF FileInv, InFile, ContentBytes
<1>3. ASSUME NEW t \in Threads, SetDataHave(t)
      PROVE  FileInv'
  <2>1. /\ UNCHANGED <<FileMutex, FilePointer, disk, finished, late, misled, index>>
        /\ had' = had \cup {index[t]} /\ pc[t] = "have"
        /\ pc' = [pc EXCEPT ![t] = "release"]
    BY <1>3 DEF SetDataHave, goto, fileVars, mutexes, registers, history
  <2>2. FileMutex = t /\ (FilePointer \/ finished) /\ FileMutex # NoThread
    BY <2>1, ThreadAssumption DEF FileInv
  <2>3. pc'[t] = "release" /\ \A u \in Threads : u # t => pc'[u] = pc[u]
    BY <1>0, <2>1 DEF TypeOK
  <2> QED
    BY <2>1, <2>2, <2>3 DEF FileInv, InFile, ContentBytes
<1>4. ASSUME NEW t \in Threads, SetDataRelease(t)
      PROVE  FileInv'
  <2>1. /\ UNCHANGED <<FileMutex, FilePointer, disk, had, finished, late, misled, index>>
        /\ pc[t] = "release" /\ pc' = [pc EXCEPT ![t] = "write"]
    BY <1>4 DEF SetDataRelease, goto, mapVars, fileVars, mutexes, registers, history
  <2>2. FileMutex = t /\ (FilePointer \/ finished) /\ FileMutex # NoThread
    BY <2>1, ThreadAssumption DEF FileInv
  <2>3. pc'[t] = "write" /\ \A u \in Threads : u # t => pc'[u] = pc[u]
    BY <1>0, <2>1 DEF TypeOK
  <2> QED
    BY <2>1, <2>2, <2>3 DEF FileInv, InFile, ContentBytes
<1>5. ASSUME NEW t \in Threads, SetDataWrite(t)
      PROVE  FileInv'
  <2> DEFINE i == index[t]
  <2>1. /\ UNCHANGED <<FilePointer, had, finished, late, misled>>
        /\ FileMutex' = NoThread /\ pc[t] = "write" /\ disk' = Written(i)
    BY <1>5 DEF SetDataWrite, mapVars, history
  <2>2. FileMutex = t /\ (FilePointer \/ finished) /\ i \in Chunks
    BY <1>0, <2>1 DEF FileInv, Storing
  <2>3. \A u \in Threads : pc'[u] \notin Holding
    <3>1. \A u \in Threads : u # t => pc'[u] = pc[u] /\ pc[u] \notin Holding
      BY <1>0, <1>5, <2>2 DEF SetDataWrite, goto, TypeOK, FileInv
    <3>2. pc'[t] \notin Holding
      BY <1>0, <1>5 DEF SetDataWrite, goto, TypeOK
    <3> QED
      BY <3>1, <3>2
  <2>4. /\ \A n \in Chunks : n # i => disk'[n] = disk[n]
        /\ disk'[i] = IF disk[i] >= DataSize(i) THEN disk[i] ELSE DataSize(i)
    BY <1>0, <2>1, <2>2 DEF Written, TypeOK
  <2>5. disk'[i] = ContentBytes(i) \/ Exempt(i)
    <3>1. SUFFICES ASSUME ~Exempt(i) PROVE disk'[i] = ContentBytes(i)
      OBVIOUS
    <3>2. DataSize(i) = ContentBytes(i)
      BY <1>0, <2>1, <2>2, <3>1, WriteSize
    <3>3. disk[i] <= ContentBytes(i) /\ disk[i] \in Nat /\ ContentBytes(i) \in Nat
      BY <1>0, <1>a, <2>2, <3>1, SizeAssumption DEF FileInv, TypeOK
    <3> QED
      BY <2>4, <3>2, <3>3
  <2> HIDE DEF i
  <2>6. \A n \in Chunks : disk'[n] <= ContentBytes(n) \/ Exempt(n)
    BY <1>a, <2>4, <2>5 DEF FileInv
  <2>7. ~late => \A n \in had : disk'[n] = ContentBytes(n) \/ Exempt(n)
    <3>1. ASSUME ~late, NEW n \in had, n # i
          PROVE  disk[n] = ContentBytes(n) \/ Exempt(n)
      BY <2>2, <3>1 DEF FileInv, InFile, i
    <3>2. had \subseteq Chunks
      BY <1>0 DEF TypeOK
    <3> QED
      BY <2>4, <2>5, <3>1, <3>2
  <2> QED
    BY <2>1, <2>2, <2>3, <2>6, <2>7 DEF FileInv, InFile, ContentBytes
<1>6. ASSUME NEW t \in Threads, GetData(t)
      PROVE  FileInv'
  BY <1>6 DEF GetData, mapVars, mutexes, registers, history, FileInv, InFile,
     ContentBytes
<1>7. ASSUME NEW t \in Threads, CheckFinishClose(t)
      PROVE  FileInv'
  <2>1. /\ UNCHANGED <<disk, had, late, misled, index, FileMutex>>
        /\ FileMutex = NoThread /\ finished'
        /\ pc' = [pc EXCEPT ![t] = "idle"]
    BY <1>7 DEF CheckFinishClose, goto, mapVars, mutexes, registers
  <2>2. \A u \in Threads : pc'[u] \notin Holding
    BY <1>0, <2>1, ThreadAssumption DEF FileInv, TypeOK
  <2> QED
    BY <2>1, <2>2 DEF FileInv, InFile, ContentBytes
<1>8. ASSUME NEW t \in Threads,
             \/ \E i \in Chunks : ReceiveData(t, i) \/ ReleaseRequested(t, i)
             \/ \E answer \in Answers : SetLastChunkIndex(t, answer)
             \/ SetLastChunkSize(t) \/ SetDataFails(t) \/ SetDataLog(t)
             \/ SetDataLogged(t)
             \/ GetRequestLock(t)
             \/ \E peer \in PeerLists : GetRequestScan(t, peer)
             \/ CheckFinishScan(t) \/ CheckFinishTest(t)
      PROVE  FileInv'
  <2>1. UNCHANGED <<FileMutex, FilePointer, disk, had, finished, late>>
    BY <1>8 DEF ReceiveData, ReleaseRequested, SetLastChunkIndex,
       SetLastChunkSize, SetDataFails, SetDataLog, SetDataLogged,
       GetRequestLock, GetRequestScan, CheckFinishScan, CheckFinishTest,
       mapVars, fileVars, mutexes, history
  <2>2. misled => misled'
    BY <1>8 DEF ReceiveData, ReleaseRequested, SetLastChunkIndex,
       SetLastChunkSize, SetDataFails, SetDataLog, SetDataLogged,
       GetRequestLock, GetRequestScan, CheckFinishScan, CheckFinishTest, history
  <2>3. \A u \in Threads : pc[u] \in Holding \/ pc'[u] \in Holding
                              => pc'[u] = pc[u] /\ index'[u] = index[u]
    BY <1>0, <1>8 DEF ReceiveData, ReleaseRequested, SetLastChunkIndex,
       SetLastChunkSize, SetDataFails, SetDataLog, SetDataLogged,
       GetRequestLock, GetRequestScan, CheckFinishScan, CheckFinishTest,
       registers, goto, TypeOK
  <2> HIDE DEF Holding
  <2> QED
    BY <1>1, <2>1, <2>2, <2>3
<1>9. CASE UNCHANGED vars
  BY <1>9 DEF vars, mapVars, fileVars, mutexes, registers, history, FileInv,
     InFile, ContentBytes
<1> QED
  BY <1>2, <1>3, <1>4, <1>5, <1>6, <1>7, <1>8, <1>9 DEF Next

\* As long as no DATA is delivered after the download has finished, whoever
\* holds FileMutex finds every chunk of the map in the file at its exact size,
\* though SetData announces a chunk before it writes it: the last one, too,
\* unless ReceiveData read the tree at the wrong moment.
THEOREM DiskAlwaysBacksMap == Spec => []DiskBacksMap
<1>1. MapInv /\ LastInv /\ FileInv /\ [Next]_vars => (MapInv /\ LastInv /\ FileInv)'
  BY MapStep, LastStep, FileStep
<1>2. Init => MapInv /\ LastInv /\ FileInv
  BY InitMap, InitLast, InitFile
<1>3. FileInv => DiskBacksMap
  BY DEF FileInv, DiskBacksMap
<1> QED
  BY <1>1, <1>2, <1>3, PTL DEF Spec

-----------------------------------------------------------------------------
(* CheckFinish and the handshake *)

\* Each critical section keeps what CheckFinish has found so far, for every
\* order of it and of the SetData calls of the other threads.
LEMMA FinishInvStep == MapInv /\ FinishInv /\ [Next]_vars => FinishInv'
<1> SUFFICES ASSUME MapInv, FinishInv, [Next]_vars PROVE FinishInv'
  OBVIOUS
<1>0. TypeOK /\ RangesExact
  BY DEF MapInv
<1>1. had \subseteq had' /\ had' \subseteq Chunks
  <2>1. MapInv'
    BY MapStep
  <2>2. had' \subseteq Chunks
    BY <2>1 DEF MapInv, TypeOK
  <2>3. had \subseteq had'
    BY DEF Next, vars, ReceiveData, SetLastChunkIndex, SetLastChunkSize,
       SetDataOpen, SetDataFails, SetDataHave, SetDataRelease, SetDataWrite,
       SetDataLog, SetDataLogged, GetData, GetRequestLock, GetRequestScan,
       ReleaseRequested, CheckFinishScan, CheckFinishTest, CheckFinishClose,
       mapVars
  <2> QED
    BY <2>2, <2>3
<1>2. ASSUME NEW t \in Threads, CheckFinishScan(t)
      PROVE  FinishInv'
  <2> DEFINE f == FinishRange(ChunkRangeList)
  <2>1. f.Start >= 0 => f.End \in Nat /\ f.Start .. f.End \subseteq had
    BY <1>0, FinishRangeCovered DEF TypeOK, RangesExact
  <2>2. /\ found' = [found EXCEPT ![t] = f] /\ pc' = [pc EXCEPT ![t] = "test"]
        /\ had' = had /\ finished' = finished
    BY <1>2 DEF CheckFinishScan, goto, mapVars, history
  <2> HIDE DEF f
  <2> QED
    BY <1>0, <2>1, <2>2 DEF TypeOK, FinishInv
<1>3. ASSUME NEW t \in Threads, CheckFinishTest(t)
      PROVE  FinishInv'
  <2> DEFINE label == IF found[t] = [Start |-> 0, End |-> LastChunk]
                      THEN "close" ELSE "idle"
  <2>1. /\ pc[t] = "test" /\ pc' = [pc EXCEPT ![t] = label]
        /\ had' = had /\ finished' = finished
        /\ \A u \in Threads : u # t => found'[u] = found[u]
    BY <1>0, <1>3 DEF CheckFinishTest, goto, mapVars, history, TypeOK
  <2>2. label = "close" => had = Chunks
    <3>1. SUFFICES ASSUME found[t] = [Start |-> 0, End |-> LastChunk]
                   PROVE  had = Chunks
      OBVIOUS
    <3>2. found[t].Start = 0 /\ found[t].End = LastChunk
      BY <3>1
    <3>3. LastChunk \in Nat /\ 0..LastChunk \subseteq had
      BY <2>1, <3>2 DEF FinishInv
    <3>4. LastChunk \in Chunks
      BY <1>0, <3>3 DEF TypeOK
    <3>5. LastChunk = NumChunks - 1
      BY <1>0, <3>3, <3>4, PaddedEndAssumption, NumChunksAssumption
      DEF TypeOK, Chunks
    <3> QED
      BY <1>0, <3>3, <3>5 DEF TypeOK, Chunks
  <2>3. label \in {"close", "idle"}
    OBVIOUS
  <2> HIDE DEF label
  <2> QED
    BY <1>0, <2>1, <2>2, <2>3 DEF TypeOK, FinishInv
<1>4. ASSUME NEW t \in Threads, CheckFinishClose(t)
      PROVE  FinishInv'
  BY <1>0, <1>4 DEF CheckFinishClose, goto, mapVars, registers, TypeOK,
     FinishInv
<1>5. ASSUME found' = found, finished' = finished,
             \A u \in Threads : pc'[u] \in {"test", "close"} => pc'[u] = pc[u]
      PROVE  FinishInv'
  BY <1>1, <1>5 DEF FinishInv
<1>6. ASSUME NEW t \in Threads,
             \/ \E i \in Chunks : ReceiveData(t, i) \/ ReleaseRequested(t, i)
             \/ \E answer \in Answers : SetLastChunkIndex(t, answer)
             \/ SetLastChunkSize(t) \/ SetDataOpen(t) \/ SetDataFails(t)
             \/ SetDataHave(t) \/ SetDataRelease(t) \/ SetDataWrite(t)
             \/ SetDataLog(t) \/ SetDataLogged(t)
             \/ GetData(t) \/ GetRequestLock(t)
             \/ \E peer \in PeerLists : GetRequestScan(t, peer)
      PROVE  FinishInv'
  <2>1. found' = found /\ finished' = finished
    BY <1>6 DEF ReceiveData, SetLastChunkIndex, SetLastChunkSize,
       SetDataOpen, SetDataFails, SetDataHave, SetDataRelease, SetDataWrite,
       SetDataLog, SetDataLogged, GetData, GetRequestLock, GetRequestScan,
       ReleaseRequested, registers, history
  <2>2. \A u \in Threads : pc'[u] \in {"test", "close"} => pc'[u] = pc[u]
    BY <1>0, <1>6 DEF ReceiveData, SetLastChunkIndex, SetLastChunkSize,
       SetDataOpen, SetDataFails, SetDataHave, SetDataRelease, SetDataWrite,
       SetDataLog, SetDataLogged, GetData, GetRequestLock, GetRequestScan,
       ReleaseRequested, goto, TypeOK
  <2> QED
    BY <1>5, <2>1, <2>2
<1>7. CASE UNCHANGED vars
  BY <1>7 DEF vars, mapVars, registers, history, FinishInv
<1> QED
  BY <1>2, <1>3, <1>4, <1>6, <1>7 DEF Next

\* The invariant of CheckFinish holds in every reachable state.
THEOREM FinishInvariant == Spec => []FinishInv
<1>1. Init => FinishInv
  BY DEF Init, FinishInv
<1> QED
  BY <1>1, FinishInvStep, MapInvariant, PTL DEF Spec

\* CheckFinish closes the file only when every chunk of the content has been
\* stored, though it looks at the list, at LastChunk and at the file one after
\* the other, under different locks.
THEOREM FinishAlwaysSound == Spec => []FinishSound
<1>1. FinishInv => FinishSound
  BY DEF FinishInv, FinishSound
<1> QED
  BY <1>1, FinishInvariant, PTL

\* When every chunk is stored the rounds of CheckFinish find the whole range,
\* so a channel that finds nothing left to request is told so.
THEOREM FinishAlwaysComplete == Spec => []FinishComplete
<1>1. MapInv => FinishComplete
  <2>1. SUFFICES ASSUME MapInv, had = Chunks
                 PROVE  FinishRange(ChunkRangeList) = [Start |-> 0,
                                                       End |-> NumChunks - 1]
    BY DEF FinishComplete
  <2>2. NumChunks - 1 \in Nat
    BY NumChunksAssumption
  <2>3. /\ ChunkRangeList \in Seq(ChunkRangeSt) /\ Separated(ChunkRangeList)
        /\ Covered(ChunkRangeList) = 0..(NumChunks - 1)
    BY <2>1 DEF MapInv, TypeOK, RangesExact, Chunks
  <2> QED
    BY <2>2, <2>3, FinishRangeWhole
<1> QED
  BY <1>1, MapInvariant, PTL

\* "Content download finished.": from then on, until a DATA is delivered late,
\* the file holds every chunk at its exact size: the last one, too, unless
\* ReceiveData read the tree at the wrong moment.
THEOREM FinishedFileHolds == Spec => []FinishedFileComplete
<1>1. FinishInv /\ DiskBacksMap => FinishedFileComplete
  BY DEF FinishInv, DiskBacksMap, FinishedFileComplete
<1> QED
  BY <1>1, FinishInvariant, DiskAlwaysBacksMap, PTL

\* GetBiggestHavedChunkRange always answers a range the node has and that no
\* run of its chunks exceeds.
THEOREM AlwaysAnnouncesLongest == Spec => []AnnouncesLongestRun
<1>1. MapInv => AnnouncesLongestRun
  <2>1. SUFFICES ASSUME MapInv PROVE AnnouncesLongestRun
    OBVIOUS
  <2>2. NumChunks - 1 \in Nat /\ Chunks \subseteq Nat
    BY NumChunksAssumption DEF Chunks
  <2>3. /\ ChunkRangeList \in Seq(ChunkRangeSt) /\ Separated(ChunkRangeList)
        /\ Covered(ChunkRangeList) = had /\ had \subseteq 0..(NumChunks - 1)
    BY <2>1 DEF MapInv, TypeOK, RangesExact, Chunks
  <2> DEFINE r == BiggestHavedChunkRange(ChunkRangeList)
  <2>4. IF had = {} THEN r.Start = -1
        ELSE /\ r.Start .. r.End \subseteq had
             /\ \A a, b \in Nat : a..b \subseteq had => b - a <= r.End - r.Start
    BY <2>2, <2>3, BiggestRange
  <2> HIDE DEF r
  <2>5. IF had = {} THEN r.Start = -1
        ELSE /\ r.Start .. r.End \subseteq had
             /\ \A a, b \in had :
                    a..b \subseteq had => b - a <= r.End - r.Start
    BY <2>2, <2>3, <2>4 DEF Chunks
  <2> QED
    BY <2>5 DEF AnnouncesLongestRun, r
<1> QED
  BY <1>1, MapInvariant, PTL

-----------------------------------------------------------------------------
(* Refinement *)

\* An empty map is an empty store.
LEMMA StoreInit == Init => Store!Init
BY DEF Init, Store!Init, Covered

\* Each critical section is one operation of the store, or none.
LEMMA StoreStep == MapInv /\ [Next]_vars => [Store!Next]_(Store!vars)
<1> SUFFICES ASSUME MapInv, [Next]_vars PROVE [Store!Next]_(Store!vars)
  OBVIOUS
<1>0. TypeOK /\ Storing /\ RangesExact
  BY DEF MapInv
<1>a. MapInv'
  BY MapStep
<1>b. Covered(ChunkRangeList) = had /\ Covered(ChunkRangeList)' = had'
  BY <1>0, <1>a DEF MapInv, RangesExact
<1>1. ASSUME NEW t \in Threads, SetDataHave(t)
      PROVE  Store!Next
  <2>1. index[t] \in Chunks
    BY <1>0, <1>1 DEF SetDataHave, Storing
  <2>2. had' = had \cup {index[t]} /\ RequestedMap' = RequestedMap
    BY <1>1 DEF SetDataHave
  <2>3. Store!Store(index[t])
    BY <1>b, <2>2 DEF Store!Store
  <2> QED
    BY <2>1, <2>3 DEF Store!Next
<1>2. ASSUME NEW t \in Threads, SetDataRelease(t)
      PROVE  UNCHANGED Store!vars
  <2>1. index[t] \in had
    BY <1>0, <1>2 DEF SetDataRelease, Storing
  <2>2. had' = had /\ RequestedMap' = RequestedMap \ {index[t]}
    BY <1>2 DEF SetDataRelease, mapVars
  <2> QED
    BY <1>b, <2>1, <2>2 DEF Store!vars
<1>3. ASSUME NEW t \in Threads, NEW peer \in PeerLists, GetRequestScan(t, peer)
      PROVE  Store!Next \/ UNCHANGED Store!vars
  <2> DEFINE i == RequestIndex(ChunkRangeList, RequestedMap, index[t],
                               LastChunk, peer)
  <2>1. index[t] \in Int /\ LastChunk \in Int
    BY <1>0, NumChunksAssumption DEF TypeOK, Chunks
  <2>2. i = -1 \/ (i \in Chunks /\ i \notin had)
    BY <1>0, <1>b, <2>1, RequestIndexMissing DEF TypeOK
  <2>3. /\ RequestedMap' = IF i = -1 THEN RequestedMap ELSE RequestedMap \cup {i}
        /\ had' = had
    BY <1>3 DEF GetRequestScan, mapVars
  <2> HIDE DEF i
  <2>4. CASE i = -1
    BY <1>b, <2>3, <2>4 DEF Store!vars
  <2>5. CASE i # -1
    <3>1. Store!Request(i)
      BY <1>b, <2>2, <2>3, <2>5 DEF Store!Request
    <3> QED
      BY <2>2, <2>5, <3>1 DEF Store!Next
  <2> QED
    BY <2>4, <2>5
<1>4. ASSUME NEW t \in Threads, NEW i \in Chunks, ReleaseRequested(t, i)
      PROVE  Store!Next
  <2>1. had' = had /\ RequestedMap' = RequestedMap \ {i}
    BY <1>4 DEF ReleaseRequested, mapVars
  <2>2. Store!Release(i)
    BY <1>b, <2>1 DEF Store!Release
  <2> QED
    BY <2>2 DEF Store!Next
<1>5. ASSUME had' = had, RequestedMap' = RequestedMap
      PROVE  UNCHANGED Store!vars
  BY <1>b, <1>5 DEF Store!vars
<1>6. ASSUME NEW t \in Threads,
             \/ \E i \in Chunks : ReceiveData(t, i)
             \/ \E answer \in Answers : SetLastChunkIndex(t, answer)
             \/ SetLastChunkSize(t) \/ SetDataOpen(t) \/ SetDataFails(t)
             \/ SetDataWrite(t) \/ SetDataLog(t) \/ SetDataLogged(t)
             \/ GetData(t) \/ GetRequestLock(t)
             \/ CheckFinishScan(t) \/ CheckFinishTest(t) \/ CheckFinishClose(t)
      PROVE  had' = had /\ RequestedMap' = RequestedMap
  BY <1>6 DEF ReceiveData, SetLastChunkIndex, SetLastChunkSize, SetDataOpen,
     SetDataFails, SetDataWrite, SetDataLog, SetDataLogged, GetData,
     GetRequestLock, CheckFinishScan, CheckFinishTest, CheckFinishClose, mapVars
<1>7. CASE UNCHANGED vars
  BY <1>5, <1>7 DEF vars, mapVars
<1> QED
  BY <1>1, <1>2, <1>3, <1>4, <1>5, <1>6, <1>7 DEF Next

\* The map with its locks implements the abstract store: every critical section
\* is a step of it or changes nothing it can see.
THEOREM ImplementsStore == Spec => StoreSpec
BY StoreInit, StoreStep, MapInvariant, PTL DEF Spec, StoreSpec, Store!Spec
=============================================================================
