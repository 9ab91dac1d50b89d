------------------------ MODULE HashTreeCallsProofs -------------------------
(* The threads inside one hash tree never wait for each other in a circle,   *)
(* lose no hash between the maps, and serve what the peak hashes allow: for  *)
(* any number of chunks, threads and retries.                                *)
EXTENDS HashTreeCalls, MerkleTreeProofs

-----------------------------------------------------------------------------
(* The checks *)

\* If the check starts from a peak, it passes and has used all peaks, and no
\* other hash.
LEMMA CheckFromPeak ==
    ASSUME PeaksCheckable, NEW received, ContentPeaks \subseteq received,
           NEW m \in ContentPeaks, NEW k \in Levels, m = NodeOf(m.Start, k),
           IsStart(m, received)
    PROVE  LET map == received \ {m}
               top == Top(m.Start, k, LastIndex(PeakLeafCount(m.End)))
               needed == {r \in Siblings(m.Start, k, top) : TreeIndex(r) <= 2 * m.End}
           IN  /\ needed \subseteq map /\ Proves(m.Start, k, top, needed, map)
               /\ needed \cup {m} = ContentPeaks
BY WayFromPeak DEF Proves

\* If it starts from a sibling above the first chunk that was left on the map,
\* it needs a node that no seeder sends - unless half the tree is complete: then
\* it is the other half that it starts from, and the check passes.
LEMMA CheckFromSibling ==
    ASSUME NEW received, received \subseteq FirstSiblings \cup ContentPeaks,
           NEW m \in FirstSiblings, NEW k \in Levels, m = NodeOf(m.Start, k)
    PROVE  LET map == received \ {m}
               top == Top(m.Start, k, LastIndex(PeakLeafCount(m.End)))
               needed == {r \in Siblings(m.Start, k, top) : TreeIndex(r) <= 2 * m.End}
           IN  needed \subseteq map => Proves(m.Start, k, top, needed, map)
<1> DEFINE map == received \ {m}
           top == Top(m.Start, k, LastIndex(PeakLeafCount(m.End)))
           needed == {r \in Siblings(m.Start, k, top) : TreeIndex(r) <= 2 * m.End}
<1>0. /\ NumChunks \in Nat /\ LastChunk = NumChunks - 1 /\ 0 \in 0..(Leaves - 1)
      /\ Leaves \in Nat /\ Height \in Nat /\ Levels = 0..Height
  BY TreeFacts DEF LastChunk
<1>1. PICK j \in 0..(Height - 1) : m = SiblingOf(0, j)
  BY DEF FirstSiblings, Siblings
<1> DEFINE w == Width(j)
<1>2. /\ NodeOf(0, j).Start = 0 /\ NodeOf(0, j).End = w - 1
      /\ m.Start = w /\ m.End = Width(j + 1) - 1 /\ Width(j + 1) = 2 * w
      /\ w \in Nat \ {0} /\ NodeOf(0, j) \notin FirstSiblings
  BY <1>1, FirstNodes
<1>3. /\ m.Start \in 0..(Leaves - 1) /\ m.End \in 0..(Leaves - 1)
      /\ NodeOf(m.Start, j) = m /\ SiblingOf(m.Start, j) = NodeOf(0, j)
  BY <1>0, <1>1, HalvesInTree
<1>4. k = j
  <2>1. j \in Levels
    BY <1>0
  <2> QED
    BY <1>3, <2>1, LevelInTree
<1>5. PeakLeafCount(m.End) = 2 * w
  BY <1>2, LeafCountFirst
<1>6. LastIndex(PeakLeafCount(m.End)) = 2 * (2 * w - 1)
  BY <1>2, <1>5 DEF LastIndex
<1> HIDE DEF w
<1>7. top \in (j + 1)..Height
  <2> DEFINE last == LastIndex(PeakLeafCount(m.End))
  <2>1. last \in Int /\ last <= 2 * (Leaves - 1)
    BY <1>3, LeafCountFacts
  <2>2. top \in k..Height /\ TreeIndex(SiblingOf(m.Start, top)) > last
    <3> HIDE DEF last
    <3>1. /\ Top(m.Start, k, last) \in k..Height
          /\ TreeIndex(SiblingOf(m.Start, Top(m.Start, k, last))) > last
      BY <1>3, <2>1, TopFacts
    <3> QED
      BY <3>1 DEF last
  <2>3. TreeIndex(SiblingOf(m.Start, j)) = w - 1
    BY <1>2, <1>3 DEF TreeIndex
  <2>4. ~(w - 1 > 2 * (2 * w - 1))
    BY <1>2
  <2>5. top # j
    BY <1>6, <2>2, <2>3, <2>4
  <2> HIDE DEF top
  <2> QED
    BY <1>0, <1>4, <2>2, <2>5
<1> HIDE DEF top
<1>8. NodeOf(0, j) \in needed
  <2>1. j \in k..(top - 1)
    BY <1>0, <1>4, <1>7
  <2>2. NodeOf(0, j) \in Siblings(m.Start, k, top)
    BY <1>3, <2>1 DEF Siblings
  <2>3. TreeIndex(NodeOf(0, j)) <= 2 * m.End
    BY <1>2 DEF TreeIndex
  <2> QED
    BY <2>2, <2>3
<1>9. SUFFICES ASSUME needed \subseteq map
               PROVE  Proves(m.Start, k, top, needed, map)
  BY DEF top
<1>10. j = Height - 1
  <2>1. NodeOf(0, j) \in ContentPeaks
    BY <1>2, <1>8, <1>9
  <2>2. PICK l \in Levels : /\ NodeOf(0, j) = NodeOf(NodeOf(0, j).Start, l)
                            /\ SiblingOf(NodeOf(0, j).Start, l).End >= NumChunks
    BY <2>1 DEF ContentPeaks
  <2>3. NodeOf(0, j) = NodeOf(0, l) /\ SiblingOf(0, l).End >= NumChunks
    BY <1>2, <2>2
  <2>4. l = j
    <3>1. j \in Levels
      BY <1>0
    <3> QED
      BY <1>0, <2>3, <3>1, LevelInTree
  <2>5. Width(j + 1) - 1 >= NumChunks
    BY <1>1, <1>2, <2>3, <2>4
  <2>6. SUFFICES ASSUME j + 1 \in 0..(Height - 1) PROVE FALSE
    BY <1>0
  <2>7. Width(j + 1) - 1 < LastChunk
    BY <2>6, FirstNodes
  <2> QED
    BY <1>0, <1>2, <2>5, <2>7
<1>11. top = Height
  BY <1>0, <1>7, <1>10
<1>12. Siblings(m.Start, k, Height) \subseteq {NodeOf(0, j)}
  <2>1. \A l \in k..(Height - 1) : l = j
    BY <1>0, <1>4, <1>10
  <2> QED
    BY <1>3, <2>1 DEF Siblings
<1>13. \A r \in Siblings(m.Start, k, Height) : r \in needed /\ r \in map
  BY <1>8, <1>9, <1>12
<1> HIDE DEF needed, map
<1> QED
  BY <1>11, <1>13 DEF Proves

-----------------------------------------------------------------------------
(* Where a thread is *)

\* The threads that receive the content, and what they may be doing.
Loading == IF IsSeeder THEN {} ELSE Downloads

Serving == {"wait", "get", "get2", "integrity", "served"}
Checking == {"receive", "insert", "check", "first", "count", "path", "move",
             "passed", "peaks"}
MovingPeaks == {"peaks2", "peaks3", "peaks4", "peaks5"}

\* A thread receives or serves.
Role(t) ==
    /\ t \in Loading => pc[t] \in (Outside \cup Inside) \ Serving
    /\ t \notin Loading => pc[t] \in Serving

\* What is known where: the size of the tree after the first check, a chunk of
\* the content when it has passed, a stored one when it is served.
Started(t) ==
    /\ pc[t] \in {"count", "path", "move", "passed", "store", "ask", "peaks"} \cup MovingPeaks
          => ChunkRange # -1
    /\ pc[t] \in {"count", "move", "passed", "store", "peaks"} \cup MovingPeaks
          => chunk[t] \in Chunks
    /\ pc[t] \in Serving \ {"wait"} => chunk[t] \in stored
    /\ pc[t] = "insert" => t \notin DOMAIN IntegrityMap

SeederState ==
    IsSeeder => ChunkRange = NumChunks - 1 /\ HashTreeMap = Ranges /\ stored = Chunks

BaseInv ==
    /\ TypeOK
    /\ \A t \in Threads : Role(t) /\ Started(t)
    /\ SeederState

\* A request has only nodes of the tree sent.
LEMMA RequestTypes ==
    ASSUME TypeOK, NEW t \in Threads, NEW i \in 0..(Leaves - 1), SendRequest(t, i)
    PROVE  /\ chunk' \in [Threads -> -1..(Leaves - 1)]
           /\ inbox' \in [Threads -> SUBSET Ranges]
           /\ sent' \in [Threads -> SUBSET Ranges]
           /\ pc' \in [Threads -> Outside \cup Inside]
<1> DEFINE siblings == {r \in Siblings(i, 0, Height) : ~Padding(r)}
<1>1. siblings \subseteq Ranges /\ ContentPeaks \subseteq Ranges
  BY ChunkNodes
<1>2. /\ chunk' = [chunk EXCEPT ![t] = i]
      /\ sent' = [sent EXCEPT ![t] = @ \cup siblings]
      /\ inbox' = [inbox EXCEPT ![t] =
             (siblings \ sent[t]) \cup IF sent[t] = {} THEN ContentPeaks ELSE {}]
      /\ pc' = [pc EXCEPT ![t] = "receive"]
  BY DEF SendRequest, goto
<1> HIDE DEF siblings
<1>3. i \in -1..(Leaves - 1)
  BY TreeFacts
<1> QED
  BY <1>1, <1>2, <1>3 DEF TypeOK, Outside, Inside

\* SendNextRequest asks for a chunk of the content, or the thread has finished.
LEMMA NextRequest ==
    ASSUME NEW t \in Threads, SendNextRequest(t)
    PROVE  \/ \E i \in Chunks : SendRequest(t, i)
           \/ goto(t, "done") /\ UNCHANGED <<chunk, chanVars>>
<1> DEFINE requested == IF stored = {} THEN {}
                        ELSE {chunk[d] : d \in Downloads \ {t}} \ {ChunkRange}
           wanted == Chunks \ (stored \cup requested)
<1>1. IF wanted = {} THEN goto(t, "done") /\ UNCHANGED <<chunk, chanVars>>
                     ELSE SendRequest(t, Min(wanted))
  BY DEF SendNextRequest
<1>2. wanted \in SUBSET Nat
  BY ChunkNodes
<1> HIDE DEF requested
<1>3. wanted # {} => Min(wanted) \in wanted
  BY <1>2, MinInSet
<1> QED
  BY <1>1, <1>3

\* A first check that passes has gone up to the root.
LEMMA FirstResult ==
    ASSUME NEW t \in Threads, CheckFirst(t)
    PROVE  \/ /\ chunk[t] \in Chunks /\ ChunkRange' = Leaves - 1
              /\ tmpmap' = [tmpmap EXCEPT ![t] = Siblings(chunk[t], 0, Height)]
              /\ Lock(t, "IntegrityMap") /\ goto(t, "count")
           \/ Reject(t) /\ UNCHANGED <<ChunkRange, tmpmap, mutex>>
<1> DEFINE i == chunk[t]
           top == Min({k \in 0..(Height + 1) : SiblingOf(i, k) \notin Received(t)})
           used == Siblings(i, 0, top)
<1>1. CASE i \in Chunks /\ Proves(i, 0, top, used, used)
  <2>1. /\ ChunkRange' = NodeOf(i, top).End
        /\ tmpmap' = [tmpmap EXCEPT ![t] = used]
        /\ Lock(t, "IntegrityMap") /\ goto(t, "count")
    BY <1>1 DEF CheckFirst
  <2>2. top = Height
    BY <1>1 DEF Proves
  <2>3. NodeOf(i, Height) = [Start |-> 0, End |-> Leaves - 1]
    BY <1>1, ChunkNodes, RootInTree
  <2> HIDE DEF top
  <2>4. ChunkRange' = Leaves - 1
    BY <2>1, <2>2, <2>3
  <2> QED
    BY <1>1, <2>1, <2>2, <2>4
<1>2. CASE ~(i \in Chunks /\ Proves(i, 0, top, used, used))
  BY <1>2 DEF CheckFirst
<1> QED
  BY <1>1, <1>2

\* So has a later one, with every hash that proves the chunk from the channel or
\* from the tree.
LEMMA PathResult ==
    ASSUME NEW t \in Threads, CheckPath(t)
    PROVE  \/ /\ chunk[t] \in Chunks /\ goto(t, "move")
              /\ ContentSize' = (ContentSize \/ chunk[t] = ChunkRange)
              /\ \E used \in SUBSET (Received(t) \cap Siblings(chunk[t], 0, Height)) :
                    /\ tmpmap' = [tmpmap EXCEPT ![t] = used]
                    /\ Needed(chunk[t]) \subseteq used \cup HashTreeMap
           \/ Reject(t) /\ UNCHANGED <<ContentSize, tmpmap>>
<1> DEFINE i == chunk[t]
           top == Top(i, 0, (LeafNodeCount - 1) * 2)
           needed == {r \in Siblings(i, 0, top) : r.Start <= ChunkRange}
<1>1. PICK found \in Lookups(t, needed) :
         IF i \in Chunks /\ Proves(i, 0, top, needed, found \cup HashTreeMap)
         THEN /\ ContentSize' = (ContentSize \/ i = ChunkRange)
              /\ tmpmap' = [tmpmap EXCEPT ![t] = found]
              /\ goto(t, "move")
         ELSE Reject(t) /\ UNCHANGED <<ContentSize, tmpmap>>
  BY DEF CheckPath
<1>a. found \subseteq Received(t) \cap needed
  BY DEF Lookups
<1>2. CASE i \in Chunks /\ Proves(i, 0, top, needed, found \cup HashTreeMap)
  <2>1. /\ ContentSize' = (ContentSize \/ i = ChunkRange)
        /\ tmpmap' = [tmpmap EXCEPT ![t] = found]
        /\ goto(t, "move")
    BY <1>1, <1>2
  <2>2. /\ top = Height
        /\ \A r \in Siblings(i, 0, top) :
              IF r \in needed THEN r \in found \cup HashTreeMap ELSE Padding(r)
    BY <1>2 DEF Proves
  <2> HIDE DEF top
  <2>3. /\ needed \subseteq Siblings(i, 0, Height)
        /\ \A r \in Siblings(i, 0, Height) :
              IF r \in needed THEN r \in found \cup HashTreeMap ELSE Padding(r)
    BY <2>2
  <2> HIDE DEF needed
  <2>4. Needed(i) \subseteq found \cup HashTreeMap
    BY <2>3 DEF Needed
  <2>5. found \in SUBSET (Received(t) \cap Siblings(i, 0, Height))
    BY <1>a, <2>3
  <2> QED
    BY <1>2, <2>1, <2>4, <2>5
<1>3. CASE ~(i \in Chunks /\ Proves(i, 0, top, needed, found \cup HashTreeMap))
  BY <1>1, <1>3
<1> QED
  BY <1>2, <1>3

\* A check of the peak hashes starts from a hash of the map. It uses hashes of
\* the map and passes, or it is rejected, with the mutex or without.
PeaksPass(t, m, used) ==
    /\ ChunkRange' = m.End
    /\ tmpmap' = [tmpmap EXCEPT ![t] = used]
    /\ Lock(t, "IntegrityMap") /\ UNCHANGED IntegrityMap
    /\ goto(t, "peaks2")

PeaksFail(t, m) ==
    /\ IntegrityMap' = [IntegrityMap EXCEPT ![t] = Received(t) \ {m}]
    /\ Reject(t)
    /\ UNCHANGED <<ChunkRange, tmpmap>>

\* What CheckPeakHash does is one of the two.
LEMMA PeakResult ==
    ASSUME NEW t \in Threads, CheckPeakHash(t)
    PROVE  \E m \in Received(t) :
             /\ LeafNodeCount' = PeakLeafCount(m.End)
             /\ \/ \E used \in SUBSET Received(t) : PeaksPass(t, m, used)
                \/ /\ PeaksFail(t, m)
                   /\ mutex' \in {mutex, [mutex EXCEPT !["IntegrityMap"] = t]}
<1>1. PICK m \in Received(t), k \in Levels :
         LET map == Received(t) \ {m}
             count == PeakLeafCount(m.End)
             top == Top(m.Start, k, LastIndex(count))
             needed == {r \in Siblings(m.Start, k, top) : TreeIndex(r) <= 2 * m.End}
         IN  /\ LeafNodeCount' = count
             /\ IF needed \subseteq map /\ Proves(m.Start, k, top, needed, map)
                THEN PeaksPass(t, m, needed \cup {m})
                ELSE /\ PeaksFail(t, m)
                     /\ mutex' \in {mutex, [mutex EXCEPT !["IntegrityMap"] = t]}
  BY DEF CheckPeakHash, PeaksPass, PeaksFail
<1> DEFINE map == Received(t) \ {m}
           top == Top(m.Start, k, LastIndex(PeakLeafCount(m.End)))
           needed == {r \in Siblings(m.Start, k, top) : TreeIndex(r) <= 2 * m.End}
<1>2. CASE needed \subseteq map /\ Proves(m.Start, k, top, needed, map)
  <2>1. PeaksPass(t, m, needed \cup {m}) /\ needed \cup {m} \in SUBSET Received(t)
    BY <1>1, <1>2
  <2> HIDE DEF needed
  <2> QED
    BY <1>1, <2>1
<1>3. CASE ~(needed \subseteq map /\ Proves(m.Start, k, top, needed, map))
  BY <1>1, <1>3
<1> QED
  BY <1>2, <1>3

\* A step keeps the types.
LEMMA TypeStep ==
    ASSUME BaseInv, NEW t \in Threads, Step(t), UNCHANGED IsSeeder
    PROVE  TypeOK'
<1> USE DEF treeVars, chanVars, goto, Free, Lock, Unlock, Mutexes, Outside, Inside
<1>0. /\ TypeOK /\ Role(t) /\ Started(t) /\ SeederState
      /\ (t \in Loading => t \in Downloads)
      /\ (pc[t] \notin Serving => t \in Loading)
  BY DEF BaseInv, Role, Loading
<1>1. CASE Ask(t)
  <2>1. \/ \E i \in 0..(Leaves - 1) : SendRequest(t, i)
        \/ goto(t, "done") /\ UNCHANGED <<chunk, chanVars>>
    <3>1. SendNextRequest(t) \/ (pc[t] = "ask" /\ SendRequest(t, ChunkRange))
      BY <1>1 DEF Ask
    <3>2. pc[t] = "ask" => ChunkRange \in 0..(Leaves - 1)
      BY <1>0, TreeFacts DEF Started, TypeOK
    <3> QED
      BY <3>1, <3>2, NextRequest, ChunkNodes
  <2>2. /\ chunk' \in [Threads -> -1..(Leaves - 1)]
        /\ inbox' \in [Threads -> SUBSET Ranges]
        /\ sent' \in [Threads -> SUBSET Ranges]
        /\ pc' \in [Threads -> Outside \cup Inside]
    <3>1. CASE \E i \in 0..(Leaves - 1) : SendRequest(t, i)
      BY <1>0, <3>1, RequestTypes
    <3>2. CASE goto(t, "done") /\ UNCHANGED <<chunk, chanVars>>
      BY <1>0, <3>2 DEF TypeOK
    <3> QED
      BY <2>1, <3>1, <3>2
  <2> QED
    BY <1>0, <1>1, <2>2 DEF TypeOK, Ask
<1>2. CASE RetryRequest(t)
  <2>1. /\ chunk' = [chunk EXCEPT ![t] = -1] /\ -1 \in -1..(Leaves - 1)
        /\ tmpmap' = [tmpmap EXCEPT ![t] = {}]
    BY <1>2, TreeFacts DEF RetryRequest
  <2>2. pc' \in [Threads -> Outside \cup Inside]
    BY <1>0, <1>2 DEF RetryRequest, TypeOK
  <2>3. retries' \in [Threads -> 0..(RetryCount + 1)]
    <3>1. retries[t] \in 0..(RetryCount + 1) /\ RetryCount \in Nat
      BY <1>0, RetryAssumption DEF TypeOK
    <3>2. CASE retries[t] > RetryCount
      BY <1>0, <1>2, <3>2 DEF RetryRequest, TypeOK
    <3>3. CASE ~(retries[t] > RetryCount)
      <4>1. retries' = [retries EXCEPT ![t] = @ + 1]
        BY <1>2, <3>3 DEF RetryRequest
      <4>2. retries[t] + 1 \in 0..(RetryCount + 1)
        BY <3>1, <3>3
      <4> QED
        BY <1>0, <4>1, <4>2 DEF TypeOK
    <3> QED
      BY <3>2, <3>3
  <2> QED
    BY <1>0, <1>2, <2>1, <2>2, <2>3 DEF TypeOK, RetryRequest
<1>3. CASE AddIntegrity(t)
  BY <1>0, <1>3 DEF TypeOK, AddIntegrity, Serving
<1>4. CASE Inserted(t)
  BY <1>0, <1>4 DEF TypeOK, Inserted, Serving
<1>5. CASE CheckDataIntegrity(t)
  BY <1>0, <1>5 DEF TypeOK, CheckDataIntegrity
<1>6. CASE CheckFirst(t)
  <2>1. CASE /\ chunk[t] \in Chunks /\ ChunkRange' = Leaves - 1
             /\ tmpmap' = [tmpmap EXCEPT ![t] = Siblings(chunk[t], 0, Height)]
             /\ Lock(t, "IntegrityMap") /\ goto(t, "count")
    <3>1. ChunkRange' \in -1..(Leaves - 1) /\ Siblings(chunk[t], 0, Height) \subseteq Ranges
      <4>1. ChunkRange' \in -1..(Leaves - 1)
        BY <2>1, TreeFacts
      <4>2. chunk[t] \in 0..(Leaves - 1)
        BY <2>1, ChunkNodes
      <4> QED
        BY <4>1, <4>2, ChunkNodes
    <3> QED
      BY <1>0, <1>6, <2>1, <3>1 DEF TypeOK, CheckFirst
  <2>2. CASE Reject(t) /\ UNCHANGED <<ChunkRange, tmpmap, mutex>>
    BY <1>0, <1>6, <2>2 DEF TypeOK, CheckFirst, Reject
  <2> QED
    BY <1>6, <2>1, <2>2, FirstResult
<1>7. CASE SetLeafNodeCount(t)
  <2>1. chunk[t] \in Chunks
    BY <1>0, <1>7 DEF SetLeafNodeCount, Started
  <2>2. LeafNodeCount' \in 0..Leaves
    <3>1. NodeOf(chunk[t], Height) = [Start |-> 0, End |-> Leaves - 1]
      BY <2>1, ChunkNodes, RootInTree
    <3> QED
      BY <1>7, <3>1, TreeFacts DEF SetLeafNodeCount
  <2> QED
    BY <1>0, <1>7, <2>2 DEF TypeOK, SetLeafNodeCount
<1>8. CASE CheckPath(t)
  <2>1. /\ tmpmap' \in [Threads -> SUBSET Ranges]
        /\ ContentSize' \in BOOLEAN /\ pc' \in [Threads -> Outside \cup Inside]
    <3>1. Received(t) \subseteq Ranges
      BY <1>0 DEF TypeOK, Received
    <3>2. \/ /\ ContentSize' = (ContentSize \/ chunk[t] = ChunkRange)
             /\ \E used \in SUBSET Ranges : tmpmap' = [tmpmap EXCEPT ![t] = used]
             /\ goto(t, "move")
          \/ Reject(t) /\ UNCHANGED <<ContentSize, tmpmap>>
      BY <1>8, <3>1, PathResult
    <3> QED
      BY <1>0, <3>2 DEF TypeOK, Reject
  <2> QED
    BY <1>0, <1>8, <2>1 DEF TypeOK, CheckPath
<1>9. CASE MoveToTree(t)
  BY <1>0, <1>9 DEF TypeOK, MoveToTree
<1>10. CASE Passed(t)
  BY <1>0, <1>10 DEF TypeOK, Passed, Reject, WhileChecking
<1>11. CASE CheckPeakHash(t)
  <2>1. PICK m \in Received(t) :
           /\ LeafNodeCount' = PeakLeafCount(m.End)
           /\ \/ \E used \in SUBSET Received(t) : PeaksPass(t, m, used)
              \/ /\ PeaksFail(t, m)
                 /\ mutex' \in {mutex, [mutex EXCEPT !["IntegrityMap"] = t]}
    BY <1>11, PeakResult
  <2>2. /\ t \in DOMAIN IntegrityMap /\ Received(t) = IntegrityMap[t]
        /\ m \in Ranges /\ Received(t) \subseteq Ranges
    BY <1>0 DEF TypeOK, Received
  <2>3. m.End \in 0..(Leaves - 1)
    BY <2>2, RangeFacts, TreeFacts
  <2>4. LeafNodeCount' \in 0..Leaves
    BY <2>1, <2>3, LeafCountFacts
  <2>5. CASE \E used \in SUBSET Received(t) : PeaksPass(t, m, used)
    <3>1. PICK used \in SUBSET Ranges : PeaksPass(t, m, used)
      BY <2>2, <2>5
    <3>2. ChunkRange' \in -1..(Leaves - 1)
      BY <2>3, <3>1, TreeFacts DEF PeaksPass
    <3> QED
      BY <1>0, <1>11, <2>4, <3>1, <3>2 DEF TypeOK, CheckPeakHash, PeaksPass
  <2>6. CASE /\ PeaksFail(t, m)
             /\ mutex' \in {mutex, [mutex EXCEPT !["IntegrityMap"] = t]}
    <3>1. mutex' \in [Mutexes -> Threads \cup {NoThread}]
      BY <1>0, <2>6 DEF TypeOK
    <3>2. /\ DOMAIN IntegrityMap' \subseteq Downloads
          /\ \A d \in DOMAIN IntegrityMap' : IntegrityMap'[d] \subseteq Ranges
      BY <1>0, <2>2, <2>6 DEF TypeOK, PeaksFail
    <3> QED
      BY <1>0, <1>11, <2>4, <2>6, <3>1, <3>2 DEF TypeOK, CheckPeakHash, Reject, PeaksFail
  <2> QED
    BY <2>1, <2>5, <2>6
<1>12. CASE LockTree(t)
  BY <1>0, <1>12 DEF TypeOK, LockTree
<1>13. CASE MovePeaks(t)
  BY <1>0, <1>13 DEF TypeOK, MovePeaks
<1>14. CASE PeaksMade(t)
  BY <1>0, <1>14 DEF TypeOK, PeaksMade
<1>15. CASE SetData(t)
  <2>1. chunk[t] \in Chunks
    BY <1>0, <1>15 DEF SetData, Started
  <2>2. /\ chunk' = [chunk EXCEPT ![t] = -1] /\ -1 \in -1..(Leaves - 1)
        /\ retries' = [retries EXCEPT ![t] = 0] /\ 0 \in 0..(RetryCount + 1)
        /\ pc' = [pc EXCEPT ![t] = "ask"]
    BY <1>15, TreeFacts, RetryAssumption DEF SetData
  <2> QED
    BY <1>0, <1>15, <2>1, <2>2 DEF TypeOK, SetData
<1>16. CASE ReceiveRequest(t)
  <2>1. PICK i \in stored : chunk' = [chunk EXCEPT ![t] = i]
    BY <1>16 DEF ReceiveRequest
  <2>2. i \in 0..(Leaves - 1)
    BY <1>0, ChunkNodes DEF TypeOK
  <2>3. i \in -1..(Leaves - 1)
    BY <2>2, TreeFacts
  <2> QED
    BY <1>0, <1>16, <2>1, <2>3 DEF TypeOK, ReceiveRequest
<1>17. CASE GetPeakHashes(t)
  <2>1. /\ pc' \in [Threads -> Outside \cup Inside]
        /\ tmpmap' \in [Threads -> SUBSET Ranges]
        /\ IsPeakMapCreated' \in BOOLEAN
    <3>1. /\ tmpmap' = tmpmap \/ tmpmap' = [tmpmap EXCEPT ![t] = PeakHashMap]
          /\ pc' = [pc EXCEPT ![t] = "integrity"] \/ pc' = [pc EXCEPT ![t] = "get2"]
      BY <1>17 DEF GetPeakHashes
    <3>2. IsPeakMapCreated' = IsPeakMapCreated \/ IsPeakMapCreated' = TRUE
      BY <1>17 DEF GetPeakHashes
    <3> QED
      BY <1>0, <3>1, <3>2 DEF TypeOK
  <2>2. mutex' \in [Mutexes -> Threads \cup {NoThread}]
    <3>1. mutex' = mutex \/ mutex' = [mutex EXCEPT !["PeakHashMap"] = t]
      BY <1>17 DEF GetPeakHashes
    <3> QED
      BY <1>0, <3>1 DEF TypeOK
  <2> QED
    BY <1>0, <1>17, <2>1, <2>2 DEF TypeOK, GetPeakHashes
<1>18. CASE GetPeaksOfTree(t)
  <2>1. /\ IsSeeder => PeakHashMap' \subseteq Ranges /\ tmpmap' \in [Threads -> SUBSET Ranges]
        /\ ~IsSeeder => PeakHashMap' = PeakHashMap
                        /\ tmpmap' = [tmpmap EXCEPT ![t] = {}]
    <3> DEFINE node(k) == NodeOf(ChunkRange, k)
               sibling(k) == SiblingOf(ChunkRange, k)
               complete(r) == r.End <= ChunkRange
               peaks == {node(k) : k \in {j \in Levels :
                              complete(node(j)) /\ ~complete(sibling(j))}} \cup
                        {sibling(k) : k \in {j \in Levels :
                              complete(sibling(j)) /\ ~complete(node(j))}}
    <3>1. /\ PeakHashMap' = IF IsSeeder THEN PeakHashMap \cup peaks ELSE PeakHashMap
          /\ tmpmap' = [tmpmap EXCEPT ![t] = IF IsSeeder THEN peaks ELSE {}]
      BY <1>18 DEF GetPeaksOfTree
    <3>2. ASSUME IsSeeder PROVE peaks \subseteq Ranges
      <4>1. ChunkRange = LastChunk /\ LastChunk \in 0..(Leaves - 1)
        BY <1>0, <3>2, TreeFacts DEF SeederState, LastChunk
      <4>2. ASSUME NEW k \in Levels, complete(node(k)) PROVE node(k) \in Ranges
        BY <4>1, <4>2, NodeInTree
      <4>3. ASSUME NEW k \in Levels, complete(sibling(k)) PROVE sibling(k) \in Ranges
        <5>1. k # Height
          <6>1. SUFFICES ASSUME k = Height PROVE FALSE
            OBVIOUS
          <6>2. sibling(Height).End = 2 * Leaves - 1
            BY <4>1, RootInTree
          <6> QED
            BY <4>1, <4>3, <6>1, <6>2, TreeFacts
        <5>2. k \in 0..(Height - 1)
          BY <5>1, TreeFacts
        <5> QED
          BY <4>1, <5>2, SiblingInTree
      <4> QED
        BY <4>2, <4>3
    <3> HIDE DEF peaks
    <3> QED
      BY <1>0, <3>1, <3>2 DEF TypeOK
  <2> QED
    BY <1>0, <1>18, <2>1 DEF TypeOK, GetPeaksOfTree
<1>19. CASE GetDataIntegrity(t)
  <2> DEFINE i == chunk[t]
             Missing == {k \in 0..(Height + 1) : SiblingOf(i, k) \notin HashTreeMap}
             top == Min(Missing)
             new == {r \in Siblings(i, 0, top) : ~Padding(r)}
  <2>1. i \in 0..(Leaves - 1)
    <3>1. i \in stored
      BY <1>0, <1>19 DEF GetDataIntegrity, Started, Serving
    <3> QED
      BY <1>0, <3>1, ChunkNodes DEF TypeOK
  <2>2. Height \in Missing
    <3>1. Height \in 0..(Height + 1)
      BY TreeFacts
    <3> QED
      BY <1>0, <2>1, <3>1, SiblingBeyond DEF TypeOK
  <2>3. Missing \in SUBSET Nat
    BY TreeFacts
  <2> HIDE DEF Missing, i
  <2>4. top \in Nat /\ top <= Height
    BY <2>2, <2>3, MinInSet
  <2> HIDE DEF top
  <2>5. new \subseteq Ranges
    <3>1. 0 \in Levels /\ top \in Int
      BY <2>4, TreeFacts
    <3> QED
      BY <2>1, <2>4, <3>1, SiblingsInTree
  <2>6. sent' = [sent EXCEPT ![t] = new] /\ goto(t, "served")
    BY <1>19 DEF GetDataIntegrity, Missing, top, i
  <2> HIDE DEF new
  <2> QED
    BY <1>0, <1>19, <2>5, <2>6 DEF TypeOK, GetDataIntegrity
<1> QED
  BY <1>1, <1>2, <1>3, <1>4, <1>5, <1>6, <1>7, <1>8, <1>9, <1>10, <1>11, <1>12,
     <1>13, <1>14, <1>15, <1>16, <1>17, <1>18, <1>19 DEF Step

-----------------------------------------------------------------------------
(* What a step of one thread leaves alone *)

\* What is another thread's stays: where it is, its chunk, and the hashes on
\* their way from its inbox over its part of IntegrityMap to the tree.
OthersKeep(t) ==
    \A d \in Threads \ {t} :
        /\ pc'[d] = pc[d] /\ chunk'[d] = chunk[d]
        /\ tmpmap'[d] = tmpmap[d] /\ inbox'[d] = inbox[d] /\ sent'[d] = sent[d]
        /\ d \in DOMAIN IntegrityMap' <=> d \in DOMAIN IntegrityMap
        /\ Received(d)' = Received(d)

\* The tree and what is stored grow, what is known of the content stays known,
\* and only the thread itself takes a mutex.
SharedGrows(t) ==
    /\ HashTreeMap \subseteq HashTreeMap' /\ PeakHashMap \subseteq PeakHashMap'
    /\ stored \subseteq stored'
    /\ ChunkRange # -1 => ChunkRange' # -1
    /\ IsFirstData' => IsFirstData
    /\ IsPeakMapCreated => IsPeakMapCreated'
    /\ \A x \in Mutexes : mutex'[x] \in {mutex[x], t, NoThread}

\* A step changes nothing that another thread works on.
LEMMA OthersStep ==
    ASSUME BaseInv, NEW t \in Threads, Step(t)
    PROVE  OthersKeep(t)
<1> USE DEF treeVars, chanVars, goto
<1>0. /\ TypeOK
      /\ pc \in [Threads -> Outside \cup Inside]
      /\ chunk \in [Threads -> -1..(Leaves - 1)]
      /\ tmpmap \in [Threads -> SUBSET Ranges]
      /\ inbox \in [Threads -> SUBSET Ranges] /\ sent \in [Threads -> SUBSET Ranges]
  BY DEF BaseInv, TypeOK
<1>a. SUFFICES ASSUME NEW d \in Threads \ {t}
               PROVE  /\ pc'[d] = pc[d] /\ chunk'[d] = chunk[d]
                      /\ tmpmap'[d] = tmpmap[d] /\ inbox'[d] = inbox[d] /\ sent'[d] = sent[d]
                      /\ d \in DOMAIN IntegrityMap' <=> d \in DOMAIN IntegrityMap
                      /\ Received(d)' = Received(d)
  BY DEF OthersKeep
<1>b. ASSUME UNCHANGED IntegrityMap
      PROVE  /\ d \in DOMAIN IntegrityMap' <=> d \in DOMAIN IntegrityMap
             /\ Received(d)' = Received(d)
  BY <1>b DEF Received
<1>1. CASE Ask(t)
  <2>1. \/ \E i \in Int : SendRequest(t, i)
        \/ goto(t, "done") /\ UNCHANGED <<chunk, chanVars>>
    <3>1. \A i \in Chunks : i \in Int
      BY ChunkNodes
    <3>2. ChunkRange \in Int
      BY <1>0, TreeFacts DEF TypeOK
    <3> QED
      BY <1>1, <3>1, <3>2, NextRequest DEF Ask
  <2>2. /\ pc'[d] = pc[d] /\ chunk'[d] = chunk[d] /\ inbox'[d] = inbox[d] /\ sent'[d] = sent[d]
    <3>1. CASE \E i \in Int : SendRequest(t, i)
      BY <1>0, <3>1 DEF SendRequest
    <3>2. CASE goto(t, "done") /\ UNCHANGED <<chunk, chanVars>>
      BY <1>0, <3>2
    <3> QED
      BY <2>1, <3>1, <3>2
  <2> QED
    BY <1>1, <1>b, <2>2 DEF Ask
<1>2. CASE RetryRequest(t)
  BY <1>0, <1>2, <1>b DEF RetryRequest
<1>3. CASE AddIntegrity(t)
  BY <1>0, <1>3 DEF AddIntegrity, Received
<1>4. CASE Inserted(t)
  BY <1>0, <1>4 DEF Inserted, Received
<1>5. CASE CheckDataIntegrity(t)
  BY <1>0, <1>5, <1>b DEF CheckDataIntegrity
<1>6. CASE CheckFirst(t)
  BY <1>0, <1>6, <1>b DEF CheckFirst, Reject
<1>7. CASE SetLeafNodeCount(t)
  BY <1>0, <1>7, <1>b DEF SetLeafNodeCount
<1>8. CASE CheckPath(t)
  BY <1>0, <1>8, <1>b DEF CheckPath, Reject
<1>9. CASE MoveToTree(t)
  BY <1>0, <1>9 DEF MoveToTree, Received
<1>10. CASE Passed(t)
  BY <1>0, <1>10, <1>b DEF Passed, Reject
<1>11. CASE CheckPeakHash(t)
  BY <1>0, <1>11 DEF CheckPeakHash, Reject, Received
<1>12. CASE LockTree(t)
  BY <1>0, <1>12, <1>b DEF LockTree
<1>13. CASE MovePeaks(t)
  BY <1>0, <1>13 DEF MovePeaks, Received
<1>14. CASE PeaksMade(t)
  BY <1>0, <1>14, <1>b DEF PeaksMade
<1>15. CASE SetData(t)
  BY <1>0, <1>15, <1>b DEF SetData
<1>16. CASE ReceiveRequest(t)
  BY <1>0, <1>16, <1>b DEF ReceiveRequest
<1>17. CASE GetPeakHashes(t)
  BY <1>0, <1>17, <1>b DEF GetPeakHashes
<1>18. CASE GetPeaksOfTree(t)
  BY <1>0, <1>18, <1>b DEF GetPeaksOfTree
<1>19. CASE GetDataIntegrity(t)
  BY <1>0, <1>19, <1>b DEF GetDataIntegrity
<1> QED
  BY <1>1, <1>2, <1>3, <1>4, <1>5, <1>6, <1>7, <1>8, <1>9, <1>10, <1>11, <1>12,
     <1>13, <1>14, <1>15, <1>16, <1>17, <1>18, <1>19 DEF Step

\* Nor does it take anything back that the threads share.
LEMMA SharedStep ==
    ASSUME BaseInv, NEW t \in Threads, Step(t)
    PROVE  SharedGrows(t)
<1> USE DEF SharedGrows, treeVars, chanVars, Lock, Unlock
<1>0. /\ TypeOK /\ mutex \in [Mutexes -> Threads \cup {NoThread}]
      /\ IsFirstData \in BOOLEAN /\ IsPeakMapCreated \in BOOLEAN
  BY DEF BaseInv, TypeOK
<1>1. CASE Ask(t)
  BY <1>1 DEF Ask
<1>2. CASE RetryRequest(t)
  BY <1>2 DEF RetryRequest
<1>3. CASE AddIntegrity(t)
  BY <1>0, <1>3 DEF AddIntegrity
<1>4. CASE Inserted(t)
  BY <1>0, <1>4 DEF Inserted
<1>5. CASE CheckDataIntegrity(t)
  BY <1>5 DEF CheckDataIntegrity
<1>6. CASE CheckFirst(t)
  <2>1. ChunkRange' = Leaves - 1 \/ ChunkRange' = ChunkRange
    BY <1>6, FirstResult
  <2>2. ChunkRange # -1 => ChunkRange' # -1
    BY <2>1, TreeFacts
  <2> QED
    BY <1>0, <1>6, <2>2 DEF CheckFirst
<1>7. CASE SetLeafNodeCount(t)
  BY <1>7 DEF SetLeafNodeCount
<1>8. CASE CheckPath(t)
  BY <1>8 DEF CheckPath
<1>9. CASE MoveToTree(t)
  BY <1>0, <1>9 DEF MoveToTree
<1>10. CASE Passed(t)
  BY <1>0, <1>10 DEF Passed, WhileChecking
<1>11. CASE CheckPeakHash(t)
  <2>1. PICK m \in Received(t) :
           \/ \E used \in SUBSET Received(t) : PeaksPass(t, m, used)
           \/ /\ PeaksFail(t, m)
              /\ mutex' \in {mutex, [mutex EXCEPT !["IntegrityMap"] = t]}
    BY <1>11, PeakResult
  <2>2. m \in Ranges
    BY <1>0 DEF TypeOK, Received
  <2>3. ChunkRange # -1 => ChunkRange' # -1
    BY <2>1, <2>2, RangeFacts DEF PeaksPass, PeaksFail
  <2>4. \A x \in Mutexes : mutex'[x] \in {mutex[x], t, NoThread}
    BY <1>0, <2>1 DEF PeaksPass, PeaksFail
  <2> QED
    BY <1>11, <2>3, <2>4 DEF CheckPeakHash
<1>12. CASE LockTree(t)
  BY <1>0, <1>12 DEF LockTree
<1>13. CASE MovePeaks(t)
  BY <1>0, <1>13 DEF MovePeaks
<1>14. CASE PeaksMade(t)
  BY <1>0, <1>14 DEF PeaksMade
<1>15. CASE SetData(t)
  BY <1>15 DEF SetData
<1>16. CASE ReceiveRequest(t)
  BY <1>16 DEF ReceiveRequest
<1>17. CASE GetPeakHashes(t)
  BY <1>0, <1>17 DEF GetPeakHashes
<1>18. CASE GetPeaksOfTree(t)
  BY <1>0, <1>18 DEF GetPeaksOfTree
<1>19. CASE GetDataIntegrity(t)
  BY <1>19 DEF GetDataIntegrity
<1> QED
  BY <1>1, <1>2, <1>3, <1>4, <1>5, <1>6, <1>7, <1>8, <1>9, <1>10, <1>11, <1>12,
     <1>13, <1>14, <1>15, <1>16, <1>17, <1>18, <1>19 DEF Step

\* A thread that serves only serves.
LEMMA ServingStep ==
    ASSUME NEW t \in Threads, Step(t), pc[t] \in Serving
    PROVE  \/ ReceiveRequest(t) \/ GetPeakHashes(t) \/ GetPeaksOfTree(t)
           \/ GetDataIntegrity(t)
<1>1. ~Ask(t) /\ ~RetryRequest(t) /\ ~AddIntegrity(t) /\ ~Inserted(t)
  BY DEF Ask, RetryRequest, AddIntegrity, Inserted, Serving
<1>2. ~CheckDataIntegrity(t) /\ ~CheckFirst(t) /\ ~SetLeafNodeCount(t) /\ ~CheckPath(t)
  BY DEF CheckDataIntegrity, CheckFirst, SetLeafNodeCount, CheckPath, Serving
<1>3. ~MoveToTree(t) /\ ~Passed(t) /\ ~CheckPeakHash(t) /\ ~LockTree(t)
  BY DEF MoveToTree, Passed, CheckPeakHash, LockTree, Serving
<1>4. ~MovePeaks(t) /\ ~PeaksMade(t) /\ ~SetData(t)
  BY DEF MovePeaks, PeaksMade, SetData, Serving
<1> QED
  BY <1>1, <1>2, <1>3, <1>4 DEF Step

\* A thread stays with receiving or with serving.
LEMMA RoleStep ==
    ASSUME BaseInv, NEW t \in Threads, Step(t), UNCHANGED IsSeeder
    PROVE  Role(t)' /\ Started(t)'
<1> USE DEF treeVars, chanVars, goto, Reject
<1>0. /\ TypeOK /\ Role(t) /\ Started(t) /\ SharedGrows(t) /\ TypeOK'
      /\ pc \in [Threads -> Outside \cup Inside]
      /\ chunk \in [Threads -> -1..(Leaves - 1)]
      /\ Loading' = Loading
  BY TypeStep, SharedStep DEF BaseInv, TypeOK, Loading
<1>1. CASE pc[t] \in Serving
  <2>1. t \notin Loading
    BY <1>0, <1>1 DEF Role
  <2>2. chunk[t] \in stored => chunk[t] \in stored'
    BY <1>0 DEF SharedGrows
  <2>3. CASE ReceiveRequest(t)
    <3>1. PICK i \in stored : chunk' = [chunk EXCEPT ![t] = i]
      BY <2>3 DEF ReceiveRequest
    <3>2. pc'[t] = "get" /\ chunk'[t] \in stored'
      BY <1>0, <2>3, <3>1 DEF ReceiveRequest
    <3> QED
      BY <1>0, <2>1, <3>2 DEF Role, Started, Serving, MovingPeaks
  <2>4. CASE GetPeakHashes(t)
    <3>1. pc'[t] \in {"integrity", "get2"} /\ chunk'[t] = chunk[t] /\ pc[t] = "get"
      BY <1>0, <2>4 DEF GetPeakHashes
    <3> QED
      BY <1>0, <2>1, <2>2, <3>1 DEF Role, Started, Serving, MovingPeaks
  <2>5. CASE GetPeaksOfTree(t)
    <3>1. pc'[t] = "integrity" /\ chunk'[t] = chunk[t] /\ pc[t] = "get2"
      BY <1>0, <2>5 DEF GetPeaksOfTree
    <3> QED
      BY <1>0, <2>1, <2>2, <3>1 DEF Role, Started, Serving, MovingPeaks
  <2>6. CASE GetDataIntegrity(t)
    <3>1. pc'[t] = "served" /\ chunk'[t] = chunk[t] /\ pc[t] = "integrity"
      BY <1>0, <2>6 DEF GetDataIntegrity
    <3> QED
      BY <1>0, <2>1, <2>2, <3>1 DEF Role, Started, Serving, MovingPeaks
  <2> QED
    BY <1>1, <2>3, <2>4, <2>5, <2>6, ServingStep
<1>2. CASE pc[t] \notin Serving
  <2>0. t \in Loading
    BY <1>0, <1>2 DEF Role
  <2>a. SUFFICES /\ pc'[t] \notin Serving
                 /\ pc'[t] \in {"count", "path", "move", "passed", "store", "ask",
                               "peaks"} \cup MovingPeaks => ChunkRange' # -1
                 /\ pc'[t] \in {"count", "move", "passed", "store", "peaks"}
                       \cup MovingPeaks => chunk'[t] \in Chunks
                 /\ pc'[t] = "insert" => t \notin DOMAIN IntegrityMap'
    <3>1. pc'[t] \in Outside \cup Inside
      BY <1>0 DEF TypeOK
    <3> QED
      BY <1>0, <2>0, <3>1 DEF Role, Started
  <2> USE DEF Serving, MovingPeaks
  <2>1. CASE Ask(t)
    <3>1. pc'[t] \in {"receive", "done"}
      <4>1. (\E i \in Int : SendRequest(t, i)) \/ goto(t, "done")
        <5>1. \A i \in Chunks : i \in Int
          BY ChunkNodes
        <5>2. ChunkRange \in Int
          BY <1>0, TreeFacts DEF TypeOK
        <5> QED
          BY <2>1, <5>1, <5>2, NextRequest DEF Ask
      <4> QED
        BY <1>0, <4>1 DEF SendRequest
    <3> QED
      BY <3>1
  <2>2. CASE RetryRequest(t)
    <3>1. pc'[t] \in {"next", "done"}
      BY <1>0, <2>2 DEF RetryRequest
    <3> QED
      BY <3>1
  <2>3. CASE AddIntegrity(t)
    <3>1. \/ pc'[t] = "check"
          \/ pc'[t] = "insert" /\ t \notin DOMAIN IntegrityMap'
      BY <1>0, <2>3 DEF AddIntegrity
    <3> QED
      BY <3>1
  <2>4. CASE Inserted(t)
    <3>1. pc'[t] = "receive"
      BY <1>0, <2>4 DEF Inserted
    <3> QED
      BY <3>1
  <2>5. CASE CheckDataIntegrity(t)
    <3>1. pc'[t] = "first" \/ (pc'[t] = "path" /\ ~(ChunkRange < 0) /\ ChunkRange' = ChunkRange)
      BY <1>0, <2>5 DEF CheckDataIntegrity
    <3> QED
      BY <3>1
  <2>6. CASE CheckFirst(t)
    <3>1. \/ chunk[t] \in Chunks /\ ChunkRange' = Leaves - 1 /\ goto(t, "count")
          \/ Reject(t)
      BY <2>6, FirstResult
    <3>2. chunk' = chunk
      BY <2>6 DEF CheckFirst
    <3>3. CASE chunk[t] \in Chunks /\ ChunkRange' = Leaves - 1 /\ goto(t, "count")
      BY <1>0, <3>2, <3>3, TreeFacts
    <3>4. CASE Reject(t)
      <4>1. pc'[t] = "rejected"
        BY <1>0, <3>4
      <4> QED
        BY <4>1
    <3> QED
      BY <3>1, <3>3, <3>4
  <2>7. CASE SetLeafNodeCount(t)
    BY <1>0, <2>7 DEF SetLeafNodeCount, Started
  <2>8. CASE CheckPath(t)
    <3>1. (chunk[t] \in Chunks /\ goto(t, "move")) \/ Reject(t)
      BY <2>8, PathResult
    <3>2. chunk' = chunk /\ ChunkRange' = ChunkRange /\ pc[t] = "path"
      BY <2>8 DEF CheckPath
    <3>3. \/ chunk'[t] \in Chunks /\ pc'[t] = "move" /\ ChunkRange' # -1
          \/ pc'[t] = "rejected"
      BY <1>0, <3>1, <3>2 DEF Started
    <3> QED
      BY <3>3
  <2>9. CASE MoveToTree(t)
    BY <1>0, <2>9 DEF MoveToTree, Started
  <2>10. CASE Passed(t)
    <3>1. /\ pc'[t] \in {"store", "rejected", "peaks"} /\ pc[t] = "passed"
          /\ chunk' = chunk /\ ChunkRange' = ChunkRange
      BY <1>0, <2>10 DEF Passed
    <3> QED
      BY <1>0, <3>1 DEF Started
  <2>11. CASE CheckPeakHash(t)
    <3>1. /\ pc'[t] \in {"peaks2", "rejected"} /\ pc[t] = "peaks" /\ chunk' = chunk
      <4>1. goto(t, "peaks2") \/ Reject(t)
        BY <2>11, PeakResult DEF PeaksPass, PeaksFail
      <4> QED
        BY <1>0, <2>11, <4>1 DEF CheckPeakHash
    <3> QED
      BY <1>0, <3>1 DEF Started, SharedGrows
  <2>12. CASE LockTree(t)
    BY <1>0, <2>12 DEF LockTree, Started
  <2>13. CASE MovePeaks(t)
    BY <1>0, <2>13 DEF MovePeaks, Started
  <2>14. CASE PeaksMade(t)
    <3>1. /\ pc'[t] \in {"peaks5", "store"} /\ pc[t] \in MovingPeaks
          /\ chunk' = chunk /\ ChunkRange' = ChunkRange
      BY <1>0, <2>14 DEF PeaksMade
    <3> QED
      BY <1>0, <3>1 DEF Started
  <2>15. CASE SetData(t)
    <3>1. pc'[t] = "ask" /\ pc[t] = "store" /\ ChunkRange' = ChunkRange
      BY <1>0, <2>15 DEF SetData
    <3> QED
      BY <1>0, <3>1 DEF Started
  <2>16. ~ReceiveRequest(t) /\ ~GetPeakHashes(t) /\ ~GetPeaksOfTree(t) /\ ~GetDataIntegrity(t)
    BY <1>2 DEF ReceiveRequest, GetPeakHashes, GetPeaksOfTree, GetDataIntegrity
  <2> QED
    BY <2>1, <2>2, <2>3, <2>4, <2>5, <2>6, <2>7, <2>8, <2>9, <2>10, <2>11, <2>12,
       <2>13, <2>14, <2>15, <2>16 DEF Step
<1> QED
  BY <1>1, <1>2

\* The types, the roles and what a seeder has are kept by a step,
LEMMA BaseStep ==
    ASSUME BaseInv, NEW t \in Threads, Step(t), UNCHANGED IsSeeder
    PROVE  BaseInv'
<1>0. /\ TypeOK' /\ Role(t)' /\ Started(t)' /\ OthersKeep(t) /\ SharedGrows(t)
      /\ Loading' = Loading /\ \A d \in Threads : Role(d) /\ Started(d)
  BY TypeStep, RoleStep, OthersStep, SharedStep DEF Loading, BaseInv
<1>1. ASSUME NEW d \in Threads \ {t} PROVE Role(d)' /\ Started(d)'
  <2>1. /\ pc'[d] = pc[d] /\ chunk'[d] = chunk[d]
        /\ d \in DOMAIN IntegrityMap' <=> d \in DOMAIN IntegrityMap
    BY <1>0 DEF OthersKeep
  <2> QED
    BY <1>0, <2>1 DEF Role, Started, SharedGrows
<1>2. SeederState'
  <2>1. SUFFICES ASSUME IsSeeder
                 PROVE  UNCHANGED <<ChunkRange, HashTreeMap, stored>>
    BY DEF SeederState, BaseInv
  <2>2. pc[t] \in Serving
    BY <1>0, <2>1 DEF Role, Loading
  <2> QED
    BY <2>2, ServingStep DEF ReceiveRequest, GetPeakHashes, GetPeaksOfTree,
       GetDataIntegrity, treeVars
<1> QED
  BY <1>0, <1>1, <1>2 DEF BaseInv

\* hold at the beginning,
LEMMA BaseInit == Init => BaseInv
<1> SUFFICES ASSUME Init PROVE BaseInv
  OBVIOUS
<1>0. /\ NumChunks \in Nat /\ NumChunks >= 2 /\ Leaves \in Nat /\ NumChunks <= Leaves
      /\ RetryCount \in Nat
  BY TreeFacts, RetryAssumption
<1>1. TypeOK
  <2>1. ChunkRange \in -1..(Leaves - 1) /\ LeafNodeCount \in 0..Leaves
    BY <1>0 DEF Init
  <2>2. /\ pc \in [Threads -> Outside \cup Inside]
        /\ chunk \in [Threads -> -1..(Leaves - 1)]
        /\ retries \in [Threads -> 0..(RetryCount + 1)]
    <3>1. -1 \in -1..(Leaves - 1) /\ 0 \in 0..(RetryCount + 1)
      BY <1>0
    <3>2. {"next", "wait"} \subseteq Outside \cup Inside
      BY DEF Outside
    <3> QED
      BY <3>1, <3>2 DEF Init
  <2>3. /\ tmpmap \in [Threads -> SUBSET Ranges] /\ inbox \in [Threads -> SUBSET Ranges]
        /\ sent \in [Threads -> SUBSET Ranges]
        /\ mutex \in [Mutexes -> Threads \cup {NoThread}]
    BY DEF Init
  <2>4. /\ HashTreeMap \subseteq Ranges /\ PeakHashMap \subseteq Ranges
        /\ IsPeakMapCreated \in BOOLEAN /\ ContentSize \in BOOLEAN
        /\ IsFirstData \in BOOLEAN /\ IsSeeder \in BOOLEAN
        /\ DOMAIN IntegrityMap \subseteq Downloads
        /\ \A t \in DOMAIN IntegrityMap : IntegrityMap[t] \subseteq Ranges
        /\ inserting \in Downloads \cup {NoThread} /\ stored \subseteq Chunks
    BY DEF Init
  <2> QED
    BY <2>1, <2>2, <2>3, <2>4 DEF TypeOK
<1>2. ASSUME NEW t \in Threads PROVE Role(t) /\ Started(t)
  <2>1. pc[t] = IF t \in Loading THEN "next" ELSE "wait"
    BY DEF Init, Loading, Threads
  <2> QED
    BY <2>1 DEF Role, Started, Outside, Inside, Serving, MovingPeaks
<1>3. SeederState
  BY DEF SeederState, Init
<1> QED
  BY <1>1, <1>2, <1>3 DEF BaseInv

\* and are an inductive invariant.
LEMMA BaseNext == BaseInv /\ [Next]_vars => BaseInv'
<1> SUFFICES ASSUME BaseInv, [Next]_vars PROVE BaseInv'
  OBVIOUS
<1>1. CASE Next
  <2>1. PICK t \in Threads : Step(t) /\ UNCHANGED IsSeeder
    BY <1>1 DEF Next
  <2> QED
    BY <2>1, BaseStep
<1>2. CASE UNCHANGED vars
  BY <1>2 DEF vars, treeVars, chanVars, BaseInv, TypeOK, Role, Started, SeederState,
     Loading, Received
<1> QED
  BY <1>1, <1>2

\* The types of the maps, of the mutexes and of what the threads hold.
THEOREM Types == Spec => []TypeOK
<1>1. BaseInv => TypeOK
  BY DEF BaseInv
<1> QED
  BY <1>1, BaseInit, BaseNext, PTL DEF Spec

-----------------------------------------------------------------------------
(* The inductive invariant *)

\* A mutex is held only within the calls that take it.
Holder(t) ==
    /\ mutex["IntegrityMap"] = t => pc[t] \in {"insert", "count", "move", "peaks2", "peaks3"}
    /\ mutex["HashTreeMap"] = t => pc[t] = "peaks3"
    /\ mutex["PeakHashMap"] = t => pc[t] = "get2"

\* Before a chunk is stored, a CheckPeakHash has been successful: from then on
\* the map of the peaks is made, and only a seeder still collects them.
FirstCheck ==
    ~IsSeeder => /\ ~IsFirstData => IsPeakMapCreated
                 /\ stored # {} => ~IsFirstData

Checked(t) ==
    /\ pc[t] \in {"store", "ask"} => ~IsFirstData
    /\ pc[t] = "peaks5" => IsPeakMapCreated
    /\ pc[t] = "get2" => IsSeeder /\ ~IsPowerOfTwo(NumChunks)

\* Where a thread has hashes in hand.
InHand(t) ==
    /\ pc[t] \notin {"receive", "insert"} => inbox[t] = {}
    /\ pc[t] \notin {"count", "move", "peaks2", "peaks3", "integrity", "served"}
          => tmpmap[t] = {}

\* The tree has the hashes that prove the chunks that have passed.
Proven(t) ==
    /\ pc[t] \in {"count", "move"} => Needed(chunk[t]) \subseteq tmpmap[t] \cup HashTreeMap
    /\ pc[t] \in {"passed", "peaks", "store"} \cup MovingPeaks
          => Needed(chunk[t]) \subseteq HashTreeMap

StoredProven == \A i \in stored : Needed(i) \subseteq HashTreeMap

\* Until a CheckPeakHash has been successful, every channel asks for the first
\* chunk, and its map has the peaks that came with it.
AtFirst(t) ==
    t \in Loading /\ (IsFirstData \/ pc[t] = "peaks") =>
        /\ chunk[t] \in {-1, 0}
        /\ pc[t] \in Checking => chunk[t] = 0 /\ sent[t] # {}
        /\ inbox[t] \cup Received(t) \subseteq FirstSiblings \cup ContentPeaks
        /\ pc[t] \in {"count", "move"} => tmpmap[t] \subseteq FirstSiblings
        /\ sent[t] # {} /\ pc[t] \notin MovingPeaks
              => ContentPeaks \subseteq inbox[t] \cup Received(t)

\* The peaks are moved, and served, together.
PeakMap ==
    /\ ~IsSeeder /\ IsPeakMapCreated /\ PeakHashMap \subseteq ContentPeaks
          => PeakHashMap = ContentPeaks
    /\ IsSeeder => /\ PeakHashMap \subseteq ContentPeaks
                   /\ IsPeakMapCreated /\ Free("PeakHashMap") => PeakHashMap = ContentPeaks

Peaks(t) ==
    /\ pc[t] \in {"peaks2", "peaks3"} /\ tmpmap[t] \subseteq ContentPeaks
          => tmpmap[t] = ContentPeaks
    /\ pc[t] \in {"peaks4", "peaks5"} /\ PeakHashMap \subseteq ContentPeaks
          => PeakHashMap = ContentPeaks
    /\ pc[t] \in {"integrity", "served"} /\ PeakHashMap \subseteq ContentPeaks
          => tmpmap[t] = ContentPeaks

\* What is not sent of the siblings of a chunk are peaks.
SentRight(t) ==
    pc[t] = "served" =>
        \A r \in Siblings(chunk[t], 0, Height) :
            Padding(r) \/ r \in sent[t] \/ r \in ContentPeaks

\* NothingLost, of one thread.
Lossless(t) ==
    t \in Loading =>
        sent[t] \cup (IF sent[t] = {} THEN {} ELSE ContentPeaks)
            \subseteq inbox[t] \cup Received(t) \cup tmpmap[t] \cup HashTreeMap

Own(t) ==
    /\ Holder(t) /\ Checked(t) /\ InHand(t) /\ Proven(t)
    /\ AtFirst(t) /\ Peaks(t) /\ SentRight(t) /\ Lossless(t)

IInv ==
    /\ BaseInv /\ FirstCheck /\ StoredProven /\ PeakMap
    /\ \A t \in Threads : Own(t)

\* A step leaves what holds of the other threads.
LEMMA OthersInv ==
    ASSUME IInv, NEW t \in Threads, Step(t), UNCHANGED IsSeeder,
           NEW d \in Threads \ {t}
    PROVE  Own(d)'
<1>0. /\ Own(d) /\ OthersKeep(t) /\ SharedGrows(t) /\ TypeOK
      /\ pc'[d] = pc[d] /\ chunk'[d] = chunk[d]
      /\ tmpmap'[d] = tmpmap[d] /\ inbox'[d] = inbox[d] /\ sent'[d] = sent[d]
      /\ Received(d)' = Received(d) /\ Loading' = Loading
      /\ HashTreeMap \subseteq HashTreeMap' /\ PeakHashMap \subseteq PeakHashMap'
      /\ IsFirstData' => IsFirstData
      /\ IsPeakMapCreated => IsPeakMapCreated'
  BY OthersStep, SharedStep DEF IInv, BaseInv, OthersKeep, SharedGrows, Loading
<1>1. Holder(d)'
  <2>1. ASSUME NEW x \in Mutexes, mutex'[x] = d PROVE mutex[x] = d
    BY <1>0, <2>1, ThreadsAssumption DEF SharedGrows, Threads
  <2> QED
    BY <1>0, <2>1 DEF Own, Holder, Mutexes
<1>2. Checked(d)'
  BY <1>0 DEF Own, Checked
<1>3. InHand(d)'
  BY <1>0 DEF Own, InHand
<1>4. Proven(d)'
  BY <1>0 DEF Own, Proven
<1>5. AtFirst(d)'
  BY <1>0 DEF Own, AtFirst
<1>6. Peaks(d)'
  BY <1>0 DEF Own, Peaks
<1>7. SentRight(d)'
  BY <1>0 DEF Own, SentRight
<1>8. Lossless(d)'
  BY <1>0 DEF Own, Lossless
<1> QED
  BY <1>1, <1>2, <1>3, <1>4, <1>5, <1>6, <1>7, <1>8 DEF Own

\* A check of the peak hashes passes with all of them, or starts from a node
\* that is none: then it is rejected without the mutex, and the tree has the
\* hash that it takes off the map.
LEMMA PeakCheck ==
    ASSUME PeaksCheckable, IInv, NEW t \in Threads, CheckPeakHash(t)
    PROVE  \E m \in Received(t) :
             \/ \E used \in SUBSET Received(t) :
                   /\ PeaksPass(t, m, used)
                   /\ used \subseteq ContentPeaks => used = ContentPeaks
             \/ /\ PeaksFail(t, m) /\ mutex' = mutex
                /\ m \in HashTreeMap /\ m \notin ContentPeaks
<1>0. /\ pc[t] = "peaks" /\ t \in Loading /\ chunk[t] = 0 /\ inbox[t] = {}
      /\ Received(t) \subseteq FirstSiblings \cup ContentPeaks
      /\ ContentPeaks \subseteq Received(t)
      /\ FirstSiblings \subseteq HashTreeMap
  <2>1. pc[t] = "peaks" /\ Own(t) /\ Role(t)
    BY DEF CheckPeakHash, IInv, BaseInv
  <2>2. t \in Loading
    BY <2>1 DEF Role, Serving
  <2>3. inbox[t] = {} /\ chunk[t] = 0 /\ sent[t] # {}
    BY <2>1, <2>2 DEF Own, InHand, AtFirst, Checking
  <2>4. /\ Received(t) \subseteq FirstSiblings \cup ContentPeaks
        /\ ContentPeaks \subseteq Received(t)
    BY <2>1, <2>2, <2>3 DEF Own, AtFirst, MovingPeaks
  <2>5. Needed(chunk[t]) \subseteq HashTreeMap
    BY <2>1 DEF Own, Proven
  <2> QED
    BY <2>1, <2>2, <2>3, <2>4, <2>5, NeededFirst
<1>1. PICK m \in Received(t), k \in Levels :
         LET map == Received(t) \ {m}
             count == PeakLeafCount(m.End)
             top == Top(m.Start, k, LastIndex(count))
             needed == {r \in Siblings(m.Start, k, top) : TreeIndex(r) <= 2 * m.End}
         IN  /\ IsStart(m, Received(t)) /\ m = NodeOf(m.Start, k)
             /\ IF needed \subseteq map /\ Proves(m.Start, k, top, needed, map)
                THEN PeaksPass(t, m, needed \cup {m})
                ELSE /\ PeaksFail(t, m)
                     /\ mutex' = IF needed \subseteq map
                                 THEN [mutex EXCEPT !["IntegrityMap"] = t] ELSE mutex
  BY DEF CheckPeakHash, PeaksPass, PeaksFail
<1> DEFINE map == Received(t) \ {m}
           top == Top(m.Start, k, LastIndex(PeakLeafCount(m.End)))
           needed == {r \in Siblings(m.Start, k, top) : TreeIndex(r) <= 2 * m.End}
<1>2. CASE m \in ContentPeaks
  <2>1. /\ needed \subseteq map /\ Proves(m.Start, k, top, needed, map)
        /\ needed \cup {m} = ContentPeaks
    BY <1>0, <1>1, <1>2, CheckFromPeak
  <2>2. PeaksPass(t, m, needed \cup {m})
    BY <1>1, <2>1
  <2> HIDE DEF needed
  <2>3. PeaksPass(t, m, ContentPeaks) /\ ContentPeaks \in SUBSET Received(t)
    BY <1>0, <2>1, <2>2
  <2> QED
    BY <2>3
<1>3. CASE m \notin ContentPeaks
  <2>1. m \in FirstSiblings
    BY <1>0, <1>3
  <2>2. needed \subseteq map => Proves(m.Start, k, top, needed, map)
    BY <1>0, <1>1, <2>1, CheckFromSibling
  <2>3. CASE needed \subseteq map
    <3>1. PeaksPass(t, m, needed \cup {m})
      BY <1>1, <2>2, <2>3
    <3>2. needed \cup {m} \in SUBSET Received(t) /\ ~(needed \cup {m} \subseteq ContentPeaks)
      BY <1>3, <2>3
    <3> HIDE DEF needed
    <3> QED
      BY <3>1, <3>2
  <2>4. CASE ~(needed \subseteq map)
    <3>1. PeaksFail(t, m) /\ mutex' = mutex
      BY <1>1, <2>4
    <3> QED
      BY <1>0, <1>3, <2>1, <3>1
  <2> QED
    BY <2>3, <2>4
<1> QED
  BY <1>2, <1>3

\* Steps that leave the peaks and what is stored leave what holds of them.
LEMMA SharedInv ==
    ASSUME IInv, NEW t \in Threads, Step(t),
           UNCHANGED <<IsSeeder, PeakHashMap, IsPeakMapCreated, IsFirstData, stored>>,
           mutex'["PeakHashMap"] = mutex["PeakHashMap"]
    PROVE  FirstCheck' /\ StoredProven' /\ PeakMap'
<1>1. HashTreeMap \subseteq HashTreeMap'
  BY SharedStep DEF IInv, SharedGrows
<1> QED
  BY <1>1 DEF IInv, FirstCheck, StoredProven, PeakMap, Free

\* While nothing is stored, the next request is for the first chunk.
LEMMA FirstRequest ==
    ASSUME NEW t \in Threads, SendNextRequest(t), stored = {}
    PROVE  SendRequest(t, 0)
<1>1. Chunks \ (stored \cup {}) = Chunks /\ Chunks # {}
  BY ChunkNodes
<1>2. SendRequest(t, Min(Chunks))
  BY <1>1 DEF SendNextRequest
<1>3. Min(Chunks) \in Nat /\ Min(Chunks) <= 0
  BY <1>1, ChunkNodes, MinInSet
<1>4. Min(Chunks) = 0
  BY <1>3
<1> QED
  BY <1>2, <1>4

\* A request leaves the thread with what is sent for it.
LEMMA RequestInv ==
    ASSUME IInv, NEW t \in Loading, t \in Threads, pc[t] \in {"next", "ask"},
           NEW i, SendRequest(t, i), IsFirstData => i = 0,
           UNCHANGED <<IsSeeder, treeVars, IntegrityMap, mutex, tmpmap>>
    PROVE  Own(t)'
<1>0. /\ Own(t) /\ pc \in [Threads -> Outside \cup Inside]
      /\ chunk \in [Threads -> -1..(Leaves - 1)] /\ inbox \in [Threads -> SUBSET Ranges]
      /\ sent \in [Threads -> SUBSET Ranges] /\ Loading' = Loading
      /\ Received(t)' = Received(t)
      /\ inbox[t] = {} /\ tmpmap[t] = {}
  BY DEF IInv, BaseInv, TypeOK, Own, InHand, Loading, Received
<1> DEFINE peaks == IF sent[t] = {} THEN ContentPeaks ELSE {}
<1>1. /\ pc'[t] = "receive" /\ chunk'[t] = i
      /\ sent'[t] = sent[t] \cup Needed(i)
      /\ inbox'[t] = (Needed(i) \ sent[t]) \cup peaks
      /\ mutex' = mutex /\ IsFirstData' = IsFirstData /\ HashTreeMap' = HashTreeMap
      /\ tmpmap'[t] = {}
  BY <1>0 DEF SendRequest, goto, Needed, treeVars
<1>2. Holder(t)'
  BY <1>0, <1>1 DEF Own, Holder
<1>3. Checked(t)' /\ InHand(t)' /\ Proven(t)' /\ Peaks(t)' /\ SentRight(t)'
  BY <1>1 DEF Checked, InHand, Proven, Peaks, SentRight, MovingPeaks
<1>4. AtFirst(t)'
  <2>1. SUFFICES ASSUME IsFirstData
                 PROVE  /\ i = 0 /\ sent'[t] # {}
                        /\ inbox'[t] \cup Received(t) \subseteq FirstSiblings \cup ContentPeaks
                        /\ ContentPeaks \subseteq inbox'[t] \cup Received(t)
    BY <1>0, <1>1 DEF AtFirst, Checking
  <2>2. i = 0
    BY <2>1
  <2>3. Needed(i) = FirstSiblings /\ FirstSiblings # {}
    BY <2>2, NeededFirst
  <2>4. /\ Received(t) \subseteq FirstSiblings \cup ContentPeaks
        /\ sent[t] # {} => ContentPeaks \subseteq Received(t)
    BY <1>0, <2>1 DEF Own, AtFirst, MovingPeaks
  <2> QED
    BY <1>1, <2>2, <2>3, <2>4
<1>5. Lossless(t)'
  <2>1. sent[t] \cup (IF sent[t] = {} THEN {} ELSE ContentPeaks)
            \subseteq Received(t) \cup HashTreeMap
    BY <1>0 DEF Own, Lossless
  <2>2. sent'[t] \cup (IF sent'[t] = {} THEN {} ELSE ContentPeaks)
            \subseteq inbox'[t] \cup Received(t) \cup HashTreeMap
    BY <1>1, <2>1
  <2> QED
    BY <1>0, <1>1, <2>2 DEF Lossless
<1> QED
  BY <1>2, <1>3, <1>4, <1>5 DEF Own

\* What is known of the thread that takes a step.
LEMMA ThreadFacts ==
    ASSUME IInv, NEW t \in Threads
    PROVE  /\ pc \in [Threads -> Outside \cup Inside]
           /\ chunk \in [Threads -> -1..(Leaves - 1)]
           /\ retries \in [Threads -> 0..(RetryCount + 1)]
           /\ tmpmap \in [Threads -> SUBSET Ranges]
           /\ inbox \in [Threads -> SUBSET Ranges]
           /\ sent \in [Threads -> SUBSET Ranges]
           /\ mutex \in [Mutexes -> Threads \cup {NoThread}]
           /\ Holder(t) /\ Checked(t) /\ InHand(t) /\ Proven(t)
           /\ AtFirst(t) /\ Peaks(t) /\ SentRight(t) /\ Lossless(t)
           /\ Role(t) /\ Started(t) /\ t # NoThread
           /\ Mutexes = {"IntegrityMap", "HashTreeMap", "PeakHashMap"}
BY ThreadsAssumption DEF IInv, BaseInv, TypeOK, Own, Mutexes, Threads

\* The request after a chunk, or the first one.
LEMMA AskInv ==
    ASSUME IInv, NEW t \in Threads, Ask(t), UNCHANGED IsSeeder
    PROVE  Own(t)'
<1>0. /\ pc[t] \in {"next", "ask"} /\ t \in Loading /\ ~IsSeeder
      /\ UNCHANGED <<IsSeeder, treeVars, IntegrityMap, mutex, tmpmap, stored>>
      /\ pc[t] = "ask" => ~IsFirstData
      /\ IsFirstData => stored = {}
  <2>1. pc[t] \in {"next", "ask"} /\ Role(t) /\ Checked(t)
    BY ThreadFacts DEF Ask
  <2> QED
    BY <2>1 DEF Ask, Role, Serving, Loading, Checked, IInv, FirstCheck
<1>1. ASSUME NEW i, SendRequest(t, i), IsFirstData => i = 0 PROVE Own(t)'
  BY <1>0, <1>1, RequestInv
<1>2. CASE goto(t, "done") /\ UNCHANGED <<chunk, chanVars>>
  <2>1. /\ pc'[t] = "done" /\ Received(t)' = Received(t) /\ Loading' = Loading
        /\ UNCHANGED <<chunk, inbox, sent, tmpmap, mutex, IsFirstData, HashTreeMap>>
    BY <1>0, <1>2, ThreadFacts DEF goto, chanVars, treeVars, Received, Loading
  <2>2. Holder(t)' /\ Checked(t)' /\ InHand(t)' /\ Proven(t)' /\ Peaks(t)' /\ SentRight(t)'
    BY <1>0, <2>1, ThreadFacts DEF Holder, Checked, InHand, Proven, Peaks, SentRight,
       MovingPeaks
  <2>3. AtFirst(t)' /\ Lossless(t)'
    BY <1>0, <2>1, ThreadFacts DEF AtFirst, Lossless, Checking, MovingPeaks
  <2> QED
    BY <2>2, <2>3 DEF Own
<1>3. CASE pc[t] = "ask" /\ ~ContentSize /\ SendRequest(t, ChunkRange)
  BY <1>0, <1>1, <1>3
<1>4. CASE SendNextRequest(t)
  <2>1. CASE IsFirstData
    BY <1>0, <1>1, <1>4, <2>1, FirstRequest
  <2>2. CASE ~IsFirstData
    BY <1>1, <1>2, <1>4, <2>2, NextRequest
  <2> QED
    BY <2>1, <2>2
<1> QED
  BY <1>3, <1>4 DEF Ask

\* The retry after a rejection.
LEMMA RetryInv ==
    ASSUME IInv, NEW t \in Threads, RetryRequest(t), UNCHANGED IsSeeder
    PROVE  Own(t)'
<1>1. /\ pc[t] = "rejected" /\ pc'[t] \in {"done", "next"} /\ Received(t)' = Received(t)
      /\ tmpmap'[t] = {} /\ chunk'[t] = -1 /\ Loading' = Loading
      /\ UNCHANGED <<inbox, sent, mutex, IsFirstData, HashTreeMap>>
  BY ThreadFacts DEF RetryRequest, goto, chanVars, treeVars, Received, Loading
<1>2. Holder(t)' /\ Checked(t)' /\ InHand(t)' /\ Proven(t)' /\ Peaks(t)' /\ SentRight(t)'
  BY <1>1, ThreadFacts DEF Holder, Checked, InHand, Proven, Peaks, SentRight, MovingPeaks
<1>3. AtFirst(t)' /\ Lossless(t)'
  BY <1>1, ThreadFacts DEF AtFirst, Lossless, Checking, MovingPeaks, InHand
<1> QED
  BY <1>2, <1>3 DEF Own

\* INTEGRITYs move from the inbox to the map.
LEMMA AddIntegrityInv ==
    ASSUME IInv, NEW t \in Threads, AddIntegrity(t), UNCHANGED IsSeeder
    PROVE  Own(t)'
<1>0. /\ pc[t] = "receive" /\ Loading' = Loading
      /\ UNCHANGED <<chunk, tmpmap, sent, IsFirstData, HashTreeMap>>
  BY DEF AddIntegrity, treeVars, Loading
<1>1. \/ /\ pc'[t] = "check" /\ inbox'[t] = {} /\ mutex' = mutex
         /\ Received(t)' = Received(t) \cup inbox[t]
      \/ /\ pc'[t] = "insert" /\ inbox' = inbox /\ Received(t)' = Received(t)
         /\ mutex' = [mutex EXCEPT !["IntegrityMap"] = t]
  <2>1. CASE inbox[t] = {} /\ goto(t, "check")
             /\ UNCHANGED <<IntegrityMap, inserting, mutex, inbox>>
    BY <2>1, ThreadFacts DEF goto, Received
  <2>2. CASE inbox[t] # {} /\ t \notin DOMAIN IntegrityMap
             /\ Lock(t, "IntegrityMap") /\ inserting' = t /\ goto(t, "insert")
             /\ UNCHANGED <<IntegrityMap, inbox>>
    BY <2>2, ThreadFacts DEF goto, Received, Lock
  <2>3. CASE /\ t \in DOMAIN IntegrityMap
             /\ IntegrityMap' = [IntegrityMap EXCEPT ![t] = @ \cup inbox[t]]
             /\ inbox' = [inbox EXCEPT ![t] = {}]
             /\ goto(t, "check") /\ UNCHANGED <<inserting, mutex>>
    BY <2>3, ThreadFacts DEF goto, Received
  <2> QED
    BY <2>1, <2>2, <2>3 DEF AddIntegrity
<1>2. Holder(t)'
  BY <1>0, <1>1, ThreadFacts DEF Holder
<1>3. Checked(t)' /\ InHand(t)' /\ Proven(t)' /\ Peaks(t)' /\ SentRight(t)'
  BY <1>0, <1>1, ThreadFacts DEF Checked, InHand, Proven, Peaks, SentRight, MovingPeaks
<1>4. inbox'[t] \cup Received(t)' = inbox[t] \cup Received(t)
  BY <1>1
<1>5. AtFirst(t)'
  BY <1>0, <1>1, <1>4, ThreadFacts DEF AtFirst, Checking, MovingPeaks
<1>6. Lossless(t)'
  BY <1>0, <1>4, ThreadFacts DEF Lossless
<1> QED
  BY <1>2, <1>3, <1>5, <1>6 DEF Own

\* The channel is added to the map, with nothing received yet.
LEMMA InsertedInv ==
    ASSUME IInv, NEW t \in Threads, Inserted(t), UNCHANGED IsSeeder
    PROVE  Own(t)'
<1>1. /\ pc[t] = "insert" /\ pc'[t] = "receive" /\ Loading' = Loading
      /\ Received(t) = {} /\ Received(t)' = {}
      /\ mutex'["IntegrityMap"] = NoThread /\ mutex'["HashTreeMap"] = mutex["HashTreeMap"]
      /\ mutex'["PeakHashMap"] = mutex["PeakHashMap"]
      /\ UNCHANGED <<chunk, tmpmap, sent, inbox, IsFirstData, HashTreeMap>>
  BY ThreadFacts DEF Inserted, goto, Unlock, treeVars, chanVars, Received, Loading, Started
<1>2. Holder(t)' /\ Checked(t)' /\ InHand(t)' /\ Proven(t)' /\ Peaks(t)' /\ SentRight(t)'
  BY <1>1, ThreadFacts DEF Holder, Checked, InHand, Proven, Peaks, SentRight, MovingPeaks
<1>3. AtFirst(t)' /\ Lossless(t)'
  BY <1>1, ThreadFacts DEF AtFirst, Lossless, Checking, MovingPeaks
<1> QED
  BY <1>2, <1>3 DEF Own

\* A rejected check leaves the thread with what its channel has received.
LEMMA RejectInv ==
    ASSUME IInv, NEW t \in Threads, Reject(t), Loading' = Loading,
           pc[t] \in {"first", "path", "passed", "peaks"},
           UNCHANGED <<chunk, chanVars, tmpmap, mutex, IsFirstData, HashTreeMap>>,
           Received(t)' = Received(t)
    PROVE  Own(t)'
<1>1. pc'[t] = "rejected" /\ UNCHANGED <<inbox, sent>>
  BY ThreadFacts DEF Reject, goto, chanVars
<1>2. Holder(t)' /\ Checked(t)' /\ InHand(t)' /\ Proven(t)' /\ Peaks(t)' /\ SentRight(t)'
  BY <1>1, ThreadFacts DEF Holder, Checked, InHand, Proven, Peaks, SentRight, MovingPeaks
<1>3. AtFirst(t)' /\ Lossless(t)'
  BY <1>1, ThreadFacts DEF AtFirst, Lossless, Checking, MovingPeaks
<1> QED
  BY <1>2, <1>3 DEF Own

\* The choice of the check changes nothing but where the thread is.
LEMMA CheckDataIntegrityInv ==
    ASSUME IInv, NEW t \in Threads, CheckDataIntegrity(t), UNCHANGED IsSeeder
    PROVE  Own(t)'
<1>1. /\ pc[t] = "check" /\ pc'[t] \in {"first", "path"} /\ Loading' = Loading
      /\ Received(t)' = Received(t)
      /\ UNCHANGED <<chunk, tmpmap, sent, inbox, mutex, IsFirstData, HashTreeMap>>
  BY ThreadFacts DEF CheckDataIntegrity, goto, treeVars, chanVars, Received, Loading
<1>2. Holder(t)' /\ Checked(t)' /\ InHand(t)' /\ Proven(t)' /\ Peaks(t)' /\ SentRight(t)'
  BY <1>1, ThreadFacts DEF Holder, Checked, InHand, Proven, Peaks, SentRight, MovingPeaks
<1>3. AtFirst(t)' /\ Lossless(t)'
  BY <1>1, ThreadFacts DEF AtFirst, Lossless, Checking, MovingPeaks
<1> QED
  BY <1>2, <1>3 DEF Own

\* The first check holds the mutex and has every hash that proves the chunk, or
\* is rejected.
LEMMA CheckFirstInv ==
    ASSUME IInv, NEW t \in Threads, CheckFirst(t), UNCHANGED IsSeeder
    PROVE  Own(t)'
<1>0. /\ pc[t] = "first" /\ Loading' = Loading /\ Received(t)' = Received(t)
      /\ UNCHANGED <<chunk, chanVars, sent, inbox, IsFirstData, HashTreeMap>>
  BY DEF CheckFirst, chanVars, Received, Loading
<1>1. CASE /\ chunk[t] \in Chunks
           /\ tmpmap' = [tmpmap EXCEPT ![t] = Siblings(chunk[t], 0, Height)]
           /\ Lock(t, "IntegrityMap") /\ goto(t, "count")
  <2>1. /\ pc'[t] = "count" /\ tmpmap'[t] = Siblings(chunk[t], 0, Height)
        /\ mutex' = [mutex EXCEPT !["IntegrityMap"] = t]
    BY <1>1, ThreadFacts, ChunkNodes DEF goto, Lock
  <2>2. Holder(t)'
    BY <1>0, <2>1, ThreadFacts DEF Holder
  <2>3. Checked(t)' /\ InHand(t)' /\ Proven(t)' /\ Peaks(t)' /\ SentRight(t)'
    BY <1>0, <2>1, ThreadFacts DEF Checked, InHand, Proven, Peaks, SentRight, MovingPeaks,
       Needed
  <2>4. AtFirst(t)'
    BY <1>0, <2>1, ThreadFacts DEF AtFirst, Checking, MovingPeaks, FirstSiblings
  <2>5. Lossless(t)'
    <3>1. tmpmap[t] = {}
      BY <1>0, ThreadFacts DEF InHand
    <3> QED
      BY <1>0, <3>1, ThreadFacts DEF Lossless
  <2> QED
    BY <2>2, <2>3, <2>4, <2>5 DEF Own
<1>2. CASE Reject(t) /\ UNCHANGED <<tmpmap, mutex>>
  BY <1>0, <1>2, RejectInv
<1> QED
  BY <1>1, <1>2, FirstResult

\* Nor does the number of leaves.
LEMMA SetLeafNodeCountInv ==
    ASSUME IInv, NEW t \in Threads, SetLeafNodeCount(t), UNCHANGED IsSeeder
    PROVE  Own(t)'
<1>1. /\ pc[t] = "count" /\ pc'[t] = "move" /\ Loading' = Loading
      /\ Received(t)' = Received(t)
      /\ UNCHANGED <<chunk, tmpmap, sent, inbox, mutex, IsFirstData, HashTreeMap>>
  BY ThreadFacts DEF SetLeafNodeCount, goto, chanVars, Received, Loading
<1>2. Holder(t)' /\ Checked(t)' /\ InHand(t)' /\ Proven(t)' /\ Peaks(t)' /\ SentRight(t)'
  BY <1>1, ThreadFacts DEF Holder, Checked, InHand, Proven, Peaks, SentRight, MovingPeaks
<1>3. AtFirst(t)' /\ Lossless(t)'
  BY <1>1, ThreadFacts DEF AtFirst, Lossless, Checking, MovingPeaks
<1> QED
  BY <1>2, <1>3 DEF Own

\* A later check has the hashes from its channel and those of the tree.
LEMMA CheckPathInv ==
    ASSUME IInv, NEW t \in Threads, CheckPath(t), UNCHANGED IsSeeder
    PROVE  Own(t)'
<1>0. /\ pc[t] = "path" /\ Loading' = Loading /\ Received(t)' = Received(t)
      /\ tmpmap[t] = {}
      /\ UNCHANGED <<chunk, chanVars, sent, inbox, mutex, IsFirstData, HashTreeMap>>
  BY ThreadFacts DEF CheckPath, chanVars, Received, Loading, InHand
<1>1. ASSUME goto(t, "move"),
             NEW used \in SUBSET (Received(t) \cap Siblings(chunk[t], 0, Height)),
             tmpmap' = [tmpmap EXCEPT ![t] = used],
             Needed(chunk[t]) \subseteq used \cup HashTreeMap
      PROVE  Own(t)'
  <2>1. pc'[t] = "move" /\ tmpmap'[t] = used
    BY <1>1, ThreadFacts DEF goto
  <2>2. Holder(t)' /\ Checked(t)' /\ InHand(t)' /\ Peaks(t)' /\ SentRight(t)'
    BY <1>0, <2>1, ThreadFacts DEF Holder, Checked, InHand, Peaks, SentRight
  <2>3. Proven(t)'
    BY <1>0, <1>1, <2>1 DEF Proven, MovingPeaks
  <2>4. AtFirst(t)'
    BY <1>0, <1>1, <2>1, ThreadFacts DEF AtFirst, Checking, MovingPeaks, FirstSiblings
  <2>5. Lossless(t)'
    BY <1>0, ThreadFacts DEF Lossless
  <2> QED
    BY <2>2, <2>3, <2>4, <2>5 DEF Own
<1>2. CASE Reject(t) /\ UNCHANGED <<ContentSize, tmpmap>>
  BY <1>0, <1>2, RejectInv
<1> QED
  BY <1>1, <1>2, PathResult

\* What the check has used moves to the tree: no peak of the first chunk's.
LEMMA MoveToTreeInv ==
    ASSUME IInv, NEW t \in Threads, MoveToTree(t), UNCHANGED IsSeeder
    PROVE  Own(t)'
<1>0. /\ pc[t] = "move" /\ pc'[t] = "passed" /\ Loading' = Loading
      /\ HashTreeMap' = HashTreeMap \cup tmpmap[t] /\ tmpmap'[t] = {}
      /\ UNCHANGED <<chunk, sent, inbox, IsFirstData>>
  BY ThreadFacts DEF MoveToTree, goto, chanVars, Loading
<1>1. Received(t)' = Received(t) \ tmpmap[t]
  BY DEF MoveToTree, Received
<1>2. /\ mutex'["HashTreeMap"] = mutex["HashTreeMap"]
      /\ mutex'["PeakHashMap"] = mutex["PeakHashMap"]
      /\ mutex'["IntegrityMap"] # t
  BY ThreadFacts DEF MoveToTree, Unlock
<1>3. Holder(t)' /\ Checked(t)' /\ InHand(t)' /\ Peaks(t)' /\ SentRight(t)'
  BY <1>0, <1>2, ThreadFacts DEF Holder, Checked, InHand, Peaks, SentRight
<1>4. Proven(t)'
  BY <1>0, ThreadFacts DEF Proven
<1>5. AtFirst(t)'
  <2>1. ASSUME t \in Loading, IsFirstData
        PROVE  ContentPeaks \cap tmpmap[t] = {}
    <3>1. tmpmap[t] \subseteq FirstSiblings
      BY <1>0, <2>1, ThreadFacts DEF AtFirst
    <3> QED
      BY <3>1, FirstNoPeaks
  <2> QED
    BY <1>0, <1>1, <2>1, ThreadFacts DEF AtFirst, Checking, MovingPeaks
<1>6. Lossless(t)'
  BY <1>0, <1>1, ThreadFacts DEF Lossless
<1> QED
  BY <1>3, <1>4, <1>5, <1>6 DEF Own

\* After the check, the peak hashes are looked at, or there are none.
LEMMA PassedInv ==
    ASSUME IInv, NEW t \in Threads, Passed(t), UNCHANGED IsSeeder
    PROVE  Own(t)' /\ FirstCheck' /\ StoredProven' /\ PeakMap'
<1>0. /\ pc[t] = "passed" /\ t \in Loading /\ ~IsSeeder /\ Loading' = Loading
      /\ Received(t)' = Received(t) /\ inbox[t] = {}
      /\ UNCHANGED <<chunk, chanVars, tmpmap, sent, inbox, mutex, HashTreeMap,
                     PeakHashMap, stored>>
  BY ThreadFacts DEF Passed, chanVars, Received, Loading, Role, Serving, InHand
<1>1. ASSUME goto(t, "store"), ~IsFirstData' PROVE Own(t)'
  <2>1. pc'[t] = "store"
    BY <1>1, ThreadFacts DEF goto
  <2>2. Holder(t)' /\ Checked(t)' /\ InHand(t)' /\ Proven(t)' /\ Peaks(t)' /\ SentRight(t)'
    BY <1>0, <1>1, <2>1, ThreadFacts DEF Holder, Checked, InHand, Proven, Peaks, SentRight
  <2>3. AtFirst(t)' /\ Lossless(t)'
    BY <1>0, <1>1, <2>1, ThreadFacts DEF AtFirst, Lossless
  <2> QED
    BY <2>2, <2>3 DEF Own
<1>2. ASSUME UNCHANGED <<IsPeakMapCreated, IsFirstData>>
      PROVE  FirstCheck' /\ StoredProven' /\ PeakMap'
  BY <1>0, <1>2 DEF IInv, FirstCheck, StoredProven, PeakMap, Free
<1>3. CASE ~IsFirstData /\ goto(t, "store") /\ UNCHANGED <<IsPeakMapCreated, IsFirstData>>
  BY <1>1, <1>2, <1>3
<1>4. CASE Reject(t) /\ UNCHANGED <<IsPeakMapCreated, IsFirstData>>
  BY <1>0, <1>2, <1>4, RejectInv
<1>5. CASE /\ IsFirstData /\ Received(t) = {}
           /\ IsPeakMapCreated' = TRUE /\ IsFirstData' = FALSE
           /\ goto(t, "store")
  <2>1. ContentPeaks = {}
    <3>1. sent[t] # {} /\ pc[t] \notin MovingPeaks
      BY <1>0, <1>5, ThreadFacts DEF AtFirst, Checking, MovingPeaks
    <3>2. ContentPeaks \subseteq inbox[t] \cup Received(t)
      BY <1>0, <1>5, <3>1, ThreadFacts DEF AtFirst
    <3> QED
      BY <1>0, <1>5, <3>2
  <2>2. FirstCheck' /\ StoredProven' /\ PeakMap'
    BY <1>0, <1>5, <2>1 DEF IInv, FirstCheck, StoredProven, PeakMap
  <2> QED
    BY <1>1, <1>5, <2>2
<1>6. CASE IsFirstData /\ goto(t, "peaks") /\ UNCHANGED <<IsPeakMapCreated, IsFirstData>>
  <2>1. pc'[t] = "peaks"
    BY <1>6, ThreadFacts DEF goto
  <2>2. Holder(t)' /\ Checked(t)' /\ InHand(t)' /\ Proven(t)' /\ Peaks(t)' /\ SentRight(t)'
    BY <1>0, <1>6, <2>1, ThreadFacts DEF Holder, Checked, InHand, Proven, Peaks, SentRight
  <2>3. AtFirst(t)' /\ Lossless(t)'
    BY <1>0, <1>6, <2>1, ThreadFacts DEF AtFirst, Lossless, Checking, MovingPeaks
  <2> QED
    BY <1>2, <1>6, <2>2, <2>3 DEF Own
<1> QED
  BY <1>3, <1>4, <1>5, <1>6 DEF Passed, WhileChecking

\* All peaks are in hand, or the hash that was taken off the map is in the tree.
LEMMA CheckPeakHashInv ==
    ASSUME PeaksCheckable, IInv, NEW t \in Threads, CheckPeakHash(t), UNCHANGED IsSeeder
    PROVE  Own(t)' /\ mutex'["PeakHashMap"] = mutex["PeakHashMap"]
<1>0. /\ pc[t] = "peaks" /\ Loading' = Loading
      /\ UNCHANGED <<chunk, chanVars, sent, inbox, IsFirstData, HashTreeMap>>
  BY DEF CheckPeakHash, chanVars, Loading
<1>1. ASSUME NEW m \in Received(t), NEW used \in SUBSET Received(t),
             PeaksPass(t, m, used), used \subseteq ContentPeaks => used = ContentPeaks
      PROVE  Own(t)' /\ mutex'["PeakHashMap"] = mutex["PeakHashMap"]
  <2>1. /\ pc'[t] = "peaks2" /\ tmpmap'[t] = used /\ Received(t)' = Received(t)
        /\ mutex' = [mutex EXCEPT !["IntegrityMap"] = t]
    BY <1>1, ThreadFacts DEF PeaksPass, goto, Lock, Received
  <2>2. Holder(t)' /\ mutex'["PeakHashMap"] = mutex["PeakHashMap"]
    BY <1>0, <2>1, ThreadFacts DEF Holder
  <2>3. Checked(t)' /\ InHand(t)' /\ Proven(t)' /\ Peaks(t)' /\ SentRight(t)'
    BY <1>0, <1>1, <2>1, ThreadFacts DEF Checked, InHand, Proven, Peaks, SentRight,
       MovingPeaks
  <2>4. AtFirst(t)'
    BY <1>0, <2>1, ThreadFacts DEF AtFirst, Checking, MovingPeaks
  <2>5. Lossless(t)'
    <3>1. tmpmap[t] = {}
      BY <1>0, ThreadFacts DEF InHand
    <3> QED
      BY <1>0, <2>1, <3>1, ThreadFacts DEF Lossless
  <2> QED
    BY <2>2, <2>3, <2>4, <2>5 DEF Own
<1>2. ASSUME NEW m \in Received(t), PeaksFail(t, m), mutex' = mutex,
             m \in HashTreeMap, m \notin ContentPeaks
      PROVE  Own(t)'
  <2>1. /\ pc'[t] = "rejected" /\ Received(t)' = Received(t) \ {m} /\ tmpmap' = tmpmap
    BY <1>2, ThreadFacts DEF PeaksFail, Reject, goto, Received
  <2>2. Holder(t)' /\ Checked(t)' /\ InHand(t)' /\ Proven(t)' /\ Peaks(t)' /\ SentRight(t)'
    BY <1>0, <1>2, <2>1, ThreadFacts DEF Holder, Checked, InHand, Proven, Peaks, SentRight,
       MovingPeaks
  <2>3. AtFirst(t)'
    BY <1>0, <1>2, <2>1, ThreadFacts DEF AtFirst, Checking, MovingPeaks
  <2>4. Lossless(t)'
    BY <1>0, <1>2, <2>1, ThreadFacts DEF Lossless
  <2> QED
    BY <2>2, <2>3, <2>4 DEF Own
<1> QED
  BY <1>1, <1>2, PeakCheck

\* The second mutex is taken with the first one held.
LEMMA LockTreeInv ==
    ASSUME IInv, NEW t \in Threads, LockTree(t), UNCHANGED IsSeeder
    PROVE  Own(t)' /\ mutex'["PeakHashMap"] = mutex["PeakHashMap"]
<1>1. /\ pc[t] = "peaks2" /\ pc'[t] = "peaks3" /\ Loading' = Loading
      /\ Received(t)' = Received(t) /\ mutex' = [mutex EXCEPT !["HashTreeMap"] = t]
      /\ UNCHANGED <<chunk, tmpmap, sent, inbox, IsFirstData, HashTreeMap>>
  BY ThreadFacts DEF LockTree, goto, Lock, treeVars, chanVars, Received, Loading
<1>2. Holder(t)' /\ mutex'["PeakHashMap"] = mutex["PeakHashMap"]
  BY <1>1, ThreadFacts DEF Holder
<1>3. Checked(t)' /\ InHand(t)' /\ Proven(t)' /\ Peaks(t)' /\ SentRight(t)'
  BY <1>1, ThreadFacts DEF Checked, InHand, Proven, Peaks, SentRight, MovingPeaks
<1>4. AtFirst(t)' /\ Lossless(t)'
  BY <1>1, ThreadFacts DEF AtFirst, Lossless, Checking, MovingPeaks
<1> QED
  BY <1>2, <1>3, <1>4 DEF Own

\* The peaks move to the tree and to the map of peaks.
LEMMA MovePeaksInv ==
    ASSUME IInv, NEW t \in Threads, MovePeaks(t), UNCHANGED IsSeeder
    PROVE  Own(t)' /\ FirstCheck' /\ StoredProven' /\ PeakMap'
<1>0. /\ pc[t] = "peaks3" /\ pc'[t] = "peaks4" /\ Loading' = Loading /\ ~IsSeeder
      /\ tmpmap'[t] = {} /\ HashTreeMap' = HashTreeMap \cup tmpmap[t]
      /\ PeakHashMap' = PeakHashMap \cup tmpmap[t]
      /\ Received(t)' = Received(t) \ tmpmap[t]
      /\ UNCHANGED <<chunk, sent, inbox, IsFirstData, IsPeakMapCreated, stored, IsSeeder>>
  BY ThreadFacts DEF MovePeaks, goto, chanVars, Received, Loading, Role, Serving
<1>1. /\ mutex'["IntegrityMap"] = NoThread /\ mutex'["HashTreeMap"] = NoThread
      /\ mutex'["PeakHashMap"] = mutex["PeakHashMap"]
  BY ThreadFacts DEF MovePeaks, Unlock
<1>2. Holder(t)'
  BY <1>0, <1>1, ThreadFacts DEF Holder
<1>3. Checked(t)' /\ InHand(t)' /\ Proven(t)' /\ SentRight(t)'
  BY <1>0, ThreadFacts DEF Checked, InHand, Proven, SentRight, MovingPeaks
<1>4. PeakHashMap' \subseteq ContentPeaks => PeakHashMap' = ContentPeaks
  <2>1. tmpmap[t] \subseteq ContentPeaks => tmpmap[t] = ContentPeaks
    BY <1>0, ThreadFacts DEF Peaks
  <2> QED
    BY <1>0, <2>1
<1>5. Peaks(t)'
  BY <1>0, <1>4 DEF Peaks
<1>6. AtFirst(t)'
  BY <1>0, ThreadFacts DEF AtFirst, Checking, MovingPeaks
<1>7. Lossless(t)'
  BY <1>0, ThreadFacts DEF Lossless
<1>8. FirstCheck' /\ StoredProven' /\ PeakMap'
  BY <1>0, <1>4 DEF IInv, FirstCheck, StoredProven, PeakMap
<1> QED
  BY <1>2, <1>3, <1>5, <1>6, <1>7, <1>8 DEF Own

\* The map of the peaks is made when they are there.
LEMMA PeaksMadeInv ==
    ASSUME IInv, NEW t \in Threads, PeaksMade(t), UNCHANGED IsSeeder
    PROVE  Own(t)' /\ FirstCheck' /\ StoredProven' /\ PeakMap'
<1>0. /\ pc[t] \in {"peaks4", "peaks5"} /\ Loading' = Loading /\ ~IsSeeder
      /\ Received(t)' = Received(t)
      /\ UNCHANGED <<chunk, sent, inbox, tmpmap, mutex, HashTreeMap, PeakHashMap, stored,
                     IsSeeder>>
  BY ThreadFacts DEF PeaksMade, chanVars, Received, Loading, Role, Serving
<1>1. \/ /\ pc[t] = "peaks4" /\ pc'[t] = "peaks5" /\ IsPeakMapCreated' = TRUE
         /\ IsFirstData' = IsFirstData
      \/ /\ pc[t] = "peaks5" /\ pc'[t] = "store" /\ IsFirstData' = FALSE
         /\ IsPeakMapCreated' = IsPeakMapCreated
  BY ThreadFacts DEF PeaksMade, goto
<1>2. Holder(t)' /\ Checked(t)' /\ InHand(t)' /\ Proven(t)' /\ Peaks(t)' /\ SentRight(t)'
  BY <1>0, <1>1, ThreadFacts DEF Holder, Checked, InHand, Proven, Peaks, SentRight,
     MovingPeaks
<1>3. AtFirst(t)' /\ Lossless(t)'
  BY <1>0, <1>1, ThreadFacts DEF AtFirst, Lossless, Checking, MovingPeaks
<1>4. PeakHashMap \subseteq ContentPeaks => PeakHashMap = ContentPeaks
  BY <1>0, ThreadFacts DEF Peaks
<1>5. FirstCheck' /\ StoredProven' /\ PeakMap'
  BY <1>0, <1>1, <1>4, ThreadFacts DEF IInv, FirstCheck, StoredProven, PeakMap, Checked
<1> QED
  BY <1>2, <1>3, <1>5 DEF Own

\* A chunk that has passed is stored.
LEMMA SetDataInv ==
    ASSUME IInv, NEW t \in Threads, SetData(t), UNCHANGED IsSeeder
    PROVE  Own(t)' /\ FirstCheck' /\ StoredProven' /\ PeakMap'
<1>0. /\ pc[t] = "store" /\ pc'[t] = "ask" /\ Loading' = Loading /\ ~IsFirstData
      /\ Received(t)' = Received(t) /\ chunk'[t] = -1 /\ stored' = stored \cup {chunk[t]}
      /\ UNCHANGED <<sent, inbox, tmpmap, mutex, HashTreeMap, PeakHashMap, IsFirstData,
                     IsPeakMapCreated, IsSeeder>>
  BY ThreadFacts DEF SetData, goto, treeVars, chanVars, Received, Loading, Checked
<1>1. Holder(t)' /\ Checked(t)' /\ InHand(t)' /\ Proven(t)' /\ Peaks(t)' /\ SentRight(t)'
  BY <1>0, ThreadFacts DEF Holder, Checked, InHand, Proven, Peaks, SentRight, MovingPeaks
<1>2. AtFirst(t)' /\ Lossless(t)'
  BY <1>0, ThreadFacts DEF AtFirst, Lossless
<1>3. FirstCheck' /\ StoredProven' /\ PeakMap'
  BY <1>0, ThreadFacts DEF IInv, FirstCheck, StoredProven, PeakMap, Free, Proven
<1> QED
  BY <1>1, <1>2, <1>3 DEF Own

\* The calls that serve.
LEMMA ReceiveRequestInv ==
    ASSUME IInv, NEW t \in Threads, ReceiveRequest(t), UNCHANGED IsSeeder
    PROVE  Own(t)'
<1>1. /\ pc[t] = "wait" /\ pc'[t] = "get" /\ t \notin Loading /\ Loading' = Loading
      /\ UNCHANGED <<sent, inbox, tmpmap, mutex>>
  BY ThreadFacts DEF ReceiveRequest, goto, chanVars, Loading, Role, Outside, Inside, Serving
<1> QED
  BY <1>1, ThreadFacts DEF Own, Holder, Checked, InHand, Proven, Peaks, SentRight,
     MovingPeaks, AtFirst, Lossless

\* A node that has stored a chunk has its peaks in the map; a seeder collects
\* them first, unless its tree is full.
LEMMA GetPeakHashesInv ==
    ASSUME IInv, NEW t \in Threads, GetPeakHashes(t), UNCHANGED IsSeeder
    PROVE  Own(t)' /\ FirstCheck' /\ StoredProven' /\ PeakMap'
<1>0. /\ pc[t] = "get" /\ Free("PeakHashMap") /\ t \notin Loading /\ Loading' = Loading
      /\ inbox[t] = {} /\ tmpmap[t] = {} /\ stored # {}
      /\ UNCHANGED <<sent, inbox, chunk, HashTreeMap, PeakHashMap, IsFirstData, stored,
                     IsSeeder>>
  BY ThreadFacts DEF GetPeakHashes, chanVars, Loading, Role, Outside, Inside, Serving,
     Started, InHand
<1>1. ASSUME goto(t, "integrity"), mutex' = mutex,
             PeakHashMap \subseteq ContentPeaks => tmpmap'[t] = ContentPeaks
      PROVE  Own(t)'
  <2>1. pc'[t] = "integrity"
    BY <1>1, ThreadFacts DEF goto
  <2> QED
    BY <1>0, <1>1, <2>1, ThreadFacts DEF Own, Holder, Checked, InHand, Proven, Peaks,
       SentRight, MovingPeaks, AtFirst, Lossless
<1>2. CASE IsPeakMapCreated
  <2>1. /\ tmpmap'[t] = PeakHashMap /\ goto(t, "integrity")
        /\ UNCHANGED <<IsPeakMapCreated, mutex>>
    BY <1>2, ThreadFacts DEF GetPeakHashes, PeakMapMade
  <2>2. PeakHashMap \subseteq ContentPeaks => PeakHashMap = ContentPeaks
    BY <1>0, <1>2 DEF IInv, PeakMap
  <2>3. FirstCheck' /\ StoredProven' /\ PeakMap'
    BY <1>0, <2>1 DEF IInv, FirstCheck, StoredProven, PeakMap, Free
  <2> QED
    BY <1>1, <2>1, <2>2, <2>3
<1>3. CASE ~IsPeakMapCreated
  <2>1. /\ IsPeakMapCreated' = TRUE /\ UNCHANGED tmpmap
        /\ IF IsPowerOfTwo(ChunkRange + 1)
           THEN goto(t, "integrity") /\ UNCHANGED mutex
           ELSE Lock(t, "PeakHashMap") /\ goto(t, "get2")
    BY <1>3 DEF GetPeakHashes, PeakMapMade
  <2>2. IsSeeder /\ PeakHashMap \subseteq ContentPeaks
    BY <1>0, <1>3 DEF IInv, FirstCheck, PeakMap
  <2>3. ChunkRange + 1 = NumChunks
    BY <2>2, TreeFacts DEF IInv, BaseInv, SeederState
  <2>4. CASE IsPowerOfTwo(NumChunks)
    <3>1. ContentPeaks = {}
      BY <2>4, PeakShape
    <3>2. tmpmap'[t] = ContentPeaks /\ PeakHashMap = ContentPeaks
      BY <1>0, <2>1, <2>2, <3>1
    <3>3. goto(t, "integrity") /\ mutex' = mutex
      BY <2>1, <2>3, <2>4
    <3>4. FirstCheck' /\ StoredProven' /\ PeakMap'
      BY <1>0, <2>2, <3>2 DEF IInv, FirstCheck, StoredProven, PeakMap
    <3> QED
      BY <1>1, <3>2, <3>3, <3>4
  <2>5. CASE ~IsPowerOfTwo(NumChunks)
    <3>1. pc'[t] = "get2" /\ mutex' = [mutex EXCEPT !["PeakHashMap"] = t]
      BY <2>1, <2>3, <2>5, ThreadFacts DEF goto, Lock
    <3>2. mutex'["PeakHashMap"] = t /\ t # NoThread
      BY <3>1, ThreadFacts
    <3>3. FirstCheck' /\ StoredProven' /\ PeakMap'
      BY <1>0, <2>2, <3>2 DEF IInv, FirstCheck, StoredProven, PeakMap, Free
    <3>4. Holder(t)'
      BY <1>0, <3>1, ThreadFacts DEF Holder
    <3>5. Own(t)'
      BY <1>0, <2>1, <2>2, <2>5, <3>1, <3>4, ThreadFacts DEF Own, Checked, InHand,
         Proven, Peaks, SentRight, MovingPeaks, AtFirst, Lossless
    <3> QED
      BY <3>3, <3>5
  <2> QED
    BY <2>4, <2>5
<1> QED
  BY <1>2, <1>3

\* The nodes that a seeder collects are the peaks of its content.
LEMMA GetPeaksOfTreeInv ==
    ASSUME IInv, NEW t \in Threads, GetPeaksOfTree(t), UNCHANGED IsSeeder
    PROVE  Own(t)' /\ FirstCheck' /\ StoredProven' /\ PeakMap'
<1>0. /\ pc[t] = "get2" /\ pc'[t] = "integrity" /\ t \notin Loading /\ Loading' = Loading
      /\ IsSeeder /\ ~IsPowerOfTwo(NumChunks) /\ inbox[t] = {}
      /\ PeakHashMap \subseteq ContentPeaks /\ ChunkRange = LastChunk
      /\ UNCHANGED <<sent, inbox, chunk, HashTreeMap, IsFirstData, stored, IsSeeder>>
  BY ThreadFacts DEF GetPeaksOfTree, goto, chanVars, Loading, Role, Outside, Inside, Serving,
     Checked, InHand, IInv, BaseInv, SeederState, PeakMap, LastChunk
<1>1. /\ mutex'["IntegrityMap"] = mutex["IntegrityMap"]
      /\ mutex'["HashTreeMap"] = mutex["HashTreeMap"]
      /\ mutex'["PeakHashMap"] = NoThread
  BY ThreadFacts DEF GetPeaksOfTree, Unlock
<1>2. PeakHashMap' = PeakHashMap \cup ContentPeaks /\ tmpmap'[t] = ContentPeaks
  <2> DEFINE peaks == {NodeOf(ChunkRange, k) : k \in {j \in Levels :
                            NodeOf(ChunkRange, j).End <= ChunkRange
                            /\ ~(SiblingOf(ChunkRange, j).End <= ChunkRange)}} \cup
                      {SiblingOf(ChunkRange, k) : k \in {j \in Levels :
                            SiblingOf(ChunkRange, j).End <= ChunkRange
                            /\ ~(NodeOf(ChunkRange, j).End <= ChunkRange)}}
  <2>1. peaks = ContentPeaks
    BY <1>0, PeaksOfTree
  <2>2. /\ PeakHashMap' = PeakHashMap \cup peaks
        /\ tmpmap' = [tmpmap EXCEPT ![t] = peaks]
    BY <1>0 DEF GetPeaksOfTree
  <2> HIDE DEF peaks
  <2> QED
    BY <2>1, <2>2, ThreadFacts
<1>3. Holder(t)'
  BY <1>0, <1>1, ThreadFacts DEF Holder
<1>4. Own(t)'
  BY <1>0, <1>2, <1>3, ThreadFacts DEF Own, Checked, InHand, Proven, Peaks, SentRight,
     MovingPeaks, AtFirst, Lossless
<1>5. FirstCheck' /\ StoredProven' /\ PeakMap'
  BY <1>0, <1>2 DEF IInv, FirstCheck, StoredProven, PeakMap
<1> QED
  BY <1>4, <1>5

\* The siblings are sent up to the first that the tree does not have: padding,
\* and what is content behind it is a peak.
LEMMA GetDataIntegrityInv ==
    ASSUME IInv, NEW t \in Threads, GetDataIntegrity(t), UNCHANGED IsSeeder
    PROVE  Own(t)'
<1> DEFINE i == chunk[t]
           Missing == {k \in 0..(Height + 1) : SiblingOf(i, k) \notin HashTreeMap}
           top == Min(Missing)
<1>0. /\ pc[t] = "integrity" /\ pc'[t] = "served" /\ t \notin Loading /\ Loading' = Loading
      /\ i \in Chunks /\ i \in 0..(Leaves - 1) /\ Needed(i) \subseteq HashTreeMap
      /\ HashTreeMap \subseteq Ranges
      /\ UNCHANGED <<tmpmap, inbox, chunk, mutex, PeakHashMap>>
  BY ThreadFacts, ChunkNodes DEF GetDataIntegrity, goto, treeVars, Loading, Role, Outside,
     Inside, Serving, Started, IInv, BaseInv, TypeOK, StoredProven
<1>1. sent'[t] = {r \in Siblings(i, 0, top) : ~Padding(r)}
  BY ThreadFacts DEF GetDataIntegrity
<1>2. Height \in Missing /\ Missing \in SUBSET Nat
  BY <1>0, SiblingBeyond, TreeFacts
<1> HIDE DEF Missing
<1>3. top \in Missing /\ top \in Nat /\ top <= Height
  BY <1>2, MinInSet
<1>4. ASSUME NEW r \in Siblings(i, 0, Height)
      PROVE  Padding(r) \/ r \in sent'[t] \/ r \in ContentPeaks
  <2>1. PICK j \in 0..(Height - 1) : r = SiblingOf(i, j)
    BY DEF Siblings
  <2>2. CASE j < top
    <3>1. j \in 0..(top - 1)
      BY <1>3, <2>2, TreeFacts
    <3> QED
      BY <1>1, <2>1, <3>1 DEF Siblings
  <2>3. CASE ~(j < top)
    <3>1. top \in 0..(Height - 1) /\ j \in top..(Height - 1)
      BY <1>3, <2>3, TreeFacts
    <3>2. SiblingOf(i, top) \notin HashTreeMap
      BY <1>3 DEF Missing
    <3> HIDE DEF top
    <3>3. Padding(SiblingOf(i, top))
      BY <1>0, <3>1, <3>2 DEF Needed, Siblings
    <3> QED
      BY <1>0, <2>1, <3>1, <3>3, AbovePadding
  <2> QED
    BY <2>2, <2>3
<1>5. SentRight(t)'
  BY <1>0, <1>4 DEF SentRight
<1> QED
  BY <1>0, <1>5, ThreadFacts DEF Own, Holder, Checked, InHand, Proven, Peaks, MovingPeaks,
     AtFirst, Lossless

\* A step keeps what holds of its thread.
LEMMA OwnStep ==
    ASSUME PeaksCheckable, IInv, NEW t \in Threads, Step(t), UNCHANGED IsSeeder
    PROVE  Own(t)'
BY AskInv, RetryInv, AddIntegrityInv, InsertedInv, CheckDataIntegrityInv, CheckFirstInv,
   SetLeafNodeCountInv, CheckPathInv, MoveToTreeInv, PassedInv, CheckPeakHashInv,
   LockTreeInv, MovePeaksInv, PeaksMadeInv, SetDataInv, ReceiveRequestInv,
   GetPeakHashesInv, GetPeaksOfTreeInv, GetDataIntegrityInv DEF Step

\* And what holds of the peaks and of what is stored.
LEMMA PeaksStep ==
    ASSUME PeaksCheckable, IInv, NEW t \in Threads, Step(t), UNCHANGED IsSeeder
    PROVE  FirstCheck' /\ StoredProven' /\ PeakMap'
<1> DEFINE Keeps == /\ UNCHANGED <<PeakHashMap, IsPeakMapCreated, IsFirstData, stored>>
                    /\ mutex'["PeakHashMap"] = mutex["PeakHashMap"]
<1>1. CASE Keeps
  BY <1>1, SharedInv
<1>2. CASE \/ Ask(t) \/ RetryRequest(t) \/ AddIntegrity(t) \/ Inserted(t)
           \/ CheckDataIntegrity(t)
  <2>1. UNCHANGED <<PeakHashMap, IsPeakMapCreated, IsFirstData, stored>>
    BY <1>2 DEF Ask, RetryRequest, AddIntegrity, Inserted, CheckDataIntegrity, treeVars
  <2>2. mutex'["PeakHashMap"] = mutex["PeakHashMap"]
    BY <1>2, ThreadFacts DEF Ask, RetryRequest, AddIntegrity, Inserted, CheckDataIntegrity,
       Lock, Unlock
  <2> QED
    BY <1>1, <2>1, <2>2
<1>3. CASE \/ CheckFirst(t) \/ SetLeafNodeCount(t) \/ CheckPath(t) \/ MoveToTree(t)
           \/ LockTree(t) \/ ReceiveRequest(t) \/ GetDataIntegrity(t)
  <2>1. UNCHANGED <<PeakHashMap, IsPeakMapCreated, IsFirstData, stored>>
    BY <1>3 DEF CheckFirst, SetLeafNodeCount, CheckPath, MoveToTree, LockTree,
       ReceiveRequest, GetDataIntegrity, treeVars
  <2>2. mutex'["PeakHashMap"] = mutex["PeakHashMap"]
    <3>1. CASE CheckFirst(t) \/ LockTree(t) \/ MoveToTree(t)
      BY <3>1, ThreadFacts DEF CheckFirst, LockTree, MoveToTree, Lock, Unlock
    <3>2. CASE ~(CheckFirst(t) \/ LockTree(t) \/ MoveToTree(t))
      BY <1>3, <3>2 DEF SetLeafNodeCount, CheckPath, ReceiveRequest, GetDataIntegrity
    <3> QED
      BY <3>1, <3>2
  <2> QED
    BY <1>1, <2>1, <2>2
<1>4. CASE CheckPeakHash(t)
  <2>1. UNCHANGED <<PeakHashMap, IsPeakMapCreated, IsFirstData, stored>>
    BY <1>4 DEF CheckPeakHash
  <2> QED
    BY <1>1, <1>4, <2>1, CheckPeakHashInv
<1>5. CASE \/ Passed(t) \/ MovePeaks(t) \/ PeaksMade(t) \/ SetData(t) \/ GetPeakHashes(t)
           \/ GetPeaksOfTree(t)
  BY <1>5, PassedInv, MovePeaksInv, PeaksMadeInv, SetDataInv, GetPeakHashesInv,
     GetPeaksOfTreeInv
<1> QED
  BY <1>2, <1>3, <1>4, <1>5 DEF Step

\* The invariant is inductive.
LEMMA InvStep == PeaksCheckable /\ IInv /\ [Next]_vars => IInv'
<1> SUFFICES ASSUME PeaksCheckable, IInv, [Next]_vars PROVE IInv'
  OBVIOUS
<1>1. BaseInv'
  BY BaseNext DEF IInv
<1>2. CASE Next
  <2>1. PICK t \in Threads : Step(t) /\ UNCHANGED IsSeeder
    BY <1>2 DEF Next
  <2>2. Own(t)' /\ FirstCheck' /\ StoredProven' /\ PeakMap'
    BY <2>1, OwnStep, PeaksStep
  <2>3. \A d \in Threads \ {t} : Own(d)'
    BY <2>1, OthersInv
  <2> QED
    BY <1>1, <2>2, <2>3 DEF IInv
<1>3. CASE UNCHANGED vars
  <2>1. /\ UNCHANGED <<FirstCheck, StoredProven, PeakMap>>
        /\ Loading' = Loading /\ UNCHANGED <<IntegrityMap, HashTreeMap>>
    BY <1>3 DEF vars, treeVars, chanVars, FirstCheck, StoredProven, PeakMap, Free, Loading
  <2>2. \A t \in Threads : Own(t)'
    BY <1>3, <2>1 DEF vars, treeVars, chanVars, IInv, Own, Holder, Checked, InHand, Proven,
       AtFirst, Peaks, SentRight, Lossless, Received
  <2> QED
    BY <1>1, <2>1, <2>2 DEF IInv
<1> QED
  BY <1>2, <1>3

\* At the beginning nothing is held, sent or served; what a seeder has stored is
\* proven by its tree.
LEMMA InvInit == Init => IInv
<1> SUFFICES ASSUME Init PROVE IInv
  OBVIOUS
<1>1. BaseInv
  BY BaseInit
<1>2. FirstCheck /\ PeakMap
  BY DEF Init, FirstCheck, PeakMap
<1>3. StoredProven
  BY ChunkNodes DEF Init, StoredProven
<1>4. ASSUME NEW t \in Threads PROVE Own(t)
  <2>1. /\ pc[t] \in {"next", "wait"} /\ chunk[t] = -1 /\ tmpmap[t] = {} /\ inbox[t] = {}
        /\ sent[t] = {} /\ Received(t) = {} /\ \A x \in Mutexes : mutex[x] # t
    BY ThreadsAssumption DEF Init, Received, Threads
  <2> QED
    BY <2>1 DEF Own, Holder, Mutexes, Checked, InHand, Proven, AtFirst, Peaks, SentRight,
       Lossless, Checking, MovingPeaks
<1> QED
  BY <1>1, <1>2, <1>3, <1>4 DEF IInv

-----------------------------------------------------------------------------
(* The theorems *)

\* Of threads that wait for each other's mutexes, one would hold what another
\* of them waits for. The last mutex a call takes is free, or its holder goes on.
LEMMA Deadlockless == IInv => NoDeadlock
<1> SUFFICES ASSUME IInv PROVE NoDeadlock
  OBVIOUS
<1>1. ASSUME NEW x \in Mutexes, ~Free(x) PROVE pc[mutex[x]] \in Inside
  <2>1. mutex[x] \in Threads
    BY <1>1 DEF Free, IInv, BaseInv, TypeOK
  <2>2. Holder(mutex[x])
    BY <2>1, ThreadFacts
  <2> QED
    BY <2>1, <2>2 DEF Holder, Mutexes, Inside
<1>2. ASSUME NEW S \in SUBSET Threads, S # {}
      PROVE  \E t \in S : \A x \in Wants(t) : mutex[x] \notin S
  <2>0. \A t \in S : t \in Threads
    OBVIOUS
  <2>1. CASE mutex["PeakHashMap"] \in S
    <3> DEFINE t == mutex["PeakHashMap"]
    <3>1. pc[t] = "get2" /\ IsSeeder
      BY <2>0, <2>1, ThreadFacts DEF Holder, Checked
    <3>2. Wants(t) = {"HashTreeMap"}
      BY <3>1 DEF Wants
    <3>3. mutex["HashTreeMap"] \notin S
      <4>1. SUFFICES ASSUME mutex["HashTreeMap"] \in S PROVE FALSE
        OBVIOUS
      <4>2. pc[mutex["HashTreeMap"]] = "peaks3"
        BY <2>0, <4>1, ThreadFacts DEF Holder
      <4> QED
        BY <2>0, <3>1, <4>1, <4>2, ThreadFacts DEF Role, Loading, Serving
    <3> QED
      BY <2>1, <3>2, <3>3
  <2>2. CASE mutex["PeakHashMap"] \notin S /\ mutex["HashTreeMap"] \in S
    <3>1. pc[mutex["HashTreeMap"]] = "peaks3"
      BY <2>0, <2>2, ThreadFacts DEF Holder
    <3>2. Wants(mutex["HashTreeMap"]) = {"PeakHashMap"}
      BY <3>1 DEF Wants
    <3> QED
      BY <2>2, <3>2
  <2>3. CASE /\ mutex["PeakHashMap"] \notin S /\ mutex["HashTreeMap"] \notin S
             /\ mutex["IntegrityMap"] \in S
    <3>1. pc[mutex["IntegrityMap"]] \in {"insert", "count", "move", "peaks2", "peaks3"}
      BY <2>0, <2>3, ThreadFacts DEF Holder
    <3>2. Wants(mutex["IntegrityMap"]) \subseteq {"HashTreeMap", "PeakHashMap"}
      BY <3>1 DEF Wants
    <3> QED
      BY <2>3, <3>2
  <2>4. CASE \A x \in Mutexes : mutex[x] \notin S
    <3>1. \A t \in S : Wants(t) \subseteq Mutexes
      BY DEF Wants, Mutexes
    <3> QED
      BY <1>2, <2>4, <3>1
  <2> QED
    BY <2>1, <2>2, <2>3, <2>4 DEF Mutexes
<1> QED
  BY <1>1, <1>2 DEF NoDeadlock

\* No threads wait for each other, nor for one that has left its call, although
\* the calls take the mutexes in different orders: whatever the number of threads.
THEOREM Deadlocks == PeaksCheckable => (Spec => []NoDeadlock)
<1> SUFFICES ASSUME PeaksCheckable PROVE Spec => []NoDeadlock
  OBVIOUS
<1>1. IInv /\ [Next]_vars => IInv'
  BY InvStep
<1> QED
  BY <1>1, InvInit, Deadlockless, PTL DEF Spec

\* However the calls interleave, a hash that was sent is somewhere until the tree
\* has it.
THEOREM Losses == PeaksCheckable => (Spec => []NothingLost)
<1> SUFFICES ASSUME PeaksCheckable PROVE Spec => []NothingLost
  OBVIOUS
<1>1. IInv /\ [Next]_vars => IInv'
  BY InvStep
<1>2. IInv => NothingLost
  <2>1. SUFFICES ASSUME IInv, ~IsSeeder, NEW t \in Downloads
                 PROVE  sent[t] \cup (IF sent[t] = {} THEN {} ELSE ContentPeaks)
                            \subseteq inbox[t] \cup Received(t) \cup tmpmap[t] \cup HashTreeMap
    BY DEF NothingLost
  <2>2. t \in Threads /\ t \in Loading
    BY <2>1 DEF Threads, Loading
  <2> QED
    BY <2>1, <2>2, ThreadFacts DEF Lossless
<1> QED
  BY <1>1, <1>2, InvInit, PTL DEF Spec

\* A node that is served chunk by chunk from a tree that others still fill has
\* every hash that proves its chunk, if the peak hashes are those of the content.
THEOREM Served == PeaksCheckable => (Spec => []ServedIsEnough)
<1> SUFFICES ASSUME PeaksCheckable PROVE Spec => []ServedIsEnough
  OBVIOUS
<1>1. IInv /\ [Next]_vars => IInv'
  BY InvStep
<1>2. IInv => ServedIsEnough
  <2>1. SUFFICES ASSUME IInv, NEW t \in Threads, pc[t] = "served",
                        PeakHashMap \subseteq ContentPeaks
                 PROVE  /\ tmpmap[t] = ContentPeaks
                        /\ \A r \in Siblings(chunk[t], 0, Height) :
                              Padding(r) \/ r \in sent[t] \cup tmpmap[t]
    BY DEF ServedIsEnough
  <2> QED
    BY <2>1, ThreadFacts DEF Peaks, SentRight
<1> QED
  BY <1>1, <1>2, InvInit, PTL DEF Spec
=============================================================================
