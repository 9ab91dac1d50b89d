--------------------------- MODULE HashTreeProofs ---------------------------
(* Proofs about HashTree, for every content of two chunks or more, every set *)
(* of swarms and every number of hashes and data that are lost, spoilt or    *)
(* late: what is stored and served is of the content. And, while none is,    *)
(* that the checks reject nothing good and find the last chunk.              *)
EXTENDS HashTree, MerkleTreeProofs

-----------------------------------------------------------------------------
(* The tree *)

\* Nodes and siblings on the way up from a leaf.
LEMMA WayUp ==
    ASSUME NEW i \in 0..(Leaves - 1), NEW k \in Levels
    PROVE  LET r == NodeOf(i, k)
               s == SiblingOf(i, k)
           IN  /\ r.Start \in Nat /\ r.End \in Nat /\ r.Start <= i /\ i <= r.End
               /\ r.End <= Leaves - 1
               /\ r = [Start |-> r.Start, End |-> r.End]
               /\ s = [Start |-> s.Start, End |-> s.End]
               /\ k < Height => /\ s.Start \in Nat /\ s.End \in Nat /\ s.Start <= s.End
                                /\ s.End <= Leaves - 1
                                /\ s = NodeOf(s.Start, k)
               /\ k = Height => r.Start = 0 /\ r.End = Leaves - 1
                                /\ TreeIndex(s) > 2 * (Leaves - 1)
<1> DEFINE r == NodeOf(i, k)
           s == SiblingOf(i, k)
<1>0. /\ NumChunks \in Nat /\ Doubling(NumChunks) /\ i \in Nat /\ k \in 0..NumChunks
      /\ k \in 0..(NumChunks + 1) /\ Height \in 0..NumChunks /\ Height \in 0..(NumChunks + 1)
      /\ i \in 0..(Width(Height) - 1) /\ k <= Height /\ Leaves = Width(Height)
      /\ k < Height => k \in 0..(Height - 1)
  BY TreeFacts
<1>1. /\ r.Start \in Nat /\ r.End \in Nat /\ r.Start <= i /\ i <= r.End
  BY <1>0, NodeFacts
<1>2. NodeOf(i, Height).Start = 0 /\ NodeOf(i, Height).End = Leaves - 1
  <2>1. NodeOf(i, Height) = [Start |-> 0, End |-> Width(Height) - 1]
    BY <1>0, RootNode
  <2> QED
    BY <1>0, <2>1
<1>3. r.End <= Leaves - 1
  BY <1>0, <1>2, Nested
<1>4. ASSUME k < Height
      PROVE  /\ s.Start \in Nat /\ s.End \in Nat /\ s.Start <= s.End
             /\ s.End <= Leaves - 1 /\ s = NodeOf(s.Start, k)
  <2>1. /\ s.Start \in Nat /\ s.End \in Nat /\ s.Start <= s.End
        /\ s.End <= Width(Height) - 1
    BY <1>0, <1>4, SiblingWithin
  <2>2. s = NodeOf(s.Start, k)
    BY <1>0, SiblingOfSibling
  <2> QED
    BY <1>0, <2>1, <2>2
<1>5. TreeIndex(SiblingOf(i, Height)) > 2 * (Leaves - 1)
  BY <1>0, SiblingOfRoot
<1> QED
  BY <1>1, <1>2, <1>3, <1>4, <1>5, NodeRecords

\* Below it, all that is around a node is around the nodes above it: siblings
\* up to a level are within the node of that level.
LEMMA SiblingsBelow ==
    ASSUME NEW i \in 0..(Leaves - 1), NEW k \in Levels, NEW l \in 0..(k - 1)
    PROVE  /\ NodeOf(i, k).Start <= SiblingOf(i, l).Start
           /\ SiblingOf(i, l).End <= NodeOf(i, k).End
<1> DEFINE r == NodeOf(i, l)
           s == SiblingOf(i, l)
           p == NodeOf(i, l + 1)
           t == NodeOf(i, k)
<1>0. /\ NumChunks \in Nat /\ Doubling(NumChunks) /\ i \in Nat
      /\ l \in 0..NumChunks /\ l \in 0..(NumChunks + 1)
      /\ l + 1 \in 0..(NumChunks + 1) /\ k \in 0..(NumChunks + 1) /\ l + 1 <= k
  BY TreeFacts
<1>1. /\ s.Start \in Nat /\ s.End = s.Start + Width(l) - 1
      /\ \/ s.Start = r.End + 1 /\ p.Start = r.Start /\ p.End = s.End
         \/ s.End = r.Start - 1 /\ p.Start = s.Start /\ p.End = r.End
  BY <1>0, Halves
<1>2. /\ r.Start \in Nat /\ r.End \in Nat /\ r.Start <= r.End
      /\ p.Start \in Nat /\ p.End \in Nat /\ t.Start \in Nat /\ t.End \in Nat
  <2>1. /\ r.Start \in Nat /\ r.End \in Nat /\ r.Start <= i /\ i <= r.End
        /\ p.Start \in Nat /\ p.End \in Nat /\ t.Start \in Nat /\ t.End \in Nat
    BY <1>0, NodeFacts
  <2> QED
    BY <1>0, <2>1
<1>3. t.Start <= p.Start /\ p.End <= t.End
  BY <1>0, Nested
<1>4. Width(l) \in Nat
  BY <1>0, PowerPositive
<1> HIDE DEF r, s, p, t
<1>5. t.Start <= s.Start /\ s.End <= t.End
  BY <1>1, <1>2, <1>3, <1>4
<1> QED
  BY <1>5 DEF s, t

\* A node that is around the first and the last chunk is the root.
LEMMA RootOnly ==
    ASSUME NEW i \in 0..(Leaves - 1), NEW k \in Levels,
           NodeOf(i, k).Start = 0, NumChunks - 1 <= NodeOf(i, k).End
    PROVE  k = Height
<1>1. SUFFICES ASSUME k # Height PROVE FALSE
  OBVIOUS
<1>2. /\ NumChunks \in Nat /\ Doubling(NumChunks) /\ i \in Nat /\ k < Height
      /\ k \in 0..(NumChunks + 1) /\ Height - 1 \in 0..(NumChunks + 1)
      /\ Width(Height - 1) \in Nat /\ Width(Height - 1) < NumChunks
      /\ k \in 0..NumChunks /\ Height \in 0..(NumChunks + 1)
  BY <1>1, TreeFacts
<1>3. NodeOf(i, k).End = NodeOf(i, k).Start + Width(k) - 1 /\ Width(k) \in Nat
  BY <1>2, NodeFacts, PowerPositive
<1>4. Width(k) <= Width(Height - 1)
  <2>1. CASE k = Height - 1
    BY <1>2, <2>1
  <2>2. CASE k < Height - 1
    <3>1. 2 * Width(k) <= Width(Height - 1)
      BY <1>2, <2>2, PowersGrow
    <3> QED
      BY <1>2, <1>3, <3>1
  <2> QED
    BY <1>2, <2>1, <2>2
<1> QED
  BY <1>2, <1>3, <1>4

-----------------------------------------------------------------------------
(* Hashes of the content, and spoilt ones *)

\* What may be on its way, or in a channel's map: a node of the content's tree,
\* or such a node with another hash.
Spoilt(m) == [Start |-> m.Start, End |-> m.End, Hash |-> Bad]
Near == ContentTree \cup {Spoilt(m) : m \in ContentTree}

\* A node of the content's tree: where it lies, and what its hash is made of.
LEMMA ContentNode ==
    ASSUME NEW m \in ContentTree
    PROVE  /\ m = [Start |-> m.Start, End |-> m.End, Hash |-> m.Hash]
           /\ \E i \in 0..(Leaves - 1), k \in Levels :
                 m.Start = NodeOf(i, k).Start /\ m.End = NodeOf(i, k).End
           /\ m.Start \in 0..(Leaves - 1) /\ m.End \in 0..(Leaves - 1) /\ m.Start <= m.End
           /\ m.Hash \in Seq(Int)
           /\ \A s \in Parts(m.Hash) : s \in {-1, -2} \cup Chunks
           /\ \A j \in Chunks : j \in Parts(m.Hash) <=> m.Start <= j /\ j <= m.End
<1>0. /\ NumChunks \in Nat /\ Doubling(NumChunks) /\ Depth(NumChunks) \in 0..NumChunks
      /\ Leaves = Width(Depth(NumChunks)) /\ Levels = 0..Depth(NumChunks) /\ Leaves \in Nat
  BY TreeFacts DEF Height
<1>1. /\ m = [Start |-> m.Start, End |-> m.End, Hash |-> m.Hash]
      /\ \E i \in 0..(Leaves - 1), k \in Levels :
            m.Start = NodeOf(i, k).Start /\ m.End = NodeOf(i, k).End
      /\ m.Hash \in Seq(Int)
      /\ \A s \in Parts(m.Hash) : s \in {-1, -2} \cup 0..(NumChunks - 1)
      /\ \A j \in 0..(NumChunks - 1) : j \in Parts(m.Hash) <=> m.Start <= j /\ j <= m.End
  BY <1>0, MadeNode DEF ContentTree
<1>2. PICK i \in 0..(Leaves - 1), k \in Levels :
         m.Start = NodeOf(i, k).Start /\ m.End = NodeOf(i, k).End
  BY <1>1
<1>3. /\ m.Start \in Nat /\ m.End \in Nat /\ m.Start <= i /\ i <= m.End
      /\ m.End <= Leaves - 1
  BY <1>2, WayUp
<1>4. m.Start \in 0..(Leaves - 1) /\ m.End \in 0..(Leaves - 1) /\ m.Start <= m.End
  BY <1>0, <1>3
<1> QED
  BY <1>1, <1>4 DEF Chunks

\* What is near is such a node, or has a hash that is Bad.
LEMMA NearNode ==
    ASSUME NEW m \in Near
    PROVE  /\ m \in [Start : 0..(Leaves - 1), End : 0..(Leaves - 1), Hash : Seq(Int)]
           /\ m.Start <= m.End
           /\ \E i \in 0..(Leaves - 1), k \in Levels :
                 m.Start = NodeOf(i, k).Start /\ m.End = NodeOf(i, k).End
           /\ m \in ContentTree \/ -3 \in Parts(m.Hash)
           /\ Spoilt(m) \in Near
           /\ TreeIndex(m) \in 0..(2 * (Leaves - 1))
<1>1. PICK p \in ContentTree : m = p \/ m = Spoilt(p)
  BY DEF Near
<1>2. /\ p.Start \in 0..(Leaves - 1) /\ p.End \in 0..(Leaves - 1) /\ p.Start <= p.End
      /\ p.Hash \in Seq(Int) /\ p = [Start |-> p.Start, End |-> p.End, Hash |-> p.Hash]
      /\ \E i \in 0..(Leaves - 1), k \in Levels :
            p.Start = NodeOf(i, k).Start /\ p.End = NodeOf(i, k).End
  BY ContentNode
<1>3. m.Start = p.Start /\ m.End = p.End /\ Spoilt(m) = Spoilt(p)
  BY <1>1 DEF Spoilt
<1>4. TreeIndex(m) \in 0..(2 * (Leaves - 1))
  BY <1>2, <1>3, TreeFacts DEF TreeIndex
<1>5. m = p => m \in [Start : 0..(Leaves - 1), End : 0..(Leaves - 1), Hash : Seq(Int)]
  BY <1>2
<1>6. m = Spoilt(p) => /\ m \in [Start : 0..(Leaves - 1), End : 0..(Leaves - 1), Hash : Seq(Int)]
                       /\ -3 \in Parts(m.Hash)
  <2>1. Bad \in Seq(Int) /\ -3 \in Parts(Bad)
    BY LeafParts
  <2> QED
    BY <1>2, <2>1 DEF Spoilt
<1> QED
  BY <1>1, <1>2, <1>3, <1>4, <1>5, <1>6 DEF Near

\* A node of the content under the index of a sibling lies where the sibling
\* does.
LEMMA AtSibling ==
    ASSUME NEW m \in Near, NEW i \in 0..(Leaves - 1), NEW k \in 0..(Height - 1),
           TreeIndex(m) = TreeIndex(SiblingOf(i, k))
    PROVE  m.Start = SiblingOf(i, k).Start /\ m.End = SiblingOf(i, k).End
<1> DEFINE s == SiblingOf(i, k)
<1>1. PICK j \in 0..(Leaves - 1), l \in Levels :
         m.Start = NodeOf(j, l).Start /\ m.End = NodeOf(j, l).End
  BY NearNode
<1>2. k \in Levels /\ k < Height
  BY TreeFacts
<1>3. s.Start \in Nat /\ s = NodeOf(s.Start, k)
  BY <1>2, WayUp
<1>4. TreeIndex(NodeOf(j, l)) = TreeIndex(NodeOf(s.Start, k))
  <2>1. TreeIndex(NodeOf(j, l)) = TreeIndex(m)
    BY <1>1 DEF TreeIndex
  <2> QED
    BY <1>3, <2>1
<1>5. NodeOf(j, l) = NodeOf(s.Start, k)
  <2>1. /\ NumChunks \in Nat /\ Doubling(NumChunks) /\ j \in Nat
        /\ l \in 0..NumChunks /\ k \in 0..NumChunks
    BY <1>2, TreeFacts
  <2> HIDE DEF s
  <2> QED
    BY <1>3, <1>4, <2>1, IndexUnique
<1> QED
  BY <1>1, <1>3, <1>5

\* The hash of the root is made of all chunks of the content.
LEMMA RootParts ==
    /\ RootHash \in Seq(Int) /\ Chunks \subseteq Parts(RootHash)
    /\ -3 \notin Parts(RootHash)
<1> DEFINE m == At(ContentTree, Leaves - 1)
<1>0. 0 \in 0..(Leaves - 1) /\ Height \in Levels /\ Leaves \in Nat
      /\ NumChunks \in Nat /\ Doubling(NumChunks) /\ Height \in 0..NumChunks /\ 0 \in Nat
      /\ NumChunks <= Leaves /\ Levels = 0..Height
  BY TreeFacts
<1>1. NodeOf(0, Height).Start = 0 /\ NodeOf(0, Height).End = Leaves - 1
  BY <1>0, WayUp
<1>2. \E p \in ContentTree : TreeIndex(p) = Leaves - 1
  <2> DEFINE p == Node(NodeOf(0, Height), MakeHash(NumChunks)[Height][0 \div 2^Height])
  <2>1. p \in ContentTree
    BY <1>0 DEF ContentTree, Make, Height, Levels, Leaves
  <2>2. p.Start = 0 /\ p.End = Leaves - 1
    BY <1>1 DEF Node
  <2>3. TreeIndex(p) = Leaves - 1
    <3> HIDE DEF p
    <3> QED
      BY <1>0, <2>2 DEF TreeIndex
  <2> QED
    BY <2>1, <2>3
<1>3. m \in ContentTree /\ TreeIndex(m) = Leaves - 1
  BY <1>2 DEF At
<1> HIDE DEF m
<1>4. PICK i \in 0..(Leaves - 1), k \in Levels :
         m.Start = NodeOf(i, k).Start /\ m.End = NodeOf(i, k).End
  BY <1>3, ContentNode
<1>5. NodeOf(i, k) = NodeOf(0, Height)
  <2>1. TreeIndex(NodeOf(i, k)) = TreeIndex(NodeOf(0, Height))
    BY <1>0, <1>1, <1>3, <1>4 DEF TreeIndex
  <2>2. i \in Nat /\ k \in 0..NumChunks
    BY <1>0
  <2> QED
    BY <1>0, <2>1, <2>2, IndexUnique
<1>6. m.Start = 0 /\ m.End = Leaves - 1
  BY <1>1, <1>4, <1>5
<1>7. RootHash = m.Hash
  BY DEF RootHash, m
<1>8. /\ m.Hash \in Seq(Int) /\ \A s \in Parts(m.Hash) : s \in {-1, -2} \cup Chunks
      /\ \A j \in Chunks : j \in Parts(m.Hash) <=> m.Start <= j /\ j <= m.End
  BY <1>3, ContentNode
<1>9. \A j \in Chunks : 0 <= j /\ j <= Leaves - 1
  BY <1>0 DEF Chunks
<1>10. -3 \notin {-1, -2} \cup Chunks
  BY <1>0 DEF Chunks
<1> QED
  BY <1>6, <1>7, <1>8, <1>9, <1>10

\* A way up that ends with the hash of the root has started from and used no
\* spoilt hash; it has gone up to the root, and used all of the content.
LEMMA ProvesRoot ==
    ASSUME NEW i \in 0..(Leaves - 1), NEW from \in Levels, NEW top \in from..Height,
           NEW h \in Seq(Int),
           \A s \in Parts(h) : \/ s \in {-1, -2, -3}
                               \/ NodeOf(i, from).Start <= s /\ s <= NodeOf(i, from).End,
           NEW sib,
           \A k \in from..(top - 1) :
              /\ sib[k] \in Seq(Int)
              /\ \A s \in Parts(sib[k]) : \/ s \in {-1, -2, -3}
                                          \/ SiblingOf(i, k).Start <= s /\ s <= SiblingOf(i, k).End,
           IsRootHash(HashUp(i, h, from, top, sib))
    PROVE  /\ -3 \notin Parts(h) /\ \A k \in from..(top - 1) : -3 \notin Parts(sib[k])
           /\ top = Height
           /\ \A j \in Chunks : \/ j \in Parts(h)
                                \/ \E k \in from..(top - 1) : j \in Parts(sib[k])
<1>0. /\ from \in Nat /\ top \in Nat /\ from <= top /\ top \in Levels
      /\ Levels = 0..Height /\ Height \in Nat
      /\ NumChunks \in Nat /\ NumChunks >= 2 /\ Doubling(NumChunks)
  BY TreeFacts
<1>1. HashUp(i, h, from, top, sib) = RootHash
  BY DEF IsRootHash
<1>2. /\ Parts(h) \subseteq Parts(RootHash)
      /\ \A k \in from..(top - 1) : Parts(sib[k]) \subseteq Parts(RootHash)
      /\ \A s \in Parts(RootHash) : \/ s \in Parts(h) \cup {-1, -2}
                                    \/ \E k \in from..(top - 1) : s \in Parts(sib[k])
  <2> DEFINE r == HashUp(i, h, from, top, sib)
  <2>1. \A k \in from..(top - 1) : sib[k] \in Seq(Int)
    OBVIOUS
  <2>2. /\ PathParts(h, sib, from, top) \subseteq Parts(r)
        /\ Parts(r) \subseteq PathParts(h, sib, from, top) \cup {-1, -2}
    BY <1>0, <2>1, HashUpParts
  <2>3. r = RootHash
    BY <1>1
  <2> HIDE DEF r
  <2> QED
    BY <2>2, <2>3 DEF PathParts
<1>3. Chunks \subseteq Parts(RootHash) /\ -3 \notin Parts(RootHash)
  BY RootParts
<1>4. \A j \in Chunks : j \in Nat /\ j \notin {-1, -2, -3}
  BY <1>0 DEF Chunks
<1>5. \A j \in Chunks : \/ j \in Parts(h)
                        \/ \E k \in from..(top - 1) : j \in Parts(sib[k])
  BY <1>2, <1>3, <1>4
<1>6. ASSUME NEW j \in Chunks
      PROVE  NodeOf(i, top).Start <= j /\ j <= NodeOf(i, top).End
  <2> DEFINE t == NodeOf(i, top)
  <2>1. /\ t.Start \in Nat /\ t.End \in Nat
    BY <1>0, WayUp
  <2>2. CASE j \in Parts(h)
    <3> DEFINE r == NodeOf(i, from)
    <3>1. r.Start <= j /\ j <= r.End
      BY <1>4, <2>2
    <3>2. r.Start \in Nat /\ r.End \in Nat
      BY WayUp
    <3>3. t.Start <= r.Start /\ r.End <= t.End
      <4>1. from \in 0..(NumChunks + 1) /\ top \in 0..(NumChunks + 1) /\ i \in Nat
        BY <1>0, TreeFacts
      <4> QED
        BY <1>0, <4>1, Nested
    <3> HIDE DEF r, t
    <3> QED
      BY <1>4, <2>1, <3>1, <3>2, <3>3 DEF t
  <2>3. ASSUME NEW k \in from..(top - 1), j \in Parts(sib[k])
        PROVE  t.Start <= j /\ j <= t.End
    <3> DEFINE s == SiblingOf(i, k)
    <3>1. s.Start <= j /\ j <= s.End
      BY <1>4, <2>3
    <3>2. k \in 0..(top - 1) /\ k \in Levels /\ k < Height
      BY <1>0
    <3>3. s.Start \in Nat /\ s.End \in Nat
      BY <3>2, WayUp
    <3>4. t.Start <= s.Start /\ s.End <= t.End
      BY <1>0, <3>2, SiblingsBelow
    <3> HIDE DEF s, t
    <3> QED
      BY <1>4, <2>1, <3>1, <3>3, <3>4
  <2> QED
    BY <1>5, <2>2, <2>3
<1>7. top = Height
  <2>1. 0 \in Chunks /\ NumChunks - 1 \in Chunks
    BY <1>0 DEF Chunks
  <2>2. NodeOf(i, top).Start = 0
    <3>1. NodeOf(i, top).Start \in Nat
      BY <1>0, WayUp
    <3> QED
      BY <1>6, <2>1, <3>1
  <2> QED
    BY <1>0, <1>6, <2>1, <2>2, RootOnly
<1> QED
  BY <1>2, <1>3, <1>5, <1>7

\* What At finds.
LEMMA AtFound ==
    ASSUME NEW map, NEW idx \in Indexes(map)
    PROVE  At(map, idx) \in map /\ TreeIndex(At(map, idx)) = idx
<1>1. \E m \in map : TreeIndex(m) = idx
  BY DEF Indexes
<1> QED
  BY <1>1 DEF At

\* At most one node under each index.
OneEach(map) == \A m, p \in map : TreeIndex(m) = TreeIndex(p) => m = p

\* What Put leaves in a map.
LEMMA PutFacts ==
    ASSUME NEW map, NEW nodes
    PROVE  /\ nodes \subseteq Put(map, nodes) /\ Put(map, nodes) \subseteq map \cup nodes
           /\ Indexes(Put(map, nodes)) = Indexes(map) \cup Indexes(nodes)
           /\ \A m \in Put(map, nodes), p \in nodes :
                 TreeIndex(m) = TreeIndex(p) => m \in nodes
           /\ OneEach(map) /\ OneEach(nodes) => OneEach(Put(map, nodes))
  BY DEF Put, Indexes, OneEach

\* A node of the content under the index of a sibling gives a hash that is made
\* of the sibling's chunks, or is Bad.
LEMMA SiblingHash ==
    ASSUME NEW m \in Near, NEW i \in 0..(Leaves - 1), NEW k \in 0..(Height - 1),
           TreeIndex(m) = TreeIndex(SiblingOf(i, k))
    PROVE  /\ m.Hash \in Seq(Int)
           /\ \A s \in Parts(m.Hash) :
                 \/ s \in {-1, -2, -3}
                 \/ s \in Chunks /\ SiblingOf(i, k).Start <= s /\ s <= SiblingOf(i, k).End
<1>1. m.Start = SiblingOf(i, k).Start /\ m.End = SiblingOf(i, k).End
  BY AtSibling
<1>2. PICK p \in ContentTree : m = p \/ m = Spoilt(p)
  BY DEF Near
<1>3. CASE m = p
  <2>1. /\ m.Hash \in Seq(Int)
        /\ \A s \in Parts(m.Hash) : s \in {-1, -2} \cup Chunks
        /\ \A j \in Chunks : j \in Parts(m.Hash) <=> m.Start <= j /\ j <= m.End
    BY <1>3, ContentNode
  <2> QED
    BY <1>1, <2>1
<1>4. CASE m = Spoilt(p)
  <2>1. m.Hash = Bad
    BY <1>4 DEF Spoilt
  <2> QED
    BY <2>1, LeafParts
<1> QED
  BY <1>2, <1>3, <1>4

\* The hash of every sibling is in the content's tree.
LEMMA SiblingMade ==
    ASSUME NEW i \in 0..(Leaves - 1), NEW k \in 0..(Height - 1)
    PROVE  TreeIndex(SiblingOf(i, k)) \in Indexes(ContentTree)
<1> DEFINE s == SiblingOf(i, k)
           m == Node(NodeOf(s.Start, k), MakeHash(NumChunks)[k][s.Start \div 2^k])
<1>1. k \in Levels /\ k < Height
  BY TreeFacts
<1>2. s.Start \in 0..(Leaves - 1) /\ s = NodeOf(s.Start, k)
  <2>1. /\ s.Start \in Nat /\ s.End \in Nat /\ s.Start <= s.End
        /\ s.End <= Leaves - 1 /\ s = NodeOf(s.Start, k)
    BY <1>1, WayUp
  <2> HIDE DEF s
  <2> QED
    BY <2>1, TreeFacts
<1>3. m \in ContentTree
  <2> HIDE DEF s
  <2> QED
    BY <1>1, <1>2 DEF ContentTree, Make, Levels, Leaves, Height
<1>4. TreeIndex(m) = TreeIndex(s)
  <2>1. m.Start = s.Start /\ m.End = s.End
    BY <1>2 DEF Node
  <2> HIDE DEF m, s
  <2> QED
    BY <2>1 DEF TreeIndex
<1> HIDE DEF m, s
<1>5. TreeIndex(s) \in Indexes(ContentTree)
  BY <1>3, <1>4 DEF Indexes
<1> QED
  BY <1>5 DEF s

\* Indexes of hashes are numbers.
LEMMA IndexRange ==
    ASSUME NEW map \in SUBSET Near
    PROVE  Indexes(map) \subseteq Nat
  BY NearNode, TreeFacts DEF Indexes

\* A node of the content is as it should be.
LEMMA ContentNear == ContentTree \subseteq Near
  BY DEF Near

-----------------------------------------------------------------------------
(* What the checks prove *)

\* The lowest of a set of levels.
LEMMA LowestLevel ==
    ASSUME NEW from \in Levels, NEW S \in SUBSET (from..(Height + 1)), Height \in S
    PROVE  Min(S) \in S /\ Min(S) \in from..Height /\ \A k \in S : Min(S) <= k
<1>1. from \in Nat /\ Height \in Nat
  BY TreeFacts
<1>2. S \in SUBSET Nat /\ S # {}
  BY <1>1
<1>3. Min(S) \in S /\ \A k \in S : Min(S) <= k
  BY <1>2, MinInSet
<1>4. Min(S) \in from..(Height + 1) /\ Min(S) <= Height
  BY <1>3
<1> QED
  BY <1>1, <1>3, <1>4

\* A hash that is made of leaves of the node r only, or Bad.
MadeWithin(h, r) ==
    /\ h \in Seq(Int)
    /\ \A s \in Parts(h) : s \in {-1, -2, -3} \/ (r.Start <= s /\ s <= r.End)

\* The siblings on the way up from one level to another have their hashes from
\* a map, those of the levels real, or none.
Supplied(sib, i, from, top, real, map) ==
    /\ real \subseteq from..(top - 1)
    /\ \A k \in real : TreeIndex(SiblingOf(i, k)) \in Indexes(map)
    /\ \A k \in from..(top - 1) :
          sib[k] = IF k \in real THEN At(map, TreeIndex(SiblingOf(i, k))).Hash
                   ELSE Null

\* A way up that ends with the hash of the root, with siblings' hashes from a
\* map: those used are of the content.
LEMMA WayProved ==
    ASSUME NEW i \in 0..(Leaves - 1), NEW from \in Levels, NEW top \in from..Height,
           NEW h, MadeWithin(h, NodeOf(i, from)),
           NEW map \in SUBSET Near, NEW real, NEW sib,
           Supplied(sib, i, from, top, real, map),
           IsRootHash(HashUp(i, h, from, top, sib))
    PROVE  /\ top = Height /\ -3 \notin Parts(h)
           /\ \A k \in real : At(map, TreeIndex(SiblingOf(i, k))) \in ContentTree
           /\ \A j \in Chunks : \/ j \in Parts(h)
                                \/ \E k \in real : /\ SiblingOf(i, k).Start <= j
                                                   /\ j <= SiblingOf(i, k).End
<1> DEFINE node(k) == At(map, TreeIndex(SiblingOf(i, k)))
<1>0. /\ from \in Nat /\ top \in Nat /\ Height \in Nat /\ NumChunks \in Nat
      /\ real \subseteq from..(top - 1) /\ h \in Seq(Int)
      /\ \A s \in Parts(h) : \/ s \in {-1, -2, -3}
                             \/ NodeOf(i, from).Start <= s /\ s <= NodeOf(i, from).End
  BY TreeFacts DEF Supplied, MadeWithin
<1>1. ASSUME NEW k \in real
      PROVE  /\ node(k) \in Near /\ node(k).Hash \in Seq(Int)
             /\ \A s \in Parts(node(k).Hash) :
                   \/ s \in {-1, -2, -3}
                   \/ /\ s \in Chunks
                      /\ SiblingOf(i, k).Start <= s /\ s <= SiblingOf(i, k).End
  <2>1. node(k) \in map /\ TreeIndex(node(k)) = TreeIndex(SiblingOf(i, k))
    BY AtFound DEF Supplied
  <2>2. k \in 0..(Height - 1)
    BY <1>0
  <2> HIDE DEF node
  <2> QED
    BY <2>1, <2>2, SiblingHash
<1>2. ASSUME NEW k \in from..(top - 1)
      PROVE  /\ sib[k] \in Seq(Int)
             /\ k \in real => sib[k] = node(k).Hash
             /\ k \notin real => Parts(sib[k]) = {}
             /\ \A s \in Parts(sib[k]) :
                   \/ s \in {-1, -2, -3}
                   \/ SiblingOf(i, k).Start <= s /\ s <= SiblingOf(i, k).End
  <2>1. CASE k \in real
    <3>1. sib[k] = node(k).Hash
      BY <2>1 DEF Supplied
    <3> HIDE DEF node
    <3> QED
      BY <1>1, <2>1, <3>1
  <2>2. CASE k \notin real
    <3>1. sib[k] = Null
      BY <2>2 DEF Supplied
    <3> QED
      BY <2>2, <3>1, LeafParts
  <2> QED
    BY <2>1, <2>2
<1> HIDE DEF node
<1>3. /\ -3 \notin Parts(h) /\ \A k \in from..(top - 1) : -3 \notin Parts(sib[k])
      /\ top = Height
      /\ \A j \in Chunks : \/ j \in Parts(h)
                           \/ \E k \in from..(top - 1) : j \in Parts(sib[k])
  BY <1>0, <1>2, ProvesRoot
<1>4. ASSUME NEW k \in real PROVE node(k) \in ContentTree
  <2>1. k \in from..(top - 1) /\ -3 \notin Parts(node(k).Hash)
    BY <1>0, <1>2, <1>3
  <2> QED
    BY <1>1, <2>1, NearNode
<1>5. ASSUME NEW j \in Chunks, j \notin Parts(h)
      PROVE  \E k \in real : SiblingOf(i, k).Start <= j /\ j <= SiblingOf(i, k).End
  <2>1. PICK k \in from..(top - 1) : j \in Parts(sib[k])
    BY <1>3, <1>5
  <2>2. k \in real /\ j \in Parts(node(k).Hash)
    BY <1>0, <1>2, <2>1
  <2>3. j \notin {-1, -2, -3}
    BY <1>0 DEF Chunks
  <2> QED
    BY <1>1, <2>2, <2>3
<1> QED
  BY <1>3, <1>4, <1>5 DEF node

\* The hash of data: of the chunk, or of something else.
LEMMA DataParts ==
    ASSUME NEW i \in 0..(Leaves - 1), NEW h \in {Leaf(i), Bad}
    PROVE  /\ 0 \in Levels /\ MadeWithin(h, NodeOf(i, 0))
           /\ -3 \notin Parts(h) => h = Leaf(i) /\ h # Bad
<1>1. 0 \in Levels /\ i \in Int
  BY TreeFacts
<1>2. NodeOf(i, 0).Start <= i /\ i <= NodeOf(i, 0).End
  BY <1>1, WayUp
<1>3. CASE h = Leaf(i)
  <2>1. h \in Seq(Int) /\ Parts(h) = {i}
    BY <1>1, <1>3, LeafParts
  <2>2. -3 \notin Parts(h) /\ -3 \in Parts(Bad)
    BY <1>1, <2>1, LeafParts
  <2> QED
    BY <1>1, <1>2, <1>3, <2>1, <2>2 DEF MadeWithin
<1>4. CASE h = Bad
  <2>1. h \in Seq(Int) /\ Parts(h) = {-3}
    BY <1>4, LeafParts
  <2> QED
    BY <1>1, <2>1 DEF MadeWithin
<1> QED
  BY <1>3, <1>4

\* The check of the first data: the level the way up ends at, the nodes used
\* and the hashes of the siblings.
FirstTop(i, map) ==
    Min({k \in 0..(Depth(NumChunks) + 1) : TreeIndex(SiblingOf(i, k)) \notin Indexes(map)})

FirstUsed(i, map) ==
    {At(map, TreeIndex(SiblingOf(i, k))) : k \in 0..(FirstTop(i, map) - 1)}

FoundSiblings(i, map) ==
    [k \in 0..(FirstTop(i, map) - 1) |-> At(map, TreeIndex(SiblingOf(i, k))).Hash]

\* When it passes the way up ends at the root, and all that is used is of the
\* content.
LEMMA FirstDataProved ==
    ASSUME NEW i \in 0..(Leaves - 1), NEW map \in SUBSET Near, NEW h \in {Leaf(i), Bad},
           IsRootHash(HashUp(i, h, 0, FirstTop(i, map), FoundSiblings(i, map)))
    PROVE  /\ h # Bad /\ FirstTop(i, map) = Height
           /\ FirstUsed(i, map) \subseteq map \cap ContentTree
           /\ \A k \in 0..(Height - 1) :
                 TreeIndex(SiblingOf(i, k)) \in Indexes(FirstUsed(i, map))
<1> DEFINE idx(k) == TreeIndex(SiblingOf(i, k))
           Unknown == {k \in 0..(Depth(NumChunks) + 1) : idx(k) \notin Indexes(map)}
           top  == Min(Unknown)
           used == {At(map, idx(k)) : k \in 0..(top - 1)}
           sib  == [k \in 0..(top - 1) |-> At(map, idx(k)).Hash]
<1>0. /\ 0 \in Levels /\ Height \in Nat /\ Height = Depth(NumChunks) /\ Height \in Levels
      /\ Leaves \in Nat
  BY TreeFacts DEF Height
<1>1. idx(Height) \notin Indexes(map)
  <2>1. idx(Height) > 2 * (Leaves - 1)
    BY <1>0, WayUp
  <2>2. Indexes(map) \subseteq 0..(2 * (Leaves - 1))
    BY NearNode DEF Indexes
  <2> HIDE DEF idx
  <2> QED
    BY <1>0, <2>1, <2>2
<1>2. /\ top \in 0..Height /\ \A k \in Unknown : top <= k
  <2>1. Unknown \in SUBSET (0..(Height + 1)) /\ Height \in Unknown
    BY <1>0, <1>1
  <2> HIDE DEF Unknown
  <2> QED
    BY <1>0, <2>1, LowestLevel
<1>3. \A k \in 0..(top - 1) : idx(k) \in Indexes(map)
  <2>1. \A k \in 0..(top - 1) : k \in 0..(Depth(NumChunks) + 1) /\ ~(top <= k)
    BY <1>0, <1>2
  <2> HIDE DEF idx, top
  <2> QED
    BY <1>2, <2>1
<1>4. /\ FirstTop(i, map) = top /\ FirstUsed(i, map) = used
      /\ FoundSiblings(i, map) = sib
      /\ IsRootHash(HashUp(i, h, 0, top, sib))
  BY DEF FirstTop, FirstUsed, FoundSiblings
<1> HIDE DEF top
<1>5. /\ top = Height /\ -3 \notin Parts(h)
      /\ \A k \in 0..(top - 1) : At(map, TreeIndex(SiblingOf(i, k))) \in ContentTree
  <2> DEFINE real == 0..(top - 1)
  <2>1. Supplied(sib, i, 0, top, real, map)
    BY <1>3 DEF Supplied
  <2> HIDE DEF real, sib
  <2>2. /\ top = Height /\ -3 \notin Parts(h)
        /\ \A k \in real : At(map, TreeIndex(SiblingOf(i, k))) \in ContentTree
    BY <1>0, <1>2, <1>4, <2>1, DataParts, WayProved
  <2> QED
    BY <2>2 DEF real
<1>6. h # Bad
  BY <1>5, DataParts
<1>7. ASSUME NEW k \in 0..(top - 1)
      PROVE  At(map, idx(k)) \in map /\ TreeIndex(At(map, idx(k))) = idx(k)
  BY <1>3, AtFound
<1>8. used \subseteq map \cap ContentTree
  BY <1>5, <1>7
<1>9. ASSUME NEW k \in 0..(Height - 1) PROVE idx(k) \in Indexes(used)
  <2>1. At(map, idx(k)) \in used /\ TreeIndex(At(map, idx(k))) = idx(k)
    BY <1>5, <1>7
  <2> HIDE DEF idx, used
  <2> QED
    BY <2>1 DEF Indexes
<1> QED
  BY <1>4, <1>5, <1>6, <1>8, <1>9

\* The check of data later on, in the same terms; real are the levels whose
\* siblings are not behind the last chunk.
DataTop(i, count) ==
    Min({k \in 0..(Depth(NumChunks) + 1) : TreeIndex(SiblingOf(i, k)) > (count - 1) * 2})

DataReal(i, count, range) ==
    {k \in 0..(DataTop(i, count) - 1) : SiblingOf(i, k).Start <= range}

DataUsed(i, count, range, map) ==
    {m \in map : \E k \in DataReal(i, count, range) :
                    TreeIndex(SiblingOf(i, k)) = TreeIndex(m)}

DataSiblings(i, count, range, map, tree) ==
    [k \in 0..(DataTop(i, count) - 1) |->
        IF k \notin DataReal(i, count, range) THEN Null
        ELSE At(Put(tree, map), TreeIndex(SiblingOf(i, k))).Hash]

\* When it passes the way up ends at the root, what is used is of the content,
\* and no sibling up to the last chunk is missing.
LEMMA DataProved ==
    ASSUME NEW i \in 0..(Leaves - 1), NEW map \in SUBSET Near, OneEach(map),
           NEW tree \in SUBSET ContentTree, NEW h \in {Leaf(i), Bad},
           NEW count \in 0..Leaves, NEW range,
           \A k \in DataReal(i, count, range) :
              TreeIndex(SiblingOf(i, k)) \in Indexes(map) \cup Indexes(tree),
           IsRootHash(HashUp(i, h, 0, DataTop(i, count),
                             DataSiblings(i, count, range, map, tree)))
    PROVE  /\ h # Bad /\ DataUsed(i, count, range, map) \subseteq ContentTree
           /\ \A k \in 0..(Height - 1) :
                 SiblingOf(i, k).Start <= range =>
                     TreeIndex(SiblingOf(i, k)) \in
                         Indexes(DataUsed(i, count, range, map)) \cup Indexes(tree)
<1> DEFINE sibling(k) == SiblingOf(i, k)
           idx(k) == TreeIndex(sibling(k))
           Above == {k \in 0..(Depth(NumChunks) + 1) : idx(k) > (count - 1) * 2}
           top  == Min(Above)
           real == {k \in 0..(top - 1) : sibling(k).Start <= range}
           used == {m \in map : \E k \in real : idx(k) = TreeIndex(m)}
           both == Put(tree, map)
           sib  == [k \in 0..(top - 1) |->
                       IF k \notin real THEN Null ELSE At(both, idx(k)).Hash]
<1>0. /\ 0 \in Levels /\ Height \in Nat /\ Height = Depth(NumChunks) /\ Height \in Levels
      /\ Leaves \in Nat
  BY TreeFacts DEF Height
<1>1. top \in 0..Height
  <2>1. idx(Height) > 2 * (Leaves - 1) /\ idx(Height) \in Int
    <3>1. idx(Height) > 2 * (Leaves - 1)
      BY <1>0, WayUp
    <3>2. /\ NumChunks \in Nat /\ Doubling(NumChunks) /\ Height \in 0..NumChunks
          /\ i \in 0..(Width(Height) - 1)
      BY TreeFacts
    <3>3. SiblingOf(i, Height).Start = Width(Height) /\ SiblingOf(i, Height).End = 2 * Width(Height) - 1
      BY <3>2, SiblingOfRoot
    <3> QED
      BY <3>1, <3>3, TreeFacts DEF TreeIndex
  <2>2. Above \in SUBSET (0..(Height + 1)) /\ Height \in Above
    <3> HIDE DEF idx
    <3> QED
      BY <1>0, <2>1
  <2> HIDE DEF Above
  <2> QED
    BY <1>0, <2>2, LowestLevel
<1> HIDE DEF top
<1>2. /\ DataTop(i, count) = top /\ DataUsed(i, count, range, map) = used
      /\ \A k \in real : idx(k) \in Indexes(map) \cup Indexes(tree)
      /\ IsRootHash(HashUp(i, h, 0, top, sib))
  <2>1. DataTop(i, count) = top
    BY DEF DataTop, top
  <2>2. DataReal(i, count, range) = real
    BY <2>1 DEF DataReal
  <2>3. DataSiblings(i, count, range, map, tree) = sib
    BY <2>1, <2>2 DEF DataSiblings
  <2>4. DataUsed(i, count, range, map) = used
    BY <2>2 DEF DataUsed
  <2> HIDE DEF real, sib, used
  <2> QED
    BY <2>1, <2>2, <2>3, <2>4
<1>3. /\ both \in SUBSET Near /\ Indexes(both) = Indexes(tree) \cup Indexes(map)
      /\ \A m \in both, p \in map : TreeIndex(m) = TreeIndex(p) => m \in map
  <2>1. ContentTree \subseteq Near
    BY DEF Near
  <2> QED
    BY <2>1, PutFacts
<1> HIDE DEF both
<1>4. /\ top = Height /\ -3 \notin Parts(h)
      /\ \A k \in real : At(both, idx(k)) \in ContentTree
  <2>1. Supplied(sib, i, 0, top, real, both)
    <3>1. \A k \in real : TreeIndex(SiblingOf(i, k)) \in Indexes(both)
      BY <1>2, <1>3
    <3>2. real \subseteq 0..(top - 1)
      OBVIOUS
    <3> HIDE DEF real
    <3> QED
      BY <3>1, <3>2 DEF Supplied
  <2> HIDE DEF real, sib
  <2>2. /\ top = Height /\ -3 \notin Parts(h)
        /\ \A k \in real : At(both, TreeIndex(SiblingOf(i, k))) \in ContentTree
    BY <1>0, <1>1, <1>2, <1>3, <2>1, DataParts, WayProved
  <2> QED
    BY <2>2
<1>5. h # Bad
  BY <1>4, DataParts
<1>6. ASSUME NEW m \in used PROVE m \in ContentTree
  <2>1. PICK k \in real : idx(k) = TreeIndex(m)
    BY <1>6
  <2>2. m \in map
    BY <1>6
  <2> HIDE DEF real, idx
  <2>3. idx(k) \in Indexes(both)
    BY <1>2, <1>3, <2>1
  <2>4. At(both, idx(k)) \in both /\ TreeIndex(At(both, idx(k))) = idx(k)
    BY <2>3, AtFound
  <2>5. At(both, idx(k)) = m
    BY <1>3, <2>1, <2>2, <2>4 DEF OneEach
  <2> QED
    BY <1>4, <2>1, <2>5
<1>7. ASSUME NEW k \in 0..(Height - 1), sibling(k).Start <= range
      PROVE  idx(k) \in Indexes(used) \cup Indexes(tree)
  <2>1. k \in real
    BY <1>4, <1>7
  <2>2. CASE idx(k) \in Indexes(map)
    <3>1. PICK m \in map : TreeIndex(m) = idx(k)
      BY <2>2 DEF Indexes
    <3>2. m \in used
      BY <2>1, <3>1
    <3> HIDE DEF used, idx
    <3> QED
      BY <3>1, <3>2 DEF Indexes
  <2> QED
    BY <1>2, <2>1, <2>2
<1> QED
  BY <1>2, <1>5, <1>6, <1>7

\* The node of a hash that CheckPeakHash starts from, and what the hash is made
\* of.
LEMMA StartNode ==
    ASSUME NEW m \in Near, NEW k \in Levels, m.End = m.Start + 2^k - 1
    PROVE  /\ m.Start \in 0..(Leaves - 1) /\ m.End \in 0..(Leaves - 1) /\ m.Start <= m.End
           /\ NodeOf(m.Start, k).Start = m.Start /\ NodeOf(m.Start, k).End = m.End
           /\ MadeWithin(m.Hash, NodeOf(m.Start, k))
           /\ \A j \in Chunks : j \in Parts(m.Hash) => j <= m.End
<1>1. PICK i \in 0..(Leaves - 1), l \in Levels :
         m.Start = NodeOf(i, l).Start /\ m.End = NodeOf(i, l).End
  BY NearNode
<1>2. /\ m.Start \in 0..(Leaves - 1) /\ m.End \in 0..(Leaves - 1) /\ m.Start <= m.End
      /\ m.Hash \in Seq(Int)
  BY NearNode
<1>3. /\ NumChunks \in Nat /\ Doubling(NumChunks) /\ i \in Nat /\ m.Start \in Nat
      /\ l \in 0..NumChunks /\ k \in 0..NumChunks
      /\ l \in 0..(NumChunks + 1) /\ k \in 0..(NumChunks + 1)
  BY <1>2, TreeFacts
<1>4. NodeOf(m.Start, l) = NodeOf(i, l)
  BY <1>1, <1>2, <1>3, NodeSame
<1>5. l = k
  <2>1. /\ Width(l) \in Nat /\ Width(k) \in Nat /\ Width(l) = Width(k)
        /\ Width(l) # 0 /\ Width(k) # 0
    <3>1. NodeOf(i, l).End = NodeOf(i, l).Start + Width(l) - 1
      BY <1>3, NodeFacts
    <3>2. Width(l) \in Nat \ {0} /\ Width(k) \in Nat \ {0}
      BY <1>3, PowerPositive
    <3>3. m.End = m.Start + Width(k) - 1
      BY DEF Width
    <3> QED
      BY <1>1, <1>2, <3>1, <3>2, <3>3
  <2>2. CASE l < k
    <3>1. 2 * Width(l) <= Width(k)
      BY <1>3, <2>2, PowersGrow
    <3> QED
      BY <2>1, <3>1
  <2>3. CASE k < l
    <3>1. 2 * Width(k) <= Width(l)
      BY <1>3, <2>3, PowersGrow
    <3> QED
      BY <2>1, <3>1
  <2> QED
    BY <1>3, <2>2, <2>3
<1>6. NodeOf(m.Start, k).Start = m.Start /\ NodeOf(m.Start, k).End = m.End
  BY <1>1, <1>4, <1>5
<1>7. PICK p \in ContentTree : m = p \/ m = Spoilt(p)
  BY DEF Near
<1>8. /\ \A s \in Parts(m.Hash) : s \in {-1, -2, -3} \/ (m.Start <= s /\ s <= m.End)
      /\ \A j \in Chunks : j \in Parts(m.Hash) => j <= m.End
  <2>1. CASE m = p
    <3>1. /\ \A s \in Parts(m.Hash) : s \in {-1, -2} \cup Chunks
          /\ \A j \in Chunks : j \in Parts(m.Hash) <=> m.Start <= j /\ j <= m.End
      BY <2>1, ContentNode
    <3> QED
      BY <3>1
  <2>2. CASE m = Spoilt(p)
    <3>1. Parts(m.Hash) = {-3}
      BY <2>2, LeafParts DEF Spoilt
    <3>2. \A j \in Chunks : j # -3
      BY <1>3 DEF Chunks
    <3> QED
      BY <3>1, <3>2
  <2> QED
    BY <1>7, <2>1, <2>2
<1>9. MadeWithin(m.Hash, NodeOf(m.Start, k))
  BY <1>2, <1>6, <1>8 DEF MadeWithin
<1> QED
  BY <1>2, <1>6, <1>8, <1>9

\* A sibling on its way up whose index is not behind it lies before it.
LEMMA SiblingBefore ==
    ASSUME NEW m \in Near, NEW k \in Levels, m.End = m.Start + 2^k - 1,
           NEW j \in k..(Height - 1), TreeIndex(SiblingOf(m.Start, j)) <= 2 * m.End
    PROVE  SiblingOf(m.Start, j).End < m.Start
<1> DEFINE r == NodeOf(m.Start, j)
           s == SiblingOf(m.Start, j)
<1>1. /\ NumChunks \in Nat /\ Doubling(NumChunks) /\ m.Start \in Nat /\ m.End \in Nat
      /\ j \in 0..NumChunks /\ j \in 0..(NumChunks + 1) /\ k \in 0..(NumChunks + 1)
      /\ k <= j /\ m.Start <= m.End /\ j \in 0..(Height - 1)
      /\ m.Start \in 0..(Leaves - 1)
  BY TreeFacts, StartNode
<1>2. r.Start <= m.Start /\ m.End <= r.End
  <2>1. r.Start <= NodeOf(m.Start, k).Start /\ NodeOf(m.Start, k).End <= r.End
    BY <1>1, Nested
  <2> QED
    BY <2>1, StartNode
<1>3. /\ s.Start \in Nat /\ s.End \in Nat /\ s.Start <= s.End
      /\ r.Start \in Nat /\ r.End \in Nat
      /\ s.Start = r.End + 1 \/ s.End = r.Start - 1
  <2>1. /\ s.Start \in Nat /\ s.End \in Nat
        /\ s.Start = r.End + 1 \/ s.End = r.Start - 1
    BY <1>1, Halves
  <2>2. s.Start <= s.End
    <3>1. j \in Levels /\ j < Height
      BY <1>1, TreeFacts
    <3> QED
      BY <1>1, <3>1, WayUp
  <2>3. r.Start \in Nat /\ r.End \in Nat
    BY <1>1, NodeFacts
  <2> QED
    BY <2>1, <2>2, <2>3
<1>4. s.Start + s.End <= 2 * m.End
  BY DEF TreeIndex
<1> HIDE DEF r, s
<1>5. s.End < m.Start
  BY <1>1, <1>2, <1>3, <1>4
<1> QED
  BY <1>5 DEF s

\* The check of the peak hashes, in the same terms: it starts from the node m
\* of level k, which leaves the map.
PeakTop(m, k) ==
    Min({j \in k..(Depth(NumChunks) + 1) :
            TreeIndex(SiblingOf(m.Start, j)) > LastIndex(PeakLeafCount(m.End))})

PeakReal(m, k) ==
    {j \in k..(PeakTop(m, k) - 1) : TreeIndex(SiblingOf(m.Start, j)) <= 2 * m.End}

PeakUsed(m, k, map) ==
    {p \in map \ {m} : \E j \in PeakReal(m, k) :
                          TreeIndex(SiblingOf(m.Start, j)) = TreeIndex(p)}

PeakSiblings(m, k, map) ==
    [j \in k..(PeakTop(m, k) - 1) |->
        IF j \in PeakReal(m, k)
        THEN At(map \ {m}, TreeIndex(SiblingOf(m.Start, j))).Hash ELSE Null]

\* When it passes, the node it starts from ends with the last chunk or behind
\* it, and all that is used is of the content.
LEMMA PeakProved ==
    ASSUME NEW map \in SUBSET Near, OneEach(map), NEW m \in map, NEW k \in Levels,
           m.End = m.Start + 2^k - 1,
           \A j \in PeakReal(m, k) :
              TreeIndex(SiblingOf(m.Start, j)) \in Indexes(map \ {m}),
           IsRootHash(HashUp(m.Start, m.Hash, k, PeakTop(m, k), PeakSiblings(m, k, map)))
    PROVE  /\ NumChunks - 1 <= m.End
           /\ PeakUsed(m, k, map) \cup {m} \subseteq ContentTree
<1> DEFINE rest == map \ {m}
           count == PeakLeafCount(m.End)
           idx(j) == TreeIndex(SiblingOf(m.Start, j))
           Above == {j \in k..(Depth(NumChunks) + 1) : idx(j) > LastIndex(count)}
           top  == Min(Above)
           real == {j \in k..(top - 1) : idx(j) <= 2 * m.End}
           used == {p \in rest : \E j \in real : idx(j) = TreeIndex(p)}
           sib  == [j \in k..(top - 1) |-> IF j \in real
                       THEN At(rest, idx(j)).Hash ELSE Null]
<1>0. /\ Height \in Nat /\ Height = Depth(NumChunks) /\ Height \in Levels
      /\ Leaves \in Nat /\ NumChunks \in Nat /\ k \in Nat /\ k <= Height
  BY TreeFacts DEF Height
<1>1. /\ m.Start \in 0..(Leaves - 1) /\ m.End \in 0..(Leaves - 1) /\ m.Start <= m.End
      /\ MadeWithin(m.Hash, NodeOf(m.Start, k))
      /\ \A j \in Chunks : j \in Parts(m.Hash) => j <= m.End
  <2>1. m \in Near
    OBVIOUS
  <2> QED
    BY <2>1, StartNode
<1>2. count \in 0..Leaves /\ LastIndex(count) \in Int /\ LastIndex(count) <= 2 * (Leaves - 1)
  <2>1. /\ NumChunks \in Nat /\ Doubling(NumChunks) /\ Height \in 1..NumChunks
        /\ Leaves = Width(Height) /\ m.End \in 0..(Width(Height) - 1)
    BY <1>1, TreeFacts
  <2> QED
    BY <2>1, LeafCountBound
<1> HIDE DEF count
<1>3. top \in k..Height
  <2>1. idx(Height) > 2 * (Leaves - 1) /\ idx(Height) \in Int
    <3>1. idx(Height) > 2 * (Leaves - 1)
      BY <1>0, <1>1, WayUp
    <3>2. /\ NumChunks \in Nat /\ Doubling(NumChunks) /\ Height \in 0..NumChunks
          /\ m.Start \in 0..(Width(Height) - 1)
      BY <1>1, TreeFacts
    <3>3. SiblingOf(m.Start, Height).Start = Width(Height)
          /\ SiblingOf(m.Start, Height).End = 2 * Width(Height) - 1
      BY <3>2, SiblingOfRoot
    <3> QED
      BY <3>1, <3>3, TreeFacts DEF TreeIndex
  <2>2. Above \in SUBSET (k..(Height + 1)) /\ Height \in Above
    <3> HIDE DEF idx
    <3> QED
      BY <1>0, <1>2, <2>1
  <2> HIDE DEF Above
  <2> QED
    BY <1>0, <2>2, LowestLevel
<1> HIDE DEF top
<1>4. /\ PeakUsed(m, k, map) = used
      /\ \A j \in real : idx(j) \in Indexes(rest)
      /\ IsRootHash(HashUp(m.Start, m.Hash, k, top, sib))
  <2>1. PeakTop(m, k) = top
    BY DEF PeakTop, top, count
  <2>2. PeakReal(m, k) = real
    BY <2>1 DEF PeakReal
  <2>3. PeakSiblings(m, k, map) = sib
    BY <2>1, <2>2 DEF PeakSiblings
  <2>4. PeakUsed(m, k, map) = used
    BY <2>2 DEF PeakUsed
  <2> HIDE DEF real, sib, used
  <2> QED
    BY <2>1, <2>2, <2>3, <2>4
<1>5. /\ top = Height /\ -3 \notin Parts(m.Hash)
      /\ \A j \in real : At(rest, idx(j)) \in ContentTree
      /\ \A q \in Chunks : \/ q \in Parts(m.Hash)
                           \/ \E j \in real : /\ SiblingOf(m.Start, j).Start <= q
                                              /\ q <= SiblingOf(m.Start, j).End
  <2>1. Supplied(sib, m.Start, k, top, real, rest)
    <3>1. real \subseteq k..(top - 1)
      OBVIOUS
    <3> HIDE DEF real, rest
    <3> QED
      BY <1>4, <3>1 DEF Supplied
  <2>2. rest \in SUBSET Near
    OBVIOUS
  <2> HIDE DEF real, sib, rest
  <2> QED
    BY <1>1, <1>3, <1>4, <2>1, <2>2, WayProved
<1>6. m \in ContentTree
  BY <1>5, NearNode
<1>7. ASSUME NEW p \in used PROVE p \in ContentTree
  <2>1. PICK j \in real : idx(j) = TreeIndex(p)
    BY <1>7
  <2>2. p \in rest
    BY <1>7
  <2>3. OneEach(rest)
    BY DEF OneEach
  <2> HIDE DEF real, idx, rest
  <2>4. At(rest, idx(j)) \in rest /\ TreeIndex(At(rest, idx(j))) = idx(j)
    BY <1>4, <2>1, AtFound
  <2>5. At(rest, idx(j)) = p
    BY <2>1, <2>2, <2>3, <2>4 DEF OneEach
  <2> QED
    BY <1>5, <2>1, <2>5
<1>8. NumChunks - 1 <= m.End
  <2> DEFINE q == NumChunks - 1
  <2>1. q \in Chunks
    BY TreeFacts DEF Chunks
  <2>2. ASSUME NEW j \in real, q <= SiblingOf(m.Start, j).End PROVE q <= m.End
    <3> DEFINE e == SiblingOf(m.Start, j).End
    <3>1. j \in k..(Height - 1) /\ TreeIndex(SiblingOf(m.Start, j)) <= 2 * m.End
      BY <1>0, <1>3, <1>5
    <3>2. e < m.Start
      BY <3>1, SiblingBefore
    <3>3. e \in Nat
      <4>1. j \in Levels /\ j < Height
        BY <1>0, <3>1, TreeFacts
      <4> QED
        BY <1>1, <4>1, WayUp
    <3> HIDE DEF e
    <3>4. q <= e
      BY <2>2 DEF e
    <3> HIDE DEF q
    <3>5. q \in Int
      BY <1>0 DEF q
    <3> QED
      BY <1>1, <3>2, <3>3, <3>4, <3>5
  <2> QED
    BY <1>1, <1>5, <2>1, <2>2
<1> QED
  BY <1>4, <1>6, <1>7, <1>8

-----------------------------------------------------------------------------
(* The nodes of the content's tree *)

\* Where the nodes lie, and which of their hashes prove or are peaks.
RangeOf(m) == [Start |-> m.Start, End |-> m.End]

\* A node of the content's tree is made of its range and of the hash Make has
\* computed at its level and position.
LEMMA ContentMade ==
    ASSUME NEW m \in ContentTree
    PROVE  \E i \in 0..(Leaves - 1), k \in Levels :
              /\ i \in Nat /\ k \in 0..NumChunks
              /\ RangeOf(m) = NodeOf(i, k)
              /\ m = Node(NodeOf(i, k), MakeHash(NumChunks)[k][i \div Width(k)])
              /\ NodeOf(i, k).Start = Width(k) * (i \div Width(k))
              /\ Width(k) \in Nat \ {0}
              /\ i \div Width(k) \in 0..(Width(Height - k) - 1)
<1>0. /\ NumChunks \in Nat /\ Doubling(NumChunks) /\ Height \in 0..NumChunks
      /\ Leaves = Width(Height) /\ Levels = 0..Height /\ Leaves \in Nat
  BY TreeFacts
<1>1. PICK i \in 0..(Leaves - 1), k \in Levels :
         m = Node(NodeOf(i, k), MakeHash(NumChunks)[k][i \div Width(k)])
  BY DEF ContentTree, Make, Height, Levels, Leaves, Width
<1> DEFINE w == Width(k)
           v == Width(Height - k)
           b == i \div w
<1>2. NodeOf(i, k).Start = w * b
  BY DEF NodeOf, Width
<1>3. w \in Nat \ {0} /\ v \in Nat \ {0} /\ w * v = Leaves
  <2>1. Height - k \in 0..(NumChunks + 1) /\ k \in 0..(NumChunks + 1) /\ k \in 0..Height
    BY <1>0
  <2> QED
    BY <1>0, <2>1, PowerPositive, WidthProduct
<1>4. b \in Nat /\ w * b <= i
  <2> HIDE DEF w
  <2> QED
    BY <1>3, Division
<1>5. b < v
  <2>1. i < w * v
    BY <1>3
  <2> HIDE DEF b, w, v
  <2>2. SUFFICES ASSUME v <= b PROVE FALSE
    BY <1>3, <1>4
  <2>3. w * v <= w * b
    BY <1>3, <1>4, <2>2
  <2>4. w * v \in Int /\ w * b \in Int
    BY <1>3, <1>4
  <2> QED
    BY <1>3, <1>4, <2>1, <2>3, <2>4
<1>6. RangeOf(m) = NodeOf(i, k)
  BY <1>1, NodeRecords DEF RangeOf, Node
<1>7. i \in Nat /\ k \in 0..NumChunks /\ b \in 0..(v - 1)
  BY <1>0, <1>3, <1>4, <1>5
<1> QED
  BY <1>1, <1>2, <1>3, <1>6, <1>7

\* There is one node under each index.
LEMMA ContentUnique ==
    ASSUME NEW m \in ContentTree, NEW p \in ContentTree, TreeIndex(m) = TreeIndex(p)
    PROVE  m = p
<1> DEFINE At1(q, i, k) ==
              /\ i \in Nat /\ k \in 0..NumChunks
              /\ RangeOf(q) = NodeOf(i, k)
              /\ q = Node(NodeOf(i, k), MakeHash(NumChunks)[k][i \div Width(k)])
              /\ NodeOf(i, k).Start = Width(k) * (i \div Width(k))
              /\ Width(k) \in Nat \ {0}
<1>1. PICK i \in 0..(Leaves - 1), k \in Levels : At1(m, i, k)
  BY ContentMade
<1>2. PICK j \in 0..(Leaves - 1), l \in Levels : At1(p, j, l)
  BY ContentMade
<1>3. TreeIndex(NodeOf(i, k)) = TreeIndex(m) /\ TreeIndex(NodeOf(j, l)) = TreeIndex(p)
  <2>1. \A q : TreeIndex(RangeOf(q)) = TreeIndex(q)
    BY DEF TreeIndex, RangeOf
  <2> QED
    BY <1>1, <1>2, <2>1
<1>4. NodeOf(i, k) = NodeOf(j, l) /\ k = l
  <2>1. /\ NumChunks \in Nat /\ Doubling(NumChunks)
        /\ k \in 0..(NumChunks + 1) /\ l \in 0..(NumChunks + 1)
    BY <1>1, <1>2, TreeFacts
  <2>2. TreeIndex(NodeOf(i, k)) = TreeIndex(NodeOf(j, l))
    BY <1>3
  <2>3. NodeOf(i, k) = NodeOf(j, l)
    BY <1>1, <1>2, <2>1, <2>2, IndexUnique
  <2> QED
    BY <1>1, <1>2, <2>1, <2>3, LevelUnique
<1>5. i \div Width(k) = j \div Width(k)
  <2> DEFINE w == Width(k)
             y == j \div Width(k)
  <2>1. /\ w * (i \div w) = w * y /\ w \in Nat \ {0} /\ i \in Nat /\ j \in Nat
    BY <1>1, <1>2, <1>4
  <2>2. y \in Int
    BY <2>1, Division
  <2>3. w * (i \div w) <= i /\ i < w * (i \div w) + w
    <3> HIDE DEF w
    <3> QED
      BY <2>1, Division
  <2> HIDE DEF w, y
  <2>4. w * y <= i /\ i < w * y + w
    BY <2>1, <2>3
  <2>5. i \div w = y
    BY <2>1, <2>2, <2>4, DivisionUnique
  <2> QED
    BY <2>5 DEF w, y
<1> QED
  BY <1>1, <1>2, <1>4, <1>5

\* The node that lies where a range of the tree does.
LEMMA ContentAt ==
    ASSUME NEW i \in 0..(Leaves - 1), NEW k \in Levels
    PROVE  LET m == At(ContentTree, TreeIndex(NodeOf(i, k)))
           IN  /\ m \in ContentTree /\ RangeOf(m) = NodeOf(i, k)
               /\ TreeIndex(m) = TreeIndex(NodeOf(i, k))
               /\ m.Hash = MakeHash(NumChunks)[k][i \div Width(k)]
<1> DEFINE m == At(ContentTree, TreeIndex(NodeOf(i, k)))
           p == Node(NodeOf(i, k), MakeHash(NumChunks)[k][i \div Width(k)])
<1>1. p \in ContentTree
  BY DEF ContentTree, Make, Height, Levels, Leaves, Width
<1>2. RangeOf(p) = NodeOf(i, k) /\ TreeIndex(p) = TreeIndex(NodeOf(i, k))
  BY NodeRecords DEF RangeOf, Node, TreeIndex
<1>3. p.Hash = MakeHash(NumChunks)[k][i \div Width(k)]
  BY DEF Node
<1> HIDE DEF p
<1>4. m \in ContentTree /\ TreeIndex(m) = TreeIndex(NodeOf(i, k))
  BY <1>1, <1>2 DEF At
<1>5. m = p
  BY <1>1, <1>2, <1>4, ContentUnique
<1> QED
  BY <1>1, <1>2, <1>3, <1>5

\* In maps that hold only nodes of the content, Put forgets nothing, and At finds
\* the content's node.
LEMMA GenuineMaps ==
    ASSUME NEW map \in SUBSET ContentTree, NEW nodes \in SUBSET ContentTree
    PROVE  /\ Put(map, nodes) = map \cup nodes /\ OneEach(map)
           /\ \A idx \in Indexes(map) : At(map, idx) = At(ContentTree, idx)
           /\ \A m \in ContentTree : TreeIndex(m) \in Indexes(map) <=> m \in map
<1>1. Put(map, nodes) = map \cup nodes
  BY ContentUnique DEF Put
<1>2. OneEach(map)
  BY ContentUnique DEF OneEach
<1>3. ASSUME NEW idx \in Indexes(map) PROVE At(map, idx) = At(ContentTree, idx)
  <2>1. At(map, idx) \in map /\ TreeIndex(At(map, idx)) = idx
    BY AtFound
  <2>2. idx \in Indexes(ContentTree)
    BY <2>1 DEF Indexes
  <2>3. At(ContentTree, idx) \in ContentTree /\ TreeIndex(At(ContentTree, idx)) = idx
    BY <2>2, AtFound
  <2> QED
    BY <2>1, <2>3, ContentUnique
<1>4. ASSUME NEW m \in ContentTree PROVE TreeIndex(m) \in Indexes(map) <=> m \in map
  BY ContentUnique DEF Indexes
<1> QED
  BY <1>1, <1>2, <1>3, <1>4

\* The hash of a node of the tree that holds a leaf of a level.
LEMMA PaddingNull ==
    ASSUME NEW m \in ContentTree
    PROVE  m.Hash = Null <=> m.Start >= NumChunks
<1> DEFINE level == MakeHash(NumChunks)
           last(l) == Width(Height - l) - 1
           Good(l) == \A b \in 0..last(l) : Width(l) * b >= NumChunks => level[l][b] = Null
           good == {l \in 0..Height : Good(l)}
<1>0. /\ NumChunks \in Nat /\ Doubling(NumChunks) /\ Height \in Nat /\ Height <= NumChunks
      /\ Depth(NumChunks) \in Nat /\ Depth(NumChunks) = Height /\ Levels = 0..Height
  BY TreeFacts DEF Height
<1>1. /\ \A b \in 0..last(0) : level[0][b] = IF b < NumChunks THEN Leaf(b) ELSE Null
      /\ \A k \in 1..Height : \A b \in 0..last(k) :
            level[k][b] = EncryptLR(level[k - 1][2 * b], level[k - 1][2 * b + 1])
  BY <1>0, MakeHashValues DEF Width
<1> HIDE DEF level
<1>2. 0 \in good
  <2>1. Width(0) = 1
    BY <1>0 DEF Doubling
  <2>2. Good(0)
    <3>1. SUFFICES ASSUME NEW b \in 0..last(0), 1 * b >= NumChunks PROVE level[0][b] = Null
      BY <2>1
    <3>2. b \in Int
      OBVIOUS
    <3>3. ~(b < NumChunks)
      BY <1>0, <3>1, <3>2
    <3> QED
      BY <1>1, <3>3
  <2> QED
    BY <1>0, <2>2
<1>3. \A l \in 0..(Height - 1) : l \in good => l + 1 \in good
  <2>1. SUFFICES ASSUME NEW l \in 0..(Height - 1), l \in good,
                        NEW b \in 0..last(l + 1), Width(l + 1) * b >= NumChunks
                 PROVE  level[l + 1][b] = Null
    BY <1>0
  <2> DEFINE w == Width(l)
             v == Width(Height - (l + 1))
  <2>2. /\ Width(l + 1) = 2 * w /\ w \in Nat /\ v \in Nat \ {0}
        /\ Width(Height - l) = 2 * v
    <3>1. /\ l \in 0..NumChunks /\ l \in 0..(NumChunks + 1)
          /\ Height - (l + 1) \in 0..NumChunks /\ Height - (l + 1) \in 0..(NumChunks + 1)
          /\ (Height - (l + 1)) + 1 = Height - l
      BY <1>0
    <3> QED
      BY <1>0, <3>1, PowerPositive DEF Doubling
  <2>3. b \in Nat /\ 2 * b \in 0..last(l) /\ 2 * b + 1 \in 0..last(l)
    <3> HIDE DEF v
    <3>1. b \in 0..(v - 1)
      BY DEF v
    <3> QED
      BY <2>2, <3>1
  <2>4. w * (2 * b) >= NumChunks /\ w * (2 * b + 1) >= NumChunks
    <3>1. /\ (2 * w) * b = w * (2 * b) /\ w * (2 * b + 1) = w * (2 * b) + w
          /\ w * (2 * b) \in Nat
      <4> HIDE DEF w
      <4> QED
        BY <2>2, <2>3, ChildLeaves
    <3>2. (2 * w) * b >= NumChunks
      BY <2>1, <2>2
    <3> DEFINE x == w * (2 * b)
    <3> HIDE DEF x, w
    <3>3. x >= NumChunks /\ x + w >= NumChunks
      BY <1>0, <2>2, <3>1, <3>2 DEF x
    <3> QED
      BY <3>1, <3>3 DEF x
  <2>5. level[l][2 * b] = Null /\ level[l][2 * b + 1] = Null
    BY <2>1, <2>3, <2>4
  <2>6. l + 1 \in 1..Height /\ (l + 1) - 1 = l
    BY <1>0
  <2>7. level[l + 1][b] = EncryptLR(level[l][2 * b], level[l][2 * b + 1])
    <3> HIDE DEF last
    <3> QED
      BY <1>1, <2>1, <2>6
  <2> QED
    BY <2>5, <2>7 DEF EncryptLR
<1> HIDE DEF Good
<1>4. \A l \in 0..Height : l \in good
  <2> HIDE DEF good
  <2> QED
    BY <1>0, <1>2, <1>3, LevelInduction
<1>5. ASSUME m.Start >= NumChunks PROVE m.Hash = Null
  <2>1. PICK i \in 0..(Leaves - 1), k \in Levels :
              /\ RangeOf(m) = NodeOf(i, k)
              /\ m = Node(NodeOf(i, k), MakeHash(NumChunks)[k][i \div Width(k)])
              /\ NodeOf(i, k).Start = Width(k) * (i \div Width(k))
              /\ i \div Width(k) \in 0..(Width(Height - k) - 1)
    BY ContentMade
  <2>2. m.Start = NodeOf(i, k).Start
    BY <2>1 DEF RangeOf
  <2>3. Good(k)
    BY <1>0, <1>4
  <2>4. level[k][i \div Width(k)] = Null
    BY <1>5, <2>1, <2>2, <2>3 DEF Good
  <2> QED
    BY <2>1, <2>4 DEF Node, level
<1>6. ASSUME ~(m.Start >= NumChunks) PROVE m.Hash # Null
  <2>1. /\ m.Start \in 0..(Leaves - 1) /\ m.End \in 0..(Leaves - 1) /\ m.Start <= m.End
        /\ \A j \in Chunks : j \in Parts(m.Hash) <=> m.Start <= j /\ j <= m.End
    BY ContentNode
  <2>2. m.Start \in Chunks
    BY <1>0, <1>6, <2>1 DEF Chunks
  <2>3. m.Start \in Parts(m.Hash)
    BY <2>1, <2>2
  <2> QED
    BY <2>3, LeafParts
<1> QED
  BY <1>5, <1>6

-----------------------------------------------------------------------------
(* Hashes of the content prove its chunks *)

\* The hash of the node that lies where a range does.
HashOf(r) == At(ContentTree, TreeIndex(r)).Hash

\* The hash of a node is computed from those of its halves.
LEMMA ParentHash ==
    ASSUME NEW i \in 0..(Leaves - 1), NEW k \in 0..(Height - 1)
    PROVE  LET r == NodeOf(i, k)
               s == SiblingOf(i, k)
           IN  HashOf(NodeOf(i, k + 1)) = IF s.Start > r.Start
                                          THEN EncryptLR(HashOf(r), HashOf(s))
                                          ELSE EncryptLR(HashOf(s), HashOf(r))
<1> DEFINE r == NodeOf(i, k)
           s == SiblingOf(i, k)
           p == NodeOf(i, k + 1)
           level == MakeHash(NumChunks)
           w == Width(k)
           b == i \div Width(k + 1)
<1>0. /\ NumChunks \in Nat /\ Doubling(NumChunks) /\ Height \in 0..NumChunks
      /\ Depth(NumChunks) = Height /\ Leaves = Width(Height) /\ Leaves \in Nat
      /\ i \in Nat /\ k \in 0..NumChunks /\ k \in 0..(NumChunks + 1)
      /\ k + 1 \in 0..(NumChunks + 1) /\ k \in Levels /\ k + 1 \in Levels
      /\ k + 1 \in 1..Height /\ (k + 1) - 1 = k /\ k < Height
      /\ k + 1 \in 0..Height
  BY TreeFacts DEF Height
<1>1. /\ w \in Nat \ {0} /\ Width(k + 1) = 2 * w /\ b \in Nat
      /\ p.Start = (2 * w) * b
  <2>1. w \in Nat \ {0} /\ Width(k + 1) = 2 * w
    BY <1>0, PowerPositive DEF Doubling
  <2>2. Width(k + 1) \in Nat \ {0}
    BY <2>1
  <2>3. b \in Nat
    BY <1>0, <2>2, Division
  <2>4. p.Start = Width(k + 1) * b
    BY DEF NodeOf, Width
  <2> QED
    BY <2>1, <2>3, <2>4
<1>2. b \in 0..(Width(Height - (k + 1)) - 1)
  <2> DEFINE u == Width(k + 1)
             v == Width(Height - (k + 1))
  <2>1. v \in Nat \ {0} /\ u * v = Leaves /\ u \in Nat \ {0}
    <3>1. Height - (k + 1) \in 0..(NumChunks + 1)
      BY <1>0
    <3> QED
      BY <1>0, <1>1, <3>1, PowerPositive, WidthProduct
  <2>2. u * b <= i /\ i < u * v
    <3> HIDE DEF u, v
    <3>1. u * b <= i
      BY <1>0, <2>1, Division DEF u
    <3> QED
      BY <1>0, <2>1, <3>1
  <2> HIDE DEF b, u, v
  <2>3. SUFFICES ASSUME v <= b PROVE FALSE
    BY <1>1, <2>1 DEF v
  <2>4. u * v <= u * b /\ u * v \in Int /\ u * b \in Int
    BY <1>1, <2>1, <2>3
  <2> QED
    BY <1>0, <2>2, <2>4
<1>3. level[k + 1][b] = EncryptLR(level[k][2 * b], level[k][2 * b + 1])
  <2>1. \A l \in 1..Height : \A c \in 0..(Width(Height - l) - 1) :
            level[l][c] = EncryptLR(level[l - 1][2 * c], level[l - 1][2 * c + 1])
    BY <1>0, MakeHashValues DEF Width
  <2> HIDE DEF level, b
  <2> QED
    BY <1>0, <1>2, <2>1
<1>4. HashOf(p) = level[k + 1][b]
  BY <1>0, ContentAt DEF HashOf
<1>5. /\ r.Start \in Nat /\ r.Start <= i /\ i <= r.End /\ r.End = r.Start + w - 1
      /\ s.Start \in 0..(Leaves - 1) /\ s.End = s.Start + w - 1 /\ s = NodeOf(s.Start, k)
      /\ \/ s.Start = r.End + 1 /\ p.Start = r.Start
         \/ s.End = r.Start - 1 /\ p.Start = s.Start
  <2>1. /\ r.Start \in Nat /\ r.Start <= i /\ i <= r.End /\ r.End = r.Start + w - 1
    BY <1>0, NodeFacts
  <2>2. /\ s.Start \in Nat /\ s.End = s.Start + w - 1
        /\ \/ s.Start = r.End + 1 /\ p.Start = r.Start
           \/ s.End = r.Start - 1 /\ p.Start = s.Start
    BY <1>0, Halves
  <2>3. s.End <= Leaves - 1 /\ s.Start <= s.End /\ s.End \in Nat /\ s = NodeOf(s.Start, k)
    BY <1>0, WayUp
  <2>4. s.Start \in 0..(Leaves - 1)
    <3> HIDE DEF s
    <3> QED
      BY <1>0, <2>2, <2>3
  <2> QED
    BY <2>1, <2>2, <2>3, <2>4
<1>6. /\ HashOf(r) = level[k][i \div w] /\ HashOf(s) = level[k][s.Start \div w]
  <2>1. HashOf(r) = level[k][i \div w]
    BY <1>0, ContentAt DEF HashOf
  <2>2. \A j \in 0..(Leaves - 1) : HashOf(NodeOf(j, k)) = level[k][j \div w]
    BY <1>0, ContentAt DEF HashOf
  <2> HIDE DEF s, w, level
  <2> QED
    BY <1>5, <2>1, <2>2
<1> DEFINE x == w * (2 * b)
<1>7. p.Start = x /\ w * (2 * b + 1) = x + w /\ x \in Nat
  BY <1>1, ChildLeaves
<1> HIDE DEF r, s, p, level
<1>8. CASE s.Start = r.End + 1 /\ p.Start = r.Start
  <2>1. /\ x <= i /\ i < x + w /\ x + w <= s.Start /\ s.Start < (x + w) + w
        /\ s.Start > r.Start
    <3> HIDE DEF x, w, b
    <3> QED
      BY <1>0, <1>1, <1>5, <1>7, <1>8
  <2>2. i \div w = 2 * b
    <3>1. 2 * b \in Int
      BY <1>1
    <3> HIDE DEF w, b
    <3> QED
      BY <1>0, <1>1, <2>1, <3>1, DivisionUnique DEF x
  <2>3. s.Start \div w = 2 * b + 1
    <3>1. 2 * b + 1 \in Int /\ s.Start \in Nat
      BY <1>1, <1>5
    <3>2. w * (2 * b + 1) <= s.Start /\ s.Start < w * (2 * b + 1) + w
      BY <1>7, <2>1
    <3> HIDE DEF w, b
    <3> QED
      BY <1>1, <3>1, <3>2, DivisionUnique
  <2> QED
    BY <1>3, <1>4, <1>6, <2>1, <2>2, <2>3 DEF p, r, s
<1>9. CASE s.End = r.Start - 1 /\ p.Start = s.Start
  <2>1. /\ x <= s.Start /\ s.Start < x + w /\ x + w <= i /\ i < (x + w) + w
        /\ ~(s.Start > r.Start)
    <3> HIDE DEF x, w, b
    <3> QED
      BY <1>0, <1>1, <1>5, <1>7, <1>9
  <2>2. s.Start \div w = 2 * b
    <3>1. 2 * b \in Int /\ s.Start \in Nat
      BY <1>1, <1>5
    <3> HIDE DEF w, b
    <3> QED
      BY <1>1, <2>1, <3>1, DivisionUnique DEF x
  <2>3. i \div w = 2 * b + 1
    <3>1. 2 * b + 1 \in Int
      BY <1>1
    <3>2. w * (2 * b + 1) <= i /\ i < w * (2 * b + 1) + w
      BY <1>7, <2>1
    <3> HIDE DEF w, b
    <3> QED
      BY <1>0, <1>1, <3>1, <3>2, DivisionUnique
  <2> QED
    BY <1>3, <1>4, <1>6, <2>1, <2>2, <2>3 DEF p, r, s
<1> QED
  BY <1>5, <1>8, <1>9

\* The hashes of the siblings on the way up from a level are the content's.
Genuine(sib, i, from) ==
    \A k \in from..(Height - 1) : sib[k] = HashOf(SiblingOf(i, k))

\* With them, every node proves the root.
LEMMA WayGenuine ==
    ASSUME NEW i \in 0..(Leaves - 1), NEW from \in Levels,
           NEW sib, Genuine(sib, i, from)
    PROVE  IsRootHash(HashUp(i, HashOf(NodeOf(i, from)), from, Height, sib))
<1> DEFINE h == HashOf(NodeOf(i, from))
<1>0. from \in Nat /\ Height \in Nat /\ from <= Height /\ Leaves \in Nat /\ Height \in Levels
      /\ 0 \in 0..(Leaves - 1)
  BY TreeFacts
<1>1. PICK up : /\ Climbs(up, i, h, from, Height, sib)
                /\ HashUp(i, h, from, Height, sib) = up[Height]
  <2> HIDE DEF h
  <2> QED
    BY <1>0, HashUpValues
<1> DEFINE good == {k \in from..Height : up[k] = HashOf(NodeOf(i, k))}
<1>2. from \in good
  BY <1>0, <1>1 DEF Climbs
<1>3. ASSUME NEW k \in from..(Height - 1), k \in good PROVE k + 1 \in good
  <2>1. /\ k + 1 \in (from + 1)..Height /\ (k + 1) - 1 = k /\ k \in 0..(Height - 1)
        /\ k + 1 \in from..Height
    BY <1>0
  <2>2. up[k + 1] = IF SiblingOf(i, k).Start > NodeOf(i, k).Start
                    THEN EncryptLR(up[k], sib[k]) ELSE EncryptLR(sib[k], up[k])
    BY <1>1, <2>1 DEF Climbs
  <2>3. up[k] = HashOf(NodeOf(i, k)) /\ sib[k] = HashOf(SiblingOf(i, k))
    BY <1>3 DEF Genuine
  <2>4. HashOf(NodeOf(i, k + 1)) =
           IF SiblingOf(i, k).Start > NodeOf(i, k).Start
           THEN EncryptLR(HashOf(NodeOf(i, k)), HashOf(SiblingOf(i, k)))
           ELSE EncryptLR(HashOf(SiblingOf(i, k)), HashOf(NodeOf(i, k)))
    BY <2>1, ParentHash
  <2> QED
    BY <2>1, <2>2, <2>3, <2>4
<1>4. up[Height] = HashOf(NodeOf(i, Height))
  <2>1. \A k \in from..Height : k \in good
    <3> HIDE DEF good
    <3> QED
      BY <1>0, <1>2, <1>3, LevelInduction
  <2> QED
    BY <1>0, <2>1
<1>5. HashOf(NodeOf(i, Height)) = RootHash
  <2>1. NodeOf(i, Height).Start = 0 /\ NodeOf(i, Height).End = Leaves - 1
    BY <1>0, WayUp
  <2>2. TreeIndex(NodeOf(i, Height)) = Leaves - 1
    BY <1>0, <2>1 DEF TreeIndex
  <2> QED
    BY <2>2 DEF HashOf, RootHash
<1> QED
  BY <1>1, <1>4, <1>5 DEF IsRootHash

\* The hash of a chunk.
LEMMA ChunkHash ==
    ASSUME NEW i \in Chunks
    PROVE  HashOf(NodeOf(i, 0)) = Leaf(i)
<1>0. /\ NumChunks \in Nat /\ Doubling(NumChunks) /\ Depth(NumChunks) \in Nat
      /\ i \in 0..(Leaves - 1) /\ i \in Nat /\ 0 \in Levels /\ i < NumChunks
      /\ Leaves = Width(Height) /\ Height = Depth(NumChunks) /\ Height - 0 = Height
  BY TreeFacts DEF Chunks, Height
<1>1. i \div Width(0) = i
  <2>1. Width(0) = 1
    BY <1>0 DEF Doubling
  <2>2. i \div 1 = i
    BY <1>0
  <2> QED
    BY <2>1, <2>2
<1>2. HashOf(NodeOf(i, 0)) = MakeHash(NumChunks)[0][i]
  BY <1>0, <1>1, ContentAt DEF HashOf
<1>3. \A b \in 0..(2^(Depth(NumChunks) - 0) - 1) :
         MakeHash(NumChunks)[0][b] = IF b < NumChunks THEN Leaf(b) ELSE Null
  BY <1>0, MakeHashValues
<1>4. i \in 0..(2^(Depth(NumChunks) - 0) - 1)
  BY <1>0 DEF Width
<1> QED
  BY <1>0, <1>2, <1>3, <1>4

-----------------------------------------------------------------------------
(* The checks of genuine hashes *)

\* Hashes of the content that are not of padding; the peak hashes; the hashes
\* that prove a chunk.
Filled == {m \in ContentTree : m.Start < NumChunks}
PeakHashes == {m \in ContentTree : RangeOf(m) \in ContentPeaks}
NeededHashes(i) == {m \in ContentTree : RangeOf(m) \in Needed(i)}

\* A chunk in the first half of the tree, or of a tree without padding.
Left(i) == i \in Chunks /\ (2 * i < Leaves \/ NumChunks = Leaves)

\* No sibling above such a chunk is padding or a peak.
LEMMA LeftClear ==
    ASSUME NEW i, Left(i), NEW k \in 0..(Height - 1)
    PROVE  ~Padding(SiblingOf(i, k)) /\ SiblingOf(i, k) \notin ContentPeaks
<1> DEFINE r == NodeOf(i, k)
           s == SiblingOf(i, k)
           g == Height - 1
           w == Width(g)
<1>0. /\ NumChunks \in Nat /\ Doubling(NumChunks) /\ Height \in 1..NumChunks
      /\ Leaves = 2 * w /\ w \in Nat /\ w < NumChunks /\ NumChunks <= Leaves
      /\ k \in 0..NumChunks /\ k \in 0..(NumChunks + 1) /\ g \in 0..(NumChunks + 1)
      /\ g \in 0..NumChunks /\ g \in Levels /\ k \in Levels /\ k < Height
      /\ i \in 0..(Leaves - 1) /\ i \in Nat
  BY TreeFacts DEF Left, Chunks
<1>1. /\ s.Start \in Nat /\ s.End \in Nat /\ s.Start <= s.End /\ s.End <= Leaves - 1
      /\ s = NodeOf(s.Start, k)
  BY <1>0, WayUp
<1>2. CASE NumChunks = Leaves
  <2>1. ContentPeaks = {}
    BY <1>2, FullTree DEF ContentPeaks
  <2>2. ~(s.Start >= NumChunks)
    <3> HIDE DEF s, w
    <3> QED
      BY <1>0, <1>1, <1>2
  <2> QED
    BY <2>1, <2>2 DEF Padding
<1>3. CASE NumChunks # Leaves /\ 2 * i < Leaves
  <2>1. NodeOf(i, g).Start = 0 /\ NodeOf(i, g).End = w - 1
    <3>1. i \in 0..(Width(g) - 1)
      BY <1>0, <1>3
    <3>2. NodeOf(i, g) = [Start |-> 0, End |-> Width(g) - 1]
      <4> HIDE DEF g
      <4> QED
        BY <1>0, <3>1, RootNode
    <3> QED
      BY <3>2
  <2>2. CASE k < g
    <3>1. s.End <= w - 1
      <4>1. k \in 0..(g - 1)
        BY <1>0, <2>2
      <4>2. SiblingOf(i, k).End <= NodeOf(i, g).End
        <5> HIDE DEF g
        <5> QED
          BY <1>0, <4>1, SiblingsBelow
      <4> QED
        BY <2>1, <4>2
    <3>2. r.End \in Nat /\ r.End <= w - 1
      <4>1. r.End <= NodeOf(i, g).End
        <5>1. k <= g
          BY <1>0, <2>2
        <5> HIDE DEF g
        <5> QED
          BY <1>0, <5>1, Nested
      <4>2. r.End \in Nat
        BY <1>0, NodeFacts
      <4> QED
        BY <2>1, <4>1, <4>2
    <3>3. s \notin ContentPeaks
      <4>1. SUFFICES ASSUME s \in ContentPeaks PROVE FALSE
        OBVIOUS
      <4>2. PICK l \in Levels : s = NodeOf(s.Start, l) /\ SiblingOf(s.Start, l).End >= NumChunks
        BY <4>1 DEF ContentPeaks
      <4>3. l = k
        <5>1. l \in 0..(NumChunks + 1) /\ NodeOf(s.Start, l) = NodeOf(s.Start, k)
          BY <1>0, <1>1, <4>2, TreeFacts
        <5> HIDE DEF s
        <5> QED
          BY <1>0, <1>1, <5>1, LevelUnique
      <4>4. SiblingOf(s.Start, k) = r
        BY <1>0, SiblingOfSibling
      <4>5. r.End >= NumChunks
        BY <4>2, <4>3, <4>4
      <4> HIDE DEF r, w
      <4> QED
        BY <1>0, <3>2, <4>5
    <3>4. ~(s.Start >= NumChunks)
      <4> HIDE DEF s, w
      <4> QED
        BY <1>0, <1>1, <3>1
    <3> QED
      BY <3>3, <3>4 DEF Padding
  <2>3. CASE k = g
    <3>1. /\ s.End = s.Start + w - 1
          /\ s.Start = r.End + 1 \/ s.End = r.Start - 1
      BY <1>0, <2>3, Halves
    <3>2. r.Start = 0 /\ r.End = w - 1
      BY <2>1, <2>3
    <3> HIDE DEF r, s, w
    <3>3. s.Start = w /\ s.End = 2 * w - 1
      BY <1>0, <1>1, <3>1, <3>2
    <3>4. ~(s.Start >= NumChunks) /\ ~(s.End < NumChunks)
      BY <1>0, <1>3, <3>3
    <3>5. s \notin ContentPeaks
      BY <3>4 DEF ContentPeaks
    <3> QED
      BY <3>4, <3>5 DEF Padding, s
  <2> QED
    BY <1>0, <2>2, <2>3
<1> QED
  BY <1>2, <1>3 DEF Left

\* The hashes of siblings: there is one for each, and it is one of the hashes
\* that prove the chunk if it is not of padding.
LEMMA SiblingNode ==
    ASSUME NEW i \in 0..(Leaves - 1), NEW k \in 0..(Height - 1)
    PROVE  LET m == At(ContentTree, TreeIndex(SiblingOf(i, k)))
           IN  /\ m \in ContentTree /\ RangeOf(m) = SiblingOf(i, k)
               /\ TreeIndex(m) = TreeIndex(SiblingOf(i, k))
               /\ m.Start = SiblingOf(i, k).Start
               /\ m.Hash = Null <=> Padding(SiblingOf(i, k))
               /\ m \in NeededHashes(i) <=> ~Padding(SiblingOf(i, k))
               /\ m \in PeakHashes <=> SiblingOf(i, k) \in ContentPeaks
<1> DEFINE s == SiblingOf(i, k)
           m == At(ContentTree, TreeIndex(s))
<1>1. s.Start \in 0..(Leaves - 1) /\ k \in Levels /\ NodeOf(s.Start, k) = s
  <2>1. k \in Levels
    BY TreeFacts
  <2> QED
    BY <2>1, HalvesInTree
<1>2. m \in ContentTree /\ RangeOf(m) = s /\ TreeIndex(m) = TreeIndex(s)
  <2> DEFINE a == s.Start
  <2>1. a \in 0..(Leaves - 1) /\ NodeOf(a, k) = s
    BY <1>1
  <2> HIDE DEF s, a
  <2>2. /\ At(ContentTree, TreeIndex(NodeOf(a, k))) \in ContentTree
        /\ RangeOf(At(ContentTree, TreeIndex(NodeOf(a, k)))) = NodeOf(a, k)
        /\ TreeIndex(At(ContentTree, TreeIndex(NodeOf(a, k)))) = TreeIndex(NodeOf(a, k))
    BY <1>1, <2>1, ContentAt
  <2> QED
    BY <2>1, <2>2
<1> HIDE DEF m
<1>3. m.Start = s.Start
  BY <1>2 DEF RangeOf
<1>4. m.Hash = Null <=> Padding(s)
  <2> HIDE DEF s
  <2> QED
    BY <1>2, <1>3, PaddingNull DEF Padding
<1>5. s \in Siblings(i, 0, Height)
  BY DEF Siblings
<1>6. m \in NeededHashes(i) <=> ~Padding(s)
  BY <1>2, <1>5 DEF NeededHashes, Needed
<1> QED
  BY <1>2, <1>3, <1>4, <1>6 DEF m, PeakHashes

\* Indexes of siblings, and of what maps of content hashes hold.
LEMMA SiblingKnown ==
    ASSUME NEW map \in SUBSET ContentTree, NEW i \in 0..(Leaves - 1),
           NEW k \in 0..(Height - 1)
    PROVE  LET m == At(ContentTree, TreeIndex(SiblingOf(i, k)))
           IN  /\ TreeIndex(SiblingOf(i, k)) \in Indexes(map) <=> m \in map
               /\ m \in map => At(map, TreeIndex(SiblingOf(i, k))).Hash = HashOf(SiblingOf(i, k))
<1> DEFINE idx == TreeIndex(SiblingOf(i, k))
           m == At(ContentTree, idx)
<1>1. m \in ContentTree /\ TreeIndex(m) = idx
  BY SiblingNode
<1> HIDE DEF idx
<1>2. idx \in Indexes(map) <=> m \in map
  <2> HIDE DEF m
  <2>1. TreeIndex(m) \in Indexes(map) <=> m \in map
    BY <1>1, GenuineMaps
  <2> QED
    BY <1>1, <2>1
<1>3. m \in map => At(map, idx) = m
  BY <1>2, GenuineMaps
<1> QED
  BY <1>2, <1>3 DEF HashOf, idx

\* Only hashes of the tree have indexes.
LEMMA RootSibling ==
    ASSUME NEW map \in SUBSET ContentTree, NEW i \in 0..(Leaves - 1)
    PROVE  TreeIndex(SiblingOf(i, Height)) \notin Indexes(map)
<1> DEFINE x == TreeIndex(SiblingOf(i, Height))
<1>1. x > 2 * (Leaves - 1)
  <2>1. Height \in Levels
    BY TreeFacts
  <2> QED
    BY <2>1, WayUp
<1>2. Indexes(map) \subseteq 0..(2 * (Leaves - 1))
  BY NearNode, ContentNear DEF Indexes
<1> HIDE DEF x
<1>3. x \notin Indexes(map)
  BY <1>1, <1>2, TreeFacts
<1> QED
  BY <1>3 DEF x

\* The check of the first data: with the hash of every sibling it passes.
LEMMA FirstWay ==
    ASSUME NEW i, Left(i), NEW map \in SUBSET ContentTree, NeededHashes(i) \subseteq map
    PROVE  /\ FirstTop(i, map) = Height /\ FirstTop(i, map) > 0
           /\ NodeOf(i, FirstTop(i, map)).End = Leaves - 1
           /\ IsRootHash(HashUp(i, Leaf(i), 0, FirstTop(i, map), FoundSiblings(i, map)))
           /\ FirstUsed(i, map) = NeededHashes(i)
<1> DEFINE idx(k) == TreeIndex(SiblingOf(i, k))
           Unknown == {k \in 0..(Depth(NumChunks) + 1) : idx(k) \notin Indexes(map)}
           top  == Min(Unknown)
<1>0. /\ i \in 0..(Leaves - 1) /\ i \in Chunks /\ 0 \in Levels /\ Height \in Nat /\ Height > 0
      /\ Depth(NumChunks) = Height /\ Height \in Levels
  BY TreeFacts DEF Left, Chunks, Height
<1>1. ASSUME NEW k \in 0..(Height - 1)
      PROVE  /\ At(ContentTree, idx(k)) \in NeededHashes(i)
             /\ At(map, idx(k)) = At(ContentTree, idx(k)) /\ idx(k) \in Indexes(map)
             /\ At(map, idx(k)).Hash = HashOf(SiblingOf(i, k))
  <2>1. ~Padding(SiblingOf(i, k))
    BY LeftClear
  <2>2. At(ContentTree, idx(k)) \in NeededHashes(i)
    BY <1>0, <2>1, SiblingNode
  <2>3. /\ idx(k) \in Indexes(map)
        /\ At(map, idx(k)).Hash = HashOf(SiblingOf(i, k))
    BY <1>0, <2>2, SiblingKnown
  <2> HIDE DEF idx
  <2> QED
    BY <2>2, <2>3, GenuineMaps
<1>2. top = Height
  <2>1. Height \in Unknown /\ Unknown \in SUBSET (0..(Height + 1))
    BY <1>0, RootSibling
  <2>2. \A k \in Unknown : ~(k < Height)
    <3> HIDE DEF idx
    <3>1. \A k \in Unknown : k \in Nat /\ k \notin 0..(Height - 1)
      BY <1>0, <1>1
    <3> HIDE DEF Unknown
    <3> QED
      BY <1>0, <3>1
  <2> HIDE DEF Unknown
  <2>3. top \in Unknown /\ top \in 0..Height
    BY <1>0, <2>1, LowestLevel
  <2> HIDE DEF top
  <2> QED
    BY <1>0, <2>2, <2>3
<1>3. FirstTop(i, map) = Height
  BY <1>2 DEF FirstTop
<1>4. NodeOf(i, Height).End = Leaves - 1
  BY <1>0, WayUp
<1>5. IsRootHash(HashUp(i, Leaf(i), 0, Height, FoundSiblings(i, map)))
  <2> DEFINE sib == FoundSiblings(i, map)
  <2>1. Genuine(sib, i, 0)
    BY <1>1, <1>3 DEF Genuine, FoundSiblings
  <2> HIDE DEF sib
  <2>2. IsRootHash(HashUp(i, HashOf(NodeOf(i, 0)), 0, Height, sib))
    BY <1>0, <2>1, WayGenuine
  <2> QED
    BY <1>0, <2>2, ChunkHash DEF sib
<1>6. FirstUsed(i, map) = NeededHashes(i)
  <2>1. FirstUsed(i, map) = {At(ContentTree, idx(k)) : k \in 0..(Height - 1)}
    BY <1>1, <1>3 DEF FirstUsed
  <2>2. ASSUME NEW m \in NeededHashes(i)
        PROVE  \E k \in 0..(Height - 1) : m = At(ContentTree, idx(k))
    <3>1. PICK k \in 0..(Height - 1) : RangeOf(m) = SiblingOf(i, k)
      BY <2>2 DEF NeededHashes, Needed, Siblings
    <3>2. TreeIndex(m) = idx(k)
      BY <3>1 DEF TreeIndex, RangeOf
    <3>3. /\ At(ContentTree, idx(k)) \in ContentTree
          /\ TreeIndex(At(ContentTree, idx(k))) = idx(k)
      BY <1>0, SiblingNode
    <3>4. m \in ContentTree
      BY DEF NeededHashes
    <3> HIDE DEF idx
    <3> QED
      BY <3>2, <3>3, <3>4, ContentUnique
  <2> HIDE DEF idx
  <2> QED
    BY <1>1, <2>1, <2>2
<1> QED
  BY <1>0, <1>3, <1>4, <1>5, <1>6

\* The level the check of data ends at, once the size of the tree is known.
LEMMA DataTopIs ==
    ASSUME NEW i \in 0..(Leaves - 1)
    PROVE  DataTop(i, Leaves) = Height
<1>1. Top(i, 0, 2 * (Leaves - 1)) = Height
  BY TopOfTree, TreeFacts
<1>2. (Leaves - 1) * 2 = 2 * (Leaves - 1)
  BY TreeFacts
<1>3. DataTop(i, Leaves) = Top(i, 0, 2 * (Leaves - 1))
  BY <1>2 DEF DataTop, Top, Height
<1> QED
  BY <1>1, <1>3

\* The check of data: with the hash of every sibling that is not behind the last
\* chunk it passes.
LEMMA DataWay ==
    ASSUME NEW i \in Chunks, NEW map \in SUBSET ContentTree,
           NEW tree \in SUBSET ContentTree, NEW range \in Int, range >= NumChunks - 1,
           \A k \in DataReal(i, Leaves, range) :
              TreeIndex(SiblingOf(i, k)) \in Indexes(map) \cup Indexes(tree)
    PROVE  IsRootHash(HashUp(i, Leaf(i), 0, DataTop(i, Leaves),
                             DataSiblings(i, Leaves, range, map, tree)))
<1> DEFINE sib == DataSiblings(i, Leaves, range, map, tree)
           both == Put(tree, map)
           real == DataReal(i, Leaves, range)
           idx(k) == TreeIndex(SiblingOf(i, k))
<1>0. /\ i \in 0..(Leaves - 1) /\ 0 \in Levels /\ NumChunks \in Nat
  BY TreeFacts DEF Chunks
<1>1. DataTop(i, Leaves) = Height
  BY <1>0, DataTopIs
<1>2. both \in SUBSET ContentTree /\ Indexes(both) = Indexes(map) \cup Indexes(tree)
  BY PutFacts
<1>3. ASSUME NEW k \in 0..(Height - 1) PROVE sib[k] = HashOf(SiblingOf(i, k))
  <2>1. sib[k] = IF k \notin real THEN Null ELSE At(both, idx(k)).Hash
    BY <1>1, <1>3 DEF DataSiblings
  <2>2. CASE k \in real
    <3>1. idx(k) \in Indexes(both)
      BY <1>2, <2>2
    <3> HIDE DEF both
    <3>2. At(both, idx(k)).Hash = HashOf(SiblingOf(i, k))
      BY <1>0, <1>2, <3>1, SiblingKnown
    <3> QED
      BY <2>1, <2>2, <3>2
  <2>3. CASE k \notin real
    <3>1. ~(SiblingOf(i, k).Start <= range)
      BY <1>1, <2>3 DEF DataReal
    <3>2. SiblingOf(i, k).Start \in Nat
      <4>1. k \in Levels /\ k < Height
        BY TreeFacts
      <4> QED
        BY <1>0, <4>1, WayUp
    <3>3. Padding(SiblingOf(i, k))
      BY <1>0, <3>1, <3>2 DEF Padding
    <3>4. HashOf(SiblingOf(i, k)) = Null
      BY <1>0, <3>3, SiblingNode DEF HashOf
    <3> QED
      BY <2>1, <2>3, <3>4
  <2> QED
    BY <2>2, <2>3
<1> HIDE DEF sib
<1>4. Genuine(sib, i, 0)
  BY <1>3 DEF Genuine
<1>5. IsRootHash(HashUp(i, HashOf(NodeOf(i, 0)), 0, Height, sib))
  BY <1>0, <1>4, WayGenuine
<1> QED
  BY <1>1, <1>5, ChunkHash DEF sib

\* What it uses of the hashes of a chunk and of the peaks, if no hash above the
\* chunk is padding or a peak.
LEMMA DataUsedLeft ==
    ASSUME NEW i, Left(i), NEW range \in Int, range >= NumChunks - 1,
           \A k \in 0..(Height - 1) : SiblingOf(i, k).Start <= range
    PROVE  LET map == PeakHashes \cup NeededHashes(i)
           IN  /\ DataUsed(i, Leaves, range, map) = NeededHashes(i)
               /\ \A k \in DataReal(i, Leaves, range) :
                     TreeIndex(SiblingOf(i, k)) \in Indexes(map)
               /\ PeakHashes \cap NeededHashes(i) = {}
<1> DEFINE map == PeakHashes \cup NeededHashes(i)
           idx(k) == TreeIndex(SiblingOf(i, k))
<1>0. i \in 0..(Leaves - 1) /\ map \in SUBSET ContentTree
  BY TreeFacts DEF Left, Chunks, PeakHashes, NeededHashes
<1>1. DataReal(i, Leaves, range) = 0..(Height - 1)
  BY <1>0, DataTopIs DEF DataReal
<1>2. ASSUME NEW k \in 0..(Height - 1)
      PROVE  idx(k) \in Indexes(map) /\ At(ContentTree, idx(k)) \in NeededHashes(i)
  <2>1. At(ContentTree, idx(k)) \in NeededHashes(i)
    BY <1>0, LeftClear, SiblingNode
  <2> QED
    BY <1>0, <2>1, SiblingKnown
<1>3. ASSUME NEW m \in NeededHashes(i)
      PROVE  \E k \in 0..(Height - 1) : idx(k) = TreeIndex(m) /\ RangeOf(m) = SiblingOf(i, k)
  <2>1. PICK k \in 0..(Height - 1) : RangeOf(m) = SiblingOf(i, k)
    BY <1>3 DEF NeededHashes, Needed, Siblings
  <2>2. TreeIndex(m) = idx(k)
    BY <2>1 DEF TreeIndex, RangeOf
  <2> QED
    BY <2>1, <2>2
<1>4. ASSUME NEW m \in map, NEW k \in 0..(Height - 1), idx(k) = TreeIndex(m)
      PROVE  m \in NeededHashes(i)
  <2>1. m \in ContentTree
    BY <1>0
  <2>2. At(ContentTree, idx(k)) \in ContentTree /\ TreeIndex(At(ContentTree, idx(k))) = idx(k)
    BY <1>0, SiblingNode
  <2> QED
    BY <1>2, <1>4, <2>1, <2>2, ContentUnique
<1>5. DataUsed(i, Leaves, range, map) = NeededHashes(i)
  <2>1. DataUsed(i, Leaves, range, map) =
           {m \in map : \E k \in 0..(Height - 1) : idx(k) = TreeIndex(m)}
    BY <1>1 DEF DataUsed
  <2>2. NeededHashes(i) \subseteq map
    OBVIOUS
  <2> HIDE DEF idx, map
  <2> QED
    BY <1>3, <1>4, <2>1, <2>2
<1>6. PeakHashes \cap NeededHashes(i) = {}
  <2>1. SUFFICES ASSUME NEW m \in NeededHashes(i), m \in PeakHashes PROVE FALSE
    OBVIOUS
  <2>2. PICK k \in 0..(Height - 1) : RangeOf(m) = SiblingOf(i, k)
    BY <1>3
  <2>3. RangeOf(m) \in ContentPeaks
    BY <2>1 DEF PeakHashes
  <2> QED
    BY <2>2, <2>3, LeftClear
<1> QED
  BY <1>1, <1>2, <1>5, <1>6

\* There is a node for every peak, and none of them is padding.
LEMMA PeakNode ==
    ASSUME NEW r \in ContentPeaks
    PROVE  LET m == At(ContentTree, TreeIndex(r))
           IN  m \in PeakHashes /\ RangeOf(m) = r /\ TreeIndex(m) = TreeIndex(r)
<1> DEFINE m == At(ContentTree, TreeIndex(r))
<1>1. PICK i \in Chunks, k \in Levels : r = NodeOf(i, k)
  BY DEF ContentPeaks
<1>2. i \in 0..(Leaves - 1)
  BY TreeFacts DEF Chunks
<1>3. m \in ContentTree /\ RangeOf(m) = r /\ TreeIndex(m) = TreeIndex(r)
  BY <1>1, <1>2, ContentAt
<1> QED
  BY <1>3 DEF PeakHashes

\* What is sent as a peak, or for a chunk, is not of padding.
LEMMA SentFilled ==
    /\ PeakHashes \subseteq Filled /\ Filled \subseteq ContentTree
    /\ \A i \in 0..(Leaves - 1) : NeededHashes(i) \subseteq Filled
    /\ PeakHashes = {} <=> NumChunks = Leaves
<1>1. ASSUME NEW m \in PeakHashes PROVE m \in Filled
  <2>1. m \in ContentTree /\ m.End < NumChunks
    BY DEF PeakHashes, ContentPeaks, RangeOf
  <2>2. m.Start \in 0..(Leaves - 1) /\ m.End \in 0..(Leaves - 1) /\ m.Start <= m.End
    BY <2>1, ContentNode
  <2> QED
    BY <2>1, <2>2, TreeFacts DEF Filled
<1>2. ASSUME NEW i \in 0..(Leaves - 1), NEW m \in NeededHashes(i) PROVE m \in Filled
  <2>1. m \in ContentTree /\ ~(m.Start >= NumChunks)
    BY DEF NeededHashes, Needed, Padding, RangeOf
  <2>2. m.Start \in 0..(Leaves - 1)
    BY <2>1, ContentNode
  <2> QED
    BY <2>1, <2>2, TreeFacts DEF Filled
<1>3. NumChunks = Leaves => PeakHashes = {}
  BY FullTree DEF PeakHashes, ContentPeaks
<1>4. NumChunks # Leaves => PeakHashes # {}
  BY FullTree, PeakEnds, PeakNode
<1> QED
  BY <1>1, <1>2, <1>3, <1>4 DEF Filled

\* What a seeder sends as peak hashes.
LEMMA SeederPeaks ==
    ASSUME NEW n, HashTreeMap[n] = ContentTree, ChunkRange[n] = NumChunks - 1
    PROVE  PeakNodes(n) = PeakHashes
<1>0. NumChunks \in Nat /\ NumChunks >= 2 /\ NumChunks - 1 \in Nat /\ Doubling(NumChunks)
      /\ (NumChunks - 1) + 1 = NumChunks
  BY TreeFacts
<1>1. CASE IsPowerOfTwo(NumChunks)
  BY <1>0, <1>1 DEF PeakNodes, PeakHashes, ContentPeaks
<1>2. CASE ~IsPowerOfTwo(NumChunks)
  <2> DEFINE Complete(m) ==
                /\ m.End <= NumChunks - 1
                /\ \E k \in Levels : /\ m.End = m.Start + 2^k - 1
                                     /\ SiblingOf(m.Start, k).End > NumChunks - 1
  <2>1. PeakNodes(n) = {m \in ContentTree : Complete(m)}
    BY <1>0, <1>2 DEF PeakNodes
  <2>2. ASSUME NEW m \in ContentTree PROVE Complete(m) <=> RangeOf(m) \in ContentPeaks
    <3>1. /\ m.Start \in 0..(Leaves - 1) /\ m.End \in 0..(Leaves - 1) /\ m.Start <= m.End
          /\ Leaves \in Nat /\ m \in Near
      BY ContentNode, ContentNear, TreeFacts
    <3>2. ASSUME NEW k \in Levels
          PROVE  m.End = m.Start + 2^k - 1 <=> RangeOf(m) = NodeOf(m.Start, k)
      <4>1. m.End = m.Start + 2^k - 1 => RangeOf(m) = NodeOf(m.Start, k)
        <5>1. SUFFICES ASSUME m.End = m.Start + 2^k - 1 PROVE RangeOf(m) = NodeOf(m.Start, k)
          OBVIOUS
        <5>2. NodeOf(m.Start, k).Start = m.Start /\ NodeOf(m.Start, k).End = m.End
          BY <3>1, <5>1, StartNode
        <5> QED
          BY <5>2, NodeRecords DEF RangeOf
      <4>2. RangeOf(m) = NodeOf(m.Start, k) => m.End = m.Start + 2^k - 1
        <5>1. NodeOf(m.Start, k).End = NodeOf(m.Start, k).Start + Width(k) - 1
          <6>1. k \in 0..(NumChunks + 1) /\ m.Start \in Nat
            BY <3>1, TreeFacts
          <6> QED
            BY <1>0, <6>1, NodeFacts
        <5> QED
          BY <5>1 DEF RangeOf, Width
      <4> QED
        BY <4>1, <4>2
    <3>3. \A k \in Levels : SiblingOf(m.Start, k).End \in Int
      <4>1. \A k \in Levels : k \in 0..NumChunks /\ m.Start \in Nat
        BY <3>1, TreeFacts
      <4> QED
        BY <1>0, <4>1, Halves
    <3>4. RangeOf(m).Start = m.Start /\ RangeOf(m).End = m.End
      BY DEF RangeOf
    <3>5. ASSUME Complete(m) PROVE RangeOf(m) \in ContentPeaks
      <4>1. PICK k \in Levels : /\ m.End = m.Start + 2^k - 1
                                /\ SiblingOf(m.Start, k).End > NumChunks - 1
        BY <3>5
      <4>2. RangeOf(m) = NodeOf(m.Start, k) /\ m.End < NumChunks /\ m.Start \in Chunks
        BY <1>0, <3>1, <3>2, <3>5, <4>1 DEF Chunks
      <4>3. SiblingOf(m.Start, k).End >= NumChunks
        BY <1>0, <3>3, <4>1
      <4> QED
        BY <1>2, <3>4, <4>2, <4>3 DEF ContentPeaks
    <3>6. ASSUME RangeOf(m) \in ContentPeaks PROVE Complete(m)
      <4>1. PICK k \in Levels : /\ RangeOf(m) = NodeOf(m.Start, k)
                                /\ SiblingOf(m.Start, k).End >= NumChunks
        BY <3>4, <3>6 DEF ContentPeaks
      <4>2. m.End < NumChunks
        BY <3>4, <3>6 DEF ContentPeaks
      <4>3. m.End = m.Start + 2^k - 1
        BY <3>2, <4>1
      <4>4. SiblingOf(m.Start, k).End > NumChunks - 1 /\ m.End <= NumChunks - 1
        BY <1>0, <3>1, <3>3, <4>1, <4>2
      <4> QED
        BY <4>3, <4>4
    <3> QED
      BY <3>5, <3>6
  <2> HIDE DEF Complete
  <2> QED
    BY <2>1, <2>2 DEF PeakHashes
<1> QED
  BY <1>1, <1>2

\* The check of the peak hashes: of all of them and nothing else it passes, and
\* uses them all.
LEMMA PeakWay ==
    ASSUME PeaksCheckable, NEW m \in PeakHashes, NEW k \in Levels,
           m.End = m.Start + 2^k - 1, IsStart(m, PeakHashes)
    PROVE  /\ m.End = NumChunks - 1 /\ PeakLeafCount(m.End) = Leaves
           /\ \A j \in PeakReal(m, k) :
                 TreeIndex(SiblingOf(m.Start, j)) \in Indexes(PeakHashes \ {m})
           /\ IsRootHash(HashUp(m.Start, m.Hash, k, PeakTop(m, k),
                                PeakSiblings(m, k, PeakHashes)))
           /\ PeakUsed(m, k, PeakHashes) \cup {m} = PeakHashes
<1> DEFINE p == RangeOf(m)
           rest == PeakHashes \ {m}
           idx(j) == TreeIndex(SiblingOf(m.Start, j))
           real == PeakReal(m, k)
           top == Top(p.Start, k, LastIndex(PeakLeafCount(p.End)))
           needed == {r \in Siblings(p.Start, k, top) : TreeIndex(r) <= 2 * p.End}
<1>0. /\ m \in ContentTree /\ p \in ContentPeaks /\ m \in Near /\ rest \in SUBSET ContentTree
      /\ p.Start = m.Start /\ p.End = m.End /\ k \in Nat /\ Height \in Nat
  BY ContentNear, TreeFacts DEF PeakHashes, RangeOf
<1>1. m.Start \in 0..(Leaves - 1) /\ p = NodeOf(m.Start, k)
  BY <1>0, StartNode, NodeRecords DEF RangeOf
<1>2. IsStart(p, ContentPeaks)
  <2>1. \A r \in ContentPeaks : \E q \in PeakHashes : r.Start = q.Start /\ r.End = q.End
    BY PeakNode DEF RangeOf
  <2>2. \A q \in PeakHashes : \E r \in ContentPeaks : r.Start = q.Start /\ r.End = q.End
    BY DEF PeakHashes, RangeOf
  <2> HIDE DEF p
  <2> QED
    BY <1>0, <2>1, <2>2 DEF IsStart
<1>3. /\ p.End = LastChunk /\ top = Height
      /\ needed \subseteq ContentPeaks \ {p} /\ needed \cup {p} = ContentPeaks
      /\ \A r \in Siblings(p.Start, k, top) : r \in needed \/ Padding(r)
  <2>1. p = NodeOf(p.Start, k)
    BY <1>0, <1>1
  <2>2. ContentPeaks \subseteq ContentPeaks
    OBVIOUS
  <2> HIDE DEF p
  <2> QED
    BY <1>0, <1>2, <2>1, <2>2, WayFromPeak
<1>4. PeakTop(m, k) = Height
  BY <1>0, <1>3 DEF PeakTop, Top, Height
<1>5. m.End = NumChunks - 1 /\ PeakLeafCount(m.End) = Leaves
  <2>1. ~IsPowerOfTwo(NumChunks)
    BY <1>0 DEF ContentPeaks
  <2> QED
    BY <1>0, <1>3, <2>1, LeafCountLast DEF LastChunk
<1>6. \A j : j \in real <=> j \in k..(Height - 1) /\ SiblingOf(m.Start, j) \in needed
  <2>1. \A j : j \in real <=> j \in k..(Height - 1) /\ idx(j) <= 2 * m.End
    BY <1>4 DEF PeakReal
  <2>2. \A j \in k..(Height - 1) : SiblingOf(m.Start, j) \in Siblings(p.Start, k, top)
    BY <1>0, <1>3 DEF Siblings
  <2> HIDE DEF real, top
  <2> QED
    BY <1>0, <2>1, <2>2
<1> HIDE DEF needed
<1>7. ASSUME NEW j \in real
      PROVE  /\ idx(j) \in Indexes(rest) /\ At(rest, idx(j)).Hash = HashOf(SiblingOf(m.Start, j))
             /\ j \in k..(Height - 1)
  <2> DEFINE q == At(ContentTree, idx(j))
  <2>1. j \in 0..(Height - 1) /\ j \in k..(Height - 1)
    BY <1>0, <1>6
  <2>2. SiblingOf(m.Start, j) \in ContentPeaks /\ SiblingOf(m.Start, j) # p
    BY <1>3, <1>6
  <2>3. q \in PeakHashes /\ RangeOf(q) = SiblingOf(m.Start, j)
    BY <1>1, <2>1, <2>2, SiblingNode
  <2>4. q \in rest
    BY <2>2, <2>3
  <2> HIDE DEF rest, real
  <2> QED
    BY <1>0, <1>1, <2>1, <2>4, SiblingKnown
<1>8. ASSUME NEW j \in k..(Height - 1), j \notin real
      PROVE  HashOf(SiblingOf(m.Start, j)) = Null
  <2>1. j \in 0..(Height - 1)
    BY <1>0
  <2>2. SiblingOf(m.Start, j) \in Siblings(p.Start, k, top)
    BY <1>0, <1>3 DEF Siblings
  <2>3. Padding(SiblingOf(m.Start, j))
    BY <1>3, <1>6, <1>8, <2>2
  <2> QED
    BY <1>1, <2>1, <2>3, SiblingNode DEF HashOf
<1>9. IsRootHash(HashUp(m.Start, m.Hash, k, PeakTop(m, k), PeakSiblings(m, k, PeakHashes)))
  <2> DEFINE sib == PeakSiblings(m, k, PeakHashes)
  <2>1. \A j \in k..(Height - 1) :
           sib[j] = IF j \in real THEN At(rest, idx(j)).Hash ELSE Null
    BY <1>4 DEF PeakSiblings
  <2>2. Genuine(sib, m.Start, k)
    <3> HIDE DEF sib, rest, real
    <3> QED
      BY <1>7, <1>8, <2>1 DEF Genuine
  <2> HIDE DEF sib
  <2>3. IsRootHash(HashUp(m.Start, HashOf(NodeOf(m.Start, k)), k, Height, sib))
    BY <1>1, <2>2, WayGenuine
  <2>4. HashOf(NodeOf(m.Start, k)) = m.Hash
    <3> DEFINE q == At(ContentTree, TreeIndex(p))
    <3>1. q \in ContentTree /\ TreeIndex(q) = TreeIndex(p)
      BY <1>0, PeakNode DEF PeakHashes
    <3>2. TreeIndex(p) = TreeIndex(m)
      BY <1>0 DEF TreeIndex
    <3>3. q = m
      <4> HIDE DEF q
      <4> QED
        BY <1>0, <3>1, <3>2, ContentUnique
    <3> QED
      BY <1>1, <3>3 DEF HashOf
  <2> QED
    BY <1>4, <2>3, <2>4 DEF sib
<1>10. PeakUsed(m, k, PeakHashes) \cup {m} = PeakHashes
  <2>1. PeakUsed(m, k, PeakHashes) = {q \in rest : \E j \in real : idx(j) = TreeIndex(q)}
    BY DEF PeakUsed
  <2>2. ASSUME NEW q \in rest PROVE \E j \in real : idx(j) = TreeIndex(q)
    <3>1. RangeOf(q) \in ContentPeaks /\ q \in ContentTree /\ q # m
      BY <2>2 DEF PeakHashes
    <3>2. TreeIndex(RangeOf(q)) = TreeIndex(q) /\ TreeIndex(p) = TreeIndex(m)
      BY DEF TreeIndex, RangeOf
    <3>3. RangeOf(q) # p
      <4> HIDE DEF p
      <4> QED
        BY <1>0, <3>1, <3>2, ContentUnique
    <3>4. RangeOf(q) \in needed
      BY <1>3, <3>1, <3>3
    <3>5. PICK j \in k..(Height - 1) : RangeOf(q) = SiblingOf(m.Start, j)
      BY <1>0, <1>3, <3>4 DEF needed, Siblings
    <3> QED
      BY <1>6, <3>2, <3>4, <3>5
  <2> HIDE DEF idx, real
  <2> QED
    BY <2>1, <2>2
<1> QED
  BY <1>5, <1>7, <1>9, <1>10

-----------------------------------------------------------------------------
(* The inductive invariant *)

\* Types of what holds no hashes.
PlainTypes ==
    /\ swarm \in Swarms
    /\ IsPeakMapCreated \in [Nodes -> BOOLEAN]
    /\ ChunkRange \in [Nodes -> -1..(Leaves - 1)]
    /\ LeafNodeCount \in [Nodes -> 0..Leaves]
    /\ ContentSize \in [Nodes -> BOOLEAN]
    /\ IsFirstData \in [Nodes -> BOOLEAN]
    /\ mutexFree \in [Nodes -> BOOLEAN]
    /\ ChunkRangeList \in [Nodes -> Seq(ChunkRangeSt)]
    /\ IntegritySendMap \in [Channels -> SUBSET Nat]
    /\ IsFirstRequest \in [Channels -> BOOLEAN]
    /\ announced \in [Channels -> ChunkRangeSt \cup {NoRange}]
    /\ data \in [Channels -> [chunk : 0..(Leaves - 1), ok : BOOLEAN] \cup {NoData}]
    /\ pc \in [Channels -> {"handshake", "idle", "data", "first", "store",
                            "rejected"}]
    /\ retry \in [Channels -> BOOLEAN]
    /\ faults \in 0..MaxFaults

\* Trees and peak hashes are of the content; what is on its way or waits in the
\* map of a channel may be spoilt, but is not made up otherwise.
HashesKnown ==
    /\ HashTreeMap \in [Nodes -> SUBSET ContentTree]
    /\ PeakHashMap \in [Nodes -> SUBSET ContentTree]
    /\ integrities \in [Channels -> SUBSET Near]
    /\ delayed \in [Channels -> SUBSET Near]
    /\ DOMAIN IntegrityMap \subseteq Channels
    /\ \A c \in DOMAIN IntegrityMap :
          IntegrityMap[c] \in SUBSET Near /\ OneEach(IntegrityMap[c])

\* The hash of every sibling above the chunk that is not padding is in the tree.
Servable(n, i) ==
    \A k \in 0..(Height - 1) :
        SiblingOf(i, k).Start < NumChunks =>
            TreeIndex(SiblingOf(i, k)) \in Indexes(HashTreeMap[n])

\* The data of a channel: good only for a chunk of the content; past its check
\* it is good, and can be served on.
Carried(c) ==
    /\ data[c].ok => data[c].chunk \in Chunks
    /\ pc[c] \in {"data", "first", "store"} => data[c].chunk \in 0..(Leaves - 1)
    /\ pc[c] \in {"first", "store"} => data[c].ok /\ Servable(c[2], data[c].chunk)

\* What a node has stored, and where it thinks the content ends.
Stored(n) ==
    /\ Separated(ChunkRangeList[n])
    /\ Have(n) \subseteq Chunks
    /\ \A i \in Have(n) : Servable(n, i)
    /\ ChunkRange[n] # -1 => ChunkRange[n] >= NumChunks - 1

IInv ==
    /\ PlainTypes
    /\ HashesKnown
    /\ \A c \in Channels : Carried(c)
    /\ \A n \in Nodes : Stored(n)

\* The ends of a channel are nodes.
LEMMA ChannelEnds ==
    ASSUME NEW c \in Channels
    PROVE  c[1] \in Nodes /\ c[2] \in Nodes
  BY SwarmsAssumption DEF Channels

\* What a handshake announces.
LEMMA BiggestType ==
    ASSUME NEW list \in Seq(ChunkRangeSt)
    PROVE  BiggestHavedChunkRange(list) \in ChunkRangeSt \cup {NoRange}
<1> DEFINE gap(k) == list[k].End - list[k].Start + 1
           Longest == {k \in DOMAIN list : \A m \in DOMAIN list : gap(m) <= gap(k)}
<1>1. BiggestHavedChunkRange(list) =
         IF First(Longest) = 0 THEN [Start |-> -1, End |-> -1] ELSE list[First(Longest)]
  BY DEF BiggestHavedChunkRange
<1>2. Longest \in SUBSET (Nat \ {0}) /\ Longest \subseteq DOMAIN list
  OBVIOUS
<1> HIDE DEF Longest
<1>3. First(Longest) = 0 \/ First(Longest) \in DOMAIN list
  BY <1>2, FirstHit
<1> QED
  BY <1>1, <1>3 DEF NoRange

\* A list that has taken in a chunk, whatever CP was: the list does not depend
\* on it.
LEMMA ListTakesIn ==
    ASSUME NEW list \in Seq(ChunkRangeSt), Separated(list), NEW c \in Nat
    PROVE  LET new == AfterSetHave(list, -1, c, c).list
           IN  /\ new \in Seq(ChunkRangeSt) /\ Separated(new)
               /\ Covered(new) = Covered(list) \cup {c}
<1>1. PICK cp \in Int : PrefixRange(list, cp)
  <2>1. CASE \A k \in DOMAIN list : list[k].Start = 0 => list[k].End = 0
    BY <2>1 DEF PrefixRange
  <2>2. CASE \E k \in DOMAIN list : list[k].Start = 0 /\ list[k].End # 0
    <3>1. PICK k \in DOMAIN list : list[k].Start = 0 /\ list[k].End # 0
      BY <2>2
    <3>2. list[k].End \in Nat
      BY RangeBounds
    <3> QED
      BY <3>1, <3>2 DEF PrefixRange
  <2> QED
    BY <2>1, <2>2
<1>2. AfterSetHave(list, -1, c, c).list = AfterSetHave(list, cp, c, c).list
  <2> DEFINE k  == First({m \in DOMAIN list : Meets(list[m], c, c)})
             ch == Grown(list[k], c, c)
             grown == [list EXCEPT ![k] = ch]
             first(p) == IF ch.Start = 0 THEN ch.End ELSE p
  <2>1. CASE k = 0
    <3>1. \A p \in Int : AfterSetHave(list, p, c, c).list =
                           Append(list, [Start |-> c, End |-> c])
      BY <2>1 DEF AfterSetHave
    <3>2. -1 \in Int
      OBVIOUS
    <3> QED
      BY <3>1, <3>2
  <2>2. CASE k # 0 /\ Encloses(list[k], c, c)
    <3>1. \A p \in Int : AfterSetHave(list, p, c, c).list = list
      BY <2>2 DEF AfterSetHave
    <3>2. -1 \in Int
      OBVIOUS
    <3> QED
      BY <3>1, <3>2
  <2>3. CASE k # 0 /\ ~Encloses(list[k], c, c)
    <3> DEFINE moved(p) == MergeChanged(grown, k, p)
    <3>1. \A p \in Int : AfterSetHave(list, p, c, c) = moved(first(p))
      BY <2>3 DEF AfterSetHave
    <3>2. \A p, q : moved(p).list = moved(q).list
      <4> HIDE DEF grown, k
      <4> QED
        BY DEF MergeChanged
    <3> HIDE DEF moved, first, k
    <3>3. -1 \in Int
      OBVIOUS
    <3> QED
      BY <3>1, <3>2, <3>3
  <2> QED
    BY <2>1, <2>2, <2>3
<1>3. TakesIn(list, cp, c, AfterSetHave(list, cp, c, c).list, AfterSetHave(list, cp, c, c).CP)
  BY <1>1, SetHaveOne
<1> QED
  BY <1>2, <1>3 DEF TakesIn

-----------------------------------------------------------------------------
(* The invariant holds at first *)

\* Seeders have the whole content and its tree, the others have nothing.
LEMMA InitInv == Init => IInv
<1> SUFFICES ASSUME Init PROVE IInv
  OBVIOUS
<1> DEFINE served == {c[2] : c \in swarm}
           whole == <<[Start |-> 0, End |-> NumChunks - 1]>>
<1>0. /\ NumChunks \in Nat /\ NumChunks >= 2 /\ Leaves \in Nat /\ NumChunks <= Leaves
      /\ MaxFaults \in Nat
  BY TreeFacts, FaultsAssumption
<1>1. /\ whole \in Seq(ChunkRangeSt) /\ Separated(whole) /\ Covered(whole) = Chunks
  <2>1. whole \in Seq(ChunkRangeSt) /\ DOMAIN whole = {1}
        /\ whole[1].Start = 0 /\ whole[1].End = NumChunks - 1
    BY <1>0 DEF ChunkRangeSt
  <2> HIDE DEF whole
  <2>2. Separated(whole)
    BY <1>0, <2>1 DEF Separated
  <2>3. {whole[k].Start .. whole[k].End : k \in DOMAIN whole} = {Chunks}
    BY <2>1 DEF Chunks
  <2> QED
    BY <2>1, <2>2, <2>3 DEF Covered
<1>2. <<>> \in Seq(ChunkRangeSt) /\ Separated(<<>>) /\ Covered(<<>>) = {}
  BY DEF Separated, Covered
<1>3. PlainTypes
  <2>1. /\ ChunkRange \in [Nodes -> -1..(Leaves - 1)]
        /\ LeafNodeCount \in [Nodes -> 0..Leaves]
        /\ ContentSize \in [Nodes -> BOOLEAN]
    BY <1>0 DEF Init
  <2>2. ChunkRangeList \in [Nodes -> Seq(ChunkRangeSt)]
    BY <1>1, <1>2 DEF Init
  <2> QED
    BY <1>0, <2>1, <2>2 DEF Init, PlainTypes
<1>4. HashesKnown
  BY DEF Init, HashesKnown
<1>5. ASSUME NEW c \in Channels PROVE Carried(c)
  BY DEF Init, Carried, NoData
<1>6. ASSUME NEW n \in Nodes PROVE Stored(n)
  <2>1. CASE n \notin served
    <3>1. /\ ChunkRangeList[n] = whole /\ HashTreeMap[n] = ContentTree
          /\ ChunkRange[n] = NumChunks - 1
      BY <2>1 DEF Init
    <3>2. \A i \in Chunks : Servable(n, i)
      <4>1. \A i \in Chunks : i \in 0..(Leaves - 1)
        BY <1>0 DEF Chunks
      <4> QED
        BY <3>1, <4>1, SiblingMade DEF Servable
    <3> HIDE DEF whole
    <3> QED
      BY <1>0, <1>1, <3>1, <3>2 DEF Stored, Have
  <2>2. CASE n \in served
    <3>1. ChunkRangeList[n] = <<>> /\ ChunkRange[n] = -1
      BY <2>2 DEF Init
    <3> QED
      BY <1>2, <3>1 DEF Stored, Have
  <2> QED
    BY <2>1, <2>2
<1> QED
  BY <1>3, <1>4, <1>5, <1>6 DEF IInv

-----------------------------------------------------------------------------
(* What a step leaves alone *)

\* As long as trees only grow, what could be served still can.
Growing == \A n \in Nodes : Indexes(HashTreeMap[n]) \subseteq Indexes(HashTreeMap'[n])

\* What could be served before a step under which trees only grow.
LEMMA ServableStays ==
    ASSUME Growing, NEW n \in Nodes, NEW i, Servable(n, i)
    PROVE  Servable(n, i)'
  BY DEF Growing, Servable

\* A step of one channel does not touch the data of the others.
LEMMA OthersCarried ==
    ASSUME IInv, Growing, NEW c \in Channels, Carried(c)',
           \A d \in Channels \ {c} : pc'[d] = pc[d] /\ data'[d] = data[d]
    PROVE  \A d \in Channels : Carried(d)'
<1>1. ASSUME NEW d \in Channels \ {c} PROVE Carried(d)'
  <2>1. Carried(d) /\ pc'[d] = pc[d] /\ data'[d] = data[d] /\ d[2] \in Nodes
    BY <1>1, ChannelEnds DEF IInv
  <2>2. Servable(d[2], data[d].chunk) =>
           \A k \in 0..(Height - 1) :
              SiblingOf(data[d].chunk, k).Start < NumChunks =>
                  TreeIndex(SiblingOf(data[d].chunk, k)) \in Indexes(HashTreeMap'[d[2]])
    BY <2>1 DEF Growing, Servable
  <2> QED
    BY <2>1, <2>2 DEF Carried, Servable
<1> QED
  BY <1>1

\* A step that stores nothing, and moves ChunkRange at most to the end.
LEMMA StoredGrows ==
    ASSUME IInv, Growing, UNCHANGED ChunkRangeList,
           \A n \in Nodes : ChunkRange'[n] \in {ChunkRange[n]} \cup (NumChunks - 1)..(Leaves - 1)
    PROVE  \A n \in Nodes : Stored(n)'
<1>1. ASSUME NEW n \in Nodes PROVE Stored(n)'
  <2>1. Stored(n) /\ Have(n)' = Have(n) /\ ChunkRangeList'[n] = ChunkRangeList[n]
    BY DEF IInv, Have
  <2>2. \A i \in Have(n) : Servable(n, i)'
    BY <2>1, ServableStays DEF Stored
  <2>3. ChunkRange'[n] # -1 => ChunkRange'[n] >= NumChunks - 1
    BY <2>1, TreeFacts DEF Stored
  <2> QED
    BY <2>1, <2>2, <2>3 DEF Stored
<1> QED
  BY <1>1

\* A step that stores nothing and does not touch ChunkRange.
LEMMA StoredStays ==
    ASSUME IInv, Growing, UNCHANGED <<ChunkRangeList, ChunkRange>>
    PROVE  \A n \in Nodes : Stored(n)'
  BY StoredGrows

\* Trees grow, if only by nothing, when they are left alone.
LEMMA TreesStay == HashTreeMap' = HashTreeMap => Growing
  BY DEF Growing

-----------------------------------------------------------------------------
(* The serving side and the network *)

\* SendHandShakeHave announces a range of the serving node's list.
LEMMA HandShakeStep ==
    ASSUME IInv, NEW c \in Channels, SendHandShakeHave(c)
    PROVE  IInv'
<1>1. /\ announced' = [announced EXCEPT ![c] = BiggestHavedChunkRange(ChunkRangeList[c[1]])]
      /\ pc' = [pc EXCEPT ![c] = "idle"]
      /\ UNCHANGED <<treeVars, mutexFree, ChunkRangeList, IntegrityMap,
                     IntegritySendMap, IsFirstRequest, netVars, data, retry>>
  BY DEF SendHandShakeHave, goto
<1>2. PlainTypes'
  <2>1. ChunkRangeList[c[1]] \in Seq(ChunkRangeSt)
    BY ChannelEnds DEF IInv, PlainTypes
  <2>2. BiggestHavedChunkRange(ChunkRangeList[c[1]]) \in ChunkRangeSt \cup {NoRange}
    BY <2>1, BiggestType
  <2> QED
    BY <1>1, <2>2 DEF IInv, PlainTypes, treeVars, netVars
<1>3. HashesKnown'
  BY <1>1 DEF IInv, HashesKnown, treeVars, netVars
<1>4. Growing
  BY <1>1, TreesStay DEF treeVars
<1>5. Carried(c)'
  BY <1>1 DEF IInv, PlainTypes, Carried
<1>6. \A d \in Channels : Carried(d)'
  <2>1. \A d \in Channels \ {c} : pc'[d] = pc[d] /\ data'[d] = data[d]
    BY <1>1 DEF IInv, PlainTypes
  <2> QED
    BY <1>4, <1>5, <2>1, OthersCarried
<1>7. \A n \in Nodes : Stored(n)'
  BY <1>1, <1>4, StoredStays DEF treeVars
<1> QED
  BY <1>2, <1>3, <1>6, <1>7 DEF IInv

\* What a node sends comes from its tree.
LEMMA SentKnown ==
    ASSUME IInv, NEW c \in Channels, NEW i
    PROVE  /\ GetDataIntegrity(c, i) \in SUBSET ContentTree
           /\ GetPeakHashes(c[1]) \in SUBSET ContentTree
<1>1. /\ HashTreeMap[c[1]] \in SUBSET ContentTree
      /\ PeakHashMap[c[1]] \in SUBSET ContentTree
  BY ChannelEnds DEF IInv, HashesKnown
<1>2. GetDataIntegrity(c, i) \subseteq HashTreeMap[c[1]]
  BY DEF GetDataIntegrity
<1>3. PeakNodes(c[1]) \subseteq HashTreeMap[c[1]]
  BY DEF PeakNodes
<1> QED
  BY <1>1, <1>2, <1>3 DEF GetPeakHashes

\* ReceiveRequest sends hashes of the serving node's tree, and good data only for
\* a chunk the node has.
LEMMA RequestStep ==
    ASSUME IInv, NEW c \in Channels, NEW i \in 0..(Leaves - 1), ReceiveRequest(c, i)
    PROVE  IInv'
<1> DEFINE peaks == IF IsFirstRequest[c] THEN GetPeakHashes(c[1]) ELSE {}
           sent == GetDataIntegrity(c, i)
           ok == i \in Have(c[1])
<1>1. /\ integrities' = [integrities EXCEPT ![c] = Put(@, peaks \cup sent)]
      /\ IntegritySendMap' = [IntegritySendMap EXCEPT ![c] = @ \cup Indexes(sent)]
      /\ IsFirstRequest' = [IsFirstRequest EXCEPT ![c] = FALSE]
      /\ data' = [data EXCEPT ![c] = [chunk |-> i, ok |-> ok]]
      /\ pc' = [pc EXCEPT ![c] = "data"]
      /\ UNCHANGED <<HashTreeMap, ChunkRange, LeafNodeCount, ContentSize,
                     IsFirstData, mutexFree, ChunkRangeList, IntegrityMap,
                     announced, retry, swarm, delayed, faults>>
  BY DEF ReceiveRequest, goto
<1>2. \/ /\ PeakHashMap' = [PeakHashMap EXCEPT ![c[1]] = peaks]
         /\ IsPeakMapCreated' = [IsPeakMapCreated EXCEPT ![c[1]] = TRUE]
      \/ UNCHANGED <<PeakHashMap, IsPeakMapCreated>>
  BY DEF ReceiveRequest
<1>3. /\ peaks \in SUBSET ContentTree /\ sent \in SUBSET ContentTree
      /\ peaks \cup sent \in SUBSET Near /\ Indexes(sent) \in SUBSET Nat
  <2>1. peaks \in SUBSET ContentTree /\ sent \in SUBSET ContentTree
    BY SentKnown
  <2> HIDE DEF peaks, sent
  <2>2. peaks \cup sent \in SUBSET Near /\ sent \in SUBSET Near
    BY <2>1, ContentNear
  <2> QED
    BY <2>1, <2>2, IndexRange
<1>4. ok \in BOOLEAN /\ (ok => i \in Chunks)
  BY ChannelEnds DEF IInv, Stored
<1> HIDE DEF peaks, sent, ok
<1>5. PlainTypes'
  <2>1. /\ IntegritySendMap' \in [Channels -> SUBSET Nat]
        /\ IsFirstRequest' \in [Channels -> BOOLEAN]
    BY <1>1, <1>3 DEF IInv, PlainTypes
  <2>2. data' \in [Channels -> [chunk : 0..(Leaves - 1), ok : BOOLEAN] \cup {NoData}]
    BY <1>1, <1>4 DEF IInv, PlainTypes
  <2>3. pc' \in [Channels -> {"handshake", "idle", "data", "first", "store", "rejected"}]
    BY <1>1 DEF IInv, PlainTypes
  <2>4. IsPeakMapCreated' \in [Nodes -> BOOLEAN]
    BY <1>2 DEF IInv, PlainTypes
  <2> QED
    BY <1>1, <2>1, <2>2, <2>3, <2>4 DEF IInv, PlainTypes
<1>6. HashesKnown'
  <2>1. integrities' \in [Channels -> SUBSET Near]
    <3>1. integrities[c] \in SUBSET Near
      BY DEF IInv, HashesKnown
    <3>2. Put(integrities[c], peaks \cup sent) \in SUBSET Near
      BY <1>3, <3>1, PutFacts
    <3> QED
      BY <1>1, <3>2 DEF IInv, HashesKnown
  <2>2. PeakHashMap' \in [Nodes -> SUBSET ContentTree]
    BY <1>2, <1>3 DEF IInv, HashesKnown
  <2> QED
    BY <1>1, <2>1, <2>2 DEF IInv, HashesKnown
<1>7. Growing
  BY <1>1, TreesStay
<1>8. Carried(c)'
  <2>1. data'[c] = [chunk |-> i, ok |-> ok] /\ pc'[c] = "data"
    BY <1>1 DEF IInv, PlainTypes
  <2> QED
    BY <1>4, <2>1 DEF Carried
<1>9. \A d \in Channels : Carried(d)'
  <2>1. \A d \in Channels \ {c} : pc'[d] = pc[d] /\ data'[d] = data[d]
    BY <1>1 DEF IInv, PlainTypes
  <2> QED
    BY <1>7, <1>8, <2>1, OthersCarried
<1>10. \A n \in Nodes : Stored(n)'
  BY <1>1, <1>7, StoredStays
<1> QED
  BY <1>5, <1>6, <1>9, <1>10 DEF IInv

\* A step that touches only the datagrams: no tree, no list, no data.
LEMMA DataStays ==
    ASSUME IInv, UNCHANGED <<HashTreeMap, ChunkRangeList, ChunkRange, data, pc>>
    PROVE  (\A d \in Channels : Carried(d)') /\ (\A n \in Nodes : Stored(n)')
<1>1. Growing
  BY TreesStay
<1>2. \A d \in Channels : Carried(d)'
  BY DEF IInv, Carried, Servable
<1> QED
  BY <1>1, <1>2, StoredStays

\* One node more in the map of a channel.
LEMMA MapAdds ==
    ASSUME NEW map \in SUBSET Near, OneEach(map), NEW m \in Near
    PROVE  Put(map, {m}) \in SUBSET Near /\ OneEach(Put(map, {m}))
<1>1. OneEach({m})
  BY DEF OneEach
<1> QED
  BY <1>1, PutFacts

\* AddIntegrity moves a hash from the network to the map of the channel.
LEMMA IntegrityStep ==
    ASSUME IInv, NEW c \in Channels, NEW m \in integrities[c] \cup delayed[c],
           AddIntegrity(c, m)
    PROVE  IInv'
<1>1. /\ integrities' = [integrities EXCEPT ![c] = @ \ {m}]
      /\ delayed' = [delayed EXCEPT ![c] = @ \ {m}]
      /\ UNCHANGED <<treeVars, mutexFree, ChunkRangeList, sendVars, data, pc,
                     retry, swarm, faults>>
  BY DEF AddIntegrity
<1>2. IntegrityMap' = IF c \in DOMAIN IntegrityMap
                      THEN [IntegrityMap EXCEPT ![c] = Put(@, {m})]
                      ELSE [d \in DOMAIN IntegrityMap \cup {c} |->
                               IF d = c THEN {m} ELSE IntegrityMap[d]]
  BY DEF AddIntegrity
<1>3. m \in Near
  BY DEF IInv, HashesKnown
<1>4. PlainTypes'
  BY <1>1 DEF IInv, PlainTypes, treeVars, sendVars
<1>5. HashesKnown'
  <2>1. integrities' \in [Channels -> SUBSET Near] /\ delayed' \in [Channels -> SUBSET Near]
    BY <1>1 DEF IInv, HashesKnown
  <2>2. /\ DOMAIN IntegrityMap' \subseteq Channels
        /\ \A d \in DOMAIN IntegrityMap' :
              IntegrityMap'[d] \in SUBSET Near /\ OneEach(IntegrityMap'[d])
    <3>1. CASE c \in DOMAIN IntegrityMap
      <4>1. IntegrityMap[c] \in SUBSET Near /\ OneEach(IntegrityMap[c])
        BY <3>1 DEF IInv, HashesKnown
      <4>2. Put(IntegrityMap[c], {m}) \in SUBSET Near /\ OneEach(Put(IntegrityMap[c], {m}))
        BY <1>3, <4>1, MapAdds
      <4>3. /\ DOMAIN IntegrityMap' = DOMAIN IntegrityMap
            /\ \A d \in DOMAIN IntegrityMap :
                  IntegrityMap'[d] = IF d = c THEN Put(IntegrityMap[c], {m})
                                     ELSE IntegrityMap[d]
        BY <1>2, <3>1
      <4> QED
        BY <4>2, <4>3 DEF IInv, HashesKnown
    <3>2. CASE c \notin DOMAIN IntegrityMap
      <4>1. {m} \in SUBSET Near /\ OneEach({m})
        BY <1>3 DEF OneEach
      <4>2. /\ DOMAIN IntegrityMap' = DOMAIN IntegrityMap \cup {c}
            /\ \A d \in DOMAIN IntegrityMap' :
                  IntegrityMap'[d] = IF d = c THEN {m} ELSE IntegrityMap[d]
        BY <1>2, <3>2
      <4> QED
        BY <4>1, <4>2 DEF IInv, HashesKnown
    <3> QED
      BY <3>1, <3>2
  <2> QED
    BY <1>1, <2>1, <2>2 DEF IInv, HashesKnown, treeVars
<1>6. (\A d \in Channels : Carried(d)') /\ (\A n \in Nodes : Stored(n)')
  BY <1>1, DataStays DEF treeVars
<1> QED
  BY <1>4, <1>5, <1>6 DEF IInv

\* A fault is counted.
LEMMA FaultCounted ==
    ASSUME IInv, NEW kind, Fault(kind)
    PROVE  faults' \in 0..MaxFaults
  BY FaultsAssumption DEF Fault, IInv, PlainTypes

\* A hash is lost.
LEMMA LoseStep ==
    ASSUME IInv, NEW c \in Channels, NEW m \in integrities[c], Lose(c, m)
    PROVE  IInv'
<1>1. /\ integrities' = [integrities EXCEPT ![c] = @ \ {m}]
      /\ UNCHANGED <<treeVars, mutexFree, ChunkRangeList, IntegrityMap,
                     sendVars, swarm, delayed, data, pc, retry>>
      /\ faults' \in 0..MaxFaults
  BY FaultCounted DEF Lose
<1>2. PlainTypes'
  BY <1>1 DEF IInv, PlainTypes, treeVars, sendVars
<1>3. HashesKnown'
  BY <1>1 DEF IInv, HashesKnown, treeVars
<1>4. (\A d \in Channels : Carried(d)') /\ (\A n \in Nodes : Stored(n)')
  BY <1>1, DataStays DEF treeVars
<1> QED
  BY <1>2, <1>3, <1>4 DEF IInv

\* Hashes are late.
LEMMA DelayStep ==
    ASSUME IInv, NEW c \in Channels, NEW late \in SUBSET integrities[c], Delay(c, late)
    PROVE  IInv'
<1>1. /\ integrities' = [integrities EXCEPT ![c] = @ \ late]
      /\ delayed' = [delayed EXCEPT ![c] = @ \cup late]
      /\ UNCHANGED <<treeVars, mutexFree, ChunkRangeList, IntegrityMap,
                     sendVars, swarm, data, pc, retry>>
      /\ faults' \in 0..MaxFaults
  BY FaultCounted DEF Delay
<1>2. PlainTypes'
  BY <1>1 DEF IInv, PlainTypes, treeVars, sendVars
<1>3. HashesKnown'
  <2>1. integrities' \in [Channels -> SUBSET Near]
    BY <1>1 DEF IInv, HashesKnown
  <2>2. delayed' \in [Channels -> SUBSET Near]
    <3>1. integrities[c] \in SUBSET Near /\ delayed[c] \in SUBSET Near
      BY DEF IInv, HashesKnown
    <3>2. delayed[c] \cup late \in SUBSET Near
      BY <3>1
    <3> QED
      BY <1>1, <3>2 DEF IInv, HashesKnown
  <2> QED
    BY <1>1, <2>1, <2>2 DEF IInv, HashesKnown, treeVars
<1>4. (\A d \in Channels : Carried(d)') /\ (\A n \in Nodes : Stored(n)')
  BY <1>1, DataStays DEF treeVars
<1> QED
  BY <1>2, <1>3, <1>4 DEF IInv

\* A hash or the data of a channel is spoilt; the data is not checked yet.
LEMMA SpoilStep ==
    ASSUME IInv, NEW c \in Channels, Spoil(c)
    PROVE  IInv'
<1>1. /\ UNCHANGED <<treeVars, mutexFree, ChunkRangeList, IntegrityMap,
                     sendVars, swarm, delayed, pc, retry>>
      /\ faults' \in 0..MaxFaults
  BY FaultCounted DEF Spoil
<1>2. CASE \E m \in integrities[c] :
             /\ integrities' = [integrities EXCEPT ![c] = Put(@, {[m EXCEPT !.Hash = Bad]})]
             /\ UNCHANGED data
  <2>1. PICK m \in integrities[c] :
           /\ integrities' = [integrities EXCEPT ![c] = Put(@, {[m EXCEPT !.Hash = Bad]})]
           /\ UNCHANGED data
    BY <1>2
  <2>2. integrities[c] \in SUBSET Near
    BY DEF IInv, HashesKnown
  <2>3. [m EXCEPT !.Hash = Bad] \in Near
    <3>1. /\ m \in [Start : 0..(Leaves - 1), End : 0..(Leaves - 1), Hash : Seq(Int)]
          /\ Spoilt(m) \in Near
      BY <2>2, NearNode
    <3>2. [m EXCEPT !.Hash = Bad] = Spoilt(m)
      BY <3>1 DEF Spoilt
    <3> QED
      BY <3>1, <3>2
  <2>4. Put(integrities[c], {[m EXCEPT !.Hash = Bad]}) \in SUBSET Near
    BY <2>2, <2>3, PutFacts
  <2>5. PlainTypes'
    BY <1>1, <2>1 DEF IInv, PlainTypes, treeVars, sendVars
  <2>6. HashesKnown'
    BY <1>1, <2>1, <2>4 DEF IInv, HashesKnown, treeVars
  <2>7. (\A d \in Channels : Carried(d)') /\ (\A n \in Nodes : Stored(n)')
    BY <1>1, <2>1, DataStays DEF treeVars
  <2> QED
    BY <2>5, <2>6, <2>7 DEF IInv
<1>3. CASE /\ pc[c] = "data" /\ data[c].ok
           /\ data' = [data EXCEPT ![c].ok = FALSE]
           /\ UNCHANGED integrities
  <2>1. data[c] \in [chunk : 0..(Leaves - 1), ok : BOOLEAN]
    BY <1>3 DEF IInv, PlainTypes, NoData
  <2>2. /\ data'[c] = [chunk |-> data[c].chunk, ok |-> FALSE]
        /\ \A d \in Channels \ {c} : data'[d] = data[d]
        /\ data' \in [Channels -> [chunk : 0..(Leaves - 1), ok : BOOLEAN] \cup {NoData}]
    BY <1>3, <2>1 DEF IInv, PlainTypes
  <2>3. PlainTypes'
    BY <1>1, <2>2 DEF IInv, PlainTypes, treeVars, sendVars
  <2>4. HashesKnown'
    BY <1>1, <1>3 DEF IInv, HashesKnown, treeVars
  <2>5. Growing
    BY <1>1, TreesStay DEF treeVars
  <2>6. Carried(c)'
    BY <1>1, <1>3, <2>1, <2>2 DEF Carried
  <2>7. \A d \in Channels : Carried(d)'
    BY <1>1, <2>2, <2>5, <2>6, OthersCarried
  <2>8. \A n \in Nodes : Stored(n)'
    BY <1>1, <2>5, StoredStays DEF treeVars
  <2> QED
    BY <2>3, <2>4, <2>7, <2>8 DEF IInv
<1> QED
  BY <1>2, <1>3 DEF Spoil

\* RetryRequest drops the data of the channel.
LEMMA RetryStep ==
    ASSUME IInv, NEW c \in Channels, RetryRequest(c)
    PROVE  IInv'
<1>1. /\ retry' = [retry EXCEPT ![c] = TRUE]
      /\ data' = [data EXCEPT ![c] = NoData]
      /\ pc' = [pc EXCEPT ![c] = "idle"]
      /\ UNCHANGED <<treeVars, mutexFree, ChunkRangeList, IntegrityMap,
                     sendVars, netVars>>
  BY DEF RetryRequest, goto
<1>2. PlainTypes'
  BY <1>1 DEF IInv, PlainTypes, treeVars, sendVars, netVars
<1>3. HashesKnown'
  BY <1>1 DEF IInv, HashesKnown, treeVars, netVars
<1>4. Growing
  BY <1>1, TreesStay DEF treeVars
<1>5. /\ data'[c] = NoData /\ pc'[c] = "idle"
      /\ \A d \in Channels \ {c} : pc'[d] = pc[d] /\ data'[d] = data[d]
  BY <1>1 DEF IInv, PlainTypes
<1>6. \A d \in Channels : Carried(d)'
  <2>1. Carried(c)'
    BY <1>5 DEF Carried, NoData
  <2> QED
    BY <1>4, <1>5, <2>1, OthersCarried
<1>7. \A n \in Nodes : Stored(n)'
  BY <1>1, <1>4, StoredStays DEF treeVars
<1> QED
  BY <1>2, <1>3, <1>6, <1>7 DEF IInv

\* SetData stores a chunk of the content that can be served.
LEMMA StoreStep ==
    ASSUME IInv, NEW c \in Channels, SetData(c)
    PROVE  IInv'
<1> DEFINE n == c[2]
           i == data[c].chunk
           new == AfterSetHave(ChunkRangeList[n], -1, i, i).list
<1>1. /\ ChunkRangeList' = [ChunkRangeList EXCEPT ![n] = new]
      /\ retry' = [retry EXCEPT ![c] = FALSE]
      /\ data' = [data EXCEPT ![c] = NoData]
      /\ pc' = [pc EXCEPT ![c] = "idle"]
      /\ UNCHANGED <<treeVars, mutexFree, IntegrityMap, sendVars, netVars>>
      /\ pc[c] \in {"store", "first"}
  BY DEF SetData, goto
<1>2. n \in Nodes /\ i \in Chunks /\ i \in Nat /\ Servable(n, i)
  <2>1. Carried(c)
    BY DEF IInv
  <2> QED
    BY <1>1, <2>1, ChannelEnds DEF Carried, Chunks
<1>3. /\ new \in Seq(ChunkRangeSt) /\ Separated(new)
      /\ Covered(new) = Have(n) \cup {i}
  <2>1. ChunkRangeList[n] \in Seq(ChunkRangeSt) /\ Separated(ChunkRangeList[n])
    BY <1>2 DEF IInv, PlainTypes, Stored
  <2> HIDE DEF n, i
  <2> QED
    BY <1>2, <2>1, ListTakesIn DEF Have
<1> HIDE DEF n, i, new
<1>4. PlainTypes'
  BY <1>1, <1>3 DEF IInv, PlainTypes, treeVars, sendVars, netVars
<1>5. HashesKnown'
  BY <1>1 DEF IInv, HashesKnown, treeVars, netVars
<1>6. Growing
  BY <1>1, TreesStay DEF treeVars
<1>7. /\ data'[c] = NoData /\ pc'[c] = "idle"
      /\ \A d \in Channels \ {c} : pc'[d] = pc[d] /\ data'[d] = data[d]
  BY <1>1 DEF IInv, PlainTypes
<1>8. \A d \in Channels : Carried(d)'
  <2>1. Carried(c)'
    BY <1>7 DEF Carried, NoData
  <2> QED
    BY <1>6, <1>7, <2>1, OthersCarried
<1>9. ASSUME NEW a \in Nodes PROVE Stored(a)'
  <2>1. Stored(a) /\ ChunkRange' = ChunkRange /\ HashTreeMap' = HashTreeMap
    BY <1>1 DEF IInv, treeVars
  <2>2. CASE a = n
    <3>1. ChunkRangeList'[a] = new
      BY <1>1, <2>2 DEF IInv, PlainTypes
    <3>2. Have(a)' = Have(a) \cup {i}
      BY <1>3, <2>2, <3>1 DEF Have
    <3>3. \A j \in Have(a)' : Servable(a, j)
      BY <1>2, <2>1, <2>2, <3>2 DEF Stored
    <3> QED
      BY <1>2, <1>3, <2>1, <3>1, <3>2, <3>3 DEF Stored, Servable
  <2>3. CASE a # n
    <3>1. ChunkRangeList'[a] = ChunkRangeList[a]
      BY <1>1, <2>3 DEF IInv, PlainTypes
    <3>2. Have(a)' = Have(a)
      BY <3>1 DEF Have
    <3> QED
      BY <2>1, <3>1, <3>2 DEF Stored, Servable
  <2> QED
    BY <2>2, <2>3
<1> QED
  BY <1>4, <1>5, <1>8, <1>9 DEF IInv

-----------------------------------------------------------------------------
(* The checks of the downloading side *)

\* Hashes of the content that move from the map of a channel to the tree.
LEMMA MoveFacts ==
    ASSUME IInv, NEW c \in Channels, NEW used \in SUBSET ContentTree,
           MoveToTree(c, used)
    PROVE  /\ HashTreeMap' \in [Nodes -> SUBSET ContentTree]
           /\ DOMAIN IntegrityMap' \subseteq Channels
           /\ \A d \in DOMAIN IntegrityMap' :
                 IntegrityMap'[d] \in SUBSET Near /\ OneEach(IntegrityMap'[d])
           /\ Growing
           /\ Indexes(HashTreeMap'[c[2]]) = Indexes(HashTreeMap[c[2]]) \cup Indexes(used)
<1> DEFINE n == c[2]
<1>1. n \in Nodes /\ HashTreeMap[n] \in SUBSET ContentTree
  BY ChannelEnds DEF IInv, HashesKnown
<1>2. HashTreeMap' = [HashTreeMap EXCEPT ![n] = Put(used, @)]
  BY DEF MoveToTree
<1>3. /\ Put(used, HashTreeMap[n]) \in SUBSET ContentTree
      /\ Indexes(Put(used, HashTreeMap[n])) = Indexes(used) \cup Indexes(HashTreeMap[n])
  BY <1>1, PutFacts
<1> HIDE DEF n
<1>4. /\ HashTreeMap' \in [Nodes -> SUBSET ContentTree]
      /\ HashTreeMap'[n] = Put(used, HashTreeMap[n])
      /\ \A a \in Nodes \ {n} : HashTreeMap'[a] = HashTreeMap[a]
  BY <1>1, <1>2, <1>3 DEF IInv, HashesKnown
<1>5. Growing
  BY <1>3, <1>4 DEF Growing
<1>6. /\ DOMAIN IntegrityMap' = DOMAIN IntegrityMap
      /\ \A d \in DOMAIN IntegrityMap : IntegrityMap'[d] \subseteq IntegrityMap[d]
  BY DEF MoveToTree
<1>7. \A d \in DOMAIN IntegrityMap' :
         IntegrityMap'[d] \in SUBSET Near /\ OneEach(IntegrityMap'[d])
  BY <1>6 DEF IInv, HashesKnown, OneEach
<1>8. DOMAIN IntegrityMap' \subseteq Channels
  BY <1>6 DEF IInv, HashesKnown
<1> QED
  BY <1>3, <1>4, <1>5, <1>7, <1>8 DEF n

\* What a check has before it.
LEMMA CheckInput ==
    ASSUME IInv, NEW c \in Channels
    PROVE  /\ Received(c) \in SUBSET Near /\ OneEach(Received(c))
           /\ DataHash(c) \in {Leaf(data[c].chunk), Bad}
           /\ DataHash(c) # Bad => data[c].ok
           /\ pc[c] \in {"data", "first", "store"} => data[c].chunk \in 0..(Leaves - 1)
<1>1. Received(c) \in SUBSET Near /\ OneEach(Received(c))
  BY DEF IInv, HashesKnown, Received, OneEach
<1>2. Carried(c)
  BY DEF IInv
<1> QED
  BY <1>1, <1>2 DEF Carried, DataHash

\* A check that rejects its data, or does no more than that and spoil the
\* bookkeeping of the node.
LEMMA RejectStep ==
    ASSUME IInv, NEW c \in Channels, Reject(c),
           UNCHANGED <<HashTreeMap, PeakHashMap, ChunkRange, ChunkRangeList,
                       integrities, delayed, data>>,
           DOMAIN IntegrityMap' = DOMAIN IntegrityMap,
           \A d \in DOMAIN IntegrityMap : IntegrityMap'[d] \subseteq IntegrityMap[d],
           PlainTypes'
    PROVE  IInv'
<1>1. pc' = [pc EXCEPT ![c] = "rejected"]
  BY DEF Reject, goto
<1>2. HashesKnown'
  BY DEF IInv, HashesKnown, OneEach
<1>3. Growing
  BY TreesStay
<1>4. Carried(c)'
  BY <1>1 DEF IInv, PlainTypes, Carried
<1>5. \A d \in Channels : Carried(d)'
  <2>1. \A d \in Channels \ {c} : pc'[d] = pc[d] /\ data'[d] = data[d]
    BY <1>1 DEF IInv, PlainTypes
  <2> QED
    BY <1>3, <1>4, <2>1, OthersCarried
<1>6. \A n \in Nodes : Stored(n)'
  BY <1>3, StoredStays
<1> QED
  BY <1>2, <1>5, <1>6 DEF IInv

\* CheckFirstDataIntegrity.
LEMMA FirstDataStep ==
    ASSUME IInv, NEW c \in Channels, CheckFirstDataIntegrity(c)
    PROVE  IInv'
<1> DEFINE n    == c[2]
           i    == data[c].chunk
           map  == Received(c)
           h    == DataHash(c)
           idx(k) == TreeIndex(SiblingOf(i, k))
           top  == FirstTop(i, map)
           used == FirstUsed(i, map)
           sib  == FoundSiblings(i, map)
           end  == NodeOf(i, top).End
           passes == IsRootHash(HashUp(i, h, 0, top, sib))
<1>1. /\ pc[c] = "data"
      /\ UNCHANGED <<PeakHashMap, IsPeakMapCreated, ContentSize, IsFirstData,
                     mutexFree, ChunkRangeList, sendVars, netVars, data, retry>>
  BY DEF CheckFirstDataIntegrity
<1>2. \/ /\ passes
         /\ ChunkRange' = [ChunkRange EXCEPT ![n] = end]
         /\ LeafNodeCount' = [LeafNodeCount EXCEPT ![n] = end + 1]
         /\ MoveToTree(c, used)
         /\ pc' = [pc EXCEPT ![c] = "first"]
      \/ /\ Reject(c)
         /\ UNCHANGED <<HashTreeMap, ChunkRange, LeafNodeCount, IntegrityMap>>
  BY DEF CheckFirstDataIntegrity, goto, FirstTop, FirstUsed, FoundSiblings
<1>3. passes => /\ h # Bad /\ top = Height /\ used \subseteq map \cap ContentTree
                /\ \A k \in 0..(Height - 1) : idx(k) \in Indexes(used)
  <2>1. i \in 0..(Leaves - 1) /\ map \in SUBSET Near /\ h \in {Leaf(i), Bad}
    BY <1>1, CheckInput
  <2> HIDE DEF i, map, h
  <2> QED
    BY <2>1, FirstDataProved
<1>4. n \in Nodes /\ i \in 0..(Leaves - 1)
  BY <1>1, CheckInput, ChannelEnds
<1>5. CASE /\ passes
           /\ ChunkRange' = [ChunkRange EXCEPT ![n] = end]
           /\ LeafNodeCount' = [LeafNodeCount EXCEPT ![n] = end + 1]
           /\ MoveToTree(c, used)
           /\ pc' = [pc EXCEPT ![c] = "first"]
  <2>1. /\ h # Bad /\ top = Height /\ used \in SUBSET ContentTree
        /\ \A k \in 0..(Height - 1) : idx(k) \in Indexes(used)
    BY <1>3, <1>5
  <2>2. end = Leaves - 1
    BY <1>4, <2>1, WayUp, TreeFacts
  <2> HIDE DEF top, used, end, passes, map, n
  <2>3. /\ HashTreeMap' \in [Nodes -> SUBSET ContentTree]
        /\ DOMAIN IntegrityMap' \subseteq Channels
        /\ \A d \in DOMAIN IntegrityMap' :
              IntegrityMap'[d] \in SUBSET Near /\ OneEach(IntegrityMap'[d])
        /\ Growing
        /\ Indexes(HashTreeMap'[n]) = Indexes(HashTreeMap[n]) \cup Indexes(used)
    BY <1>5, <2>1, MoveFacts DEF n
  <2>4. PlainTypes'
    <3>1. end \in -1..(Leaves - 1) /\ end + 1 \in 0..Leaves
      BY <2>2, TreeFacts
    <3> QED
      BY <1>1, <1>5, <3>1 DEF IInv, PlainTypes, sendVars, netVars
  <2>5. HashesKnown'
    BY <1>1, <2>3 DEF IInv, HashesKnown, netVars
  <2>6. /\ pc'[c] = "first" /\ data'[c] = data[c] /\ data[c].ok
        /\ \A d \in Channels \ {c} : pc'[d] = pc[d] /\ data'[d] = data[d]
    BY <1>1, <1>5, <2>1, CheckInput DEF IInv, PlainTypes
  <2>7. Carried(c)'
    <3>1. Carried(c)
      BY DEF IInv
    <3>2. Servable(n, i)'
      BY <1>1, <2>1, <2>3 DEF Servable
    <3> QED
      BY <1>1, <1>4, <2>6, <3>1, <3>2 DEF Carried, Servable, n
  <2>8. \A d \in Channels : Carried(d)'
    BY <2>3, <2>6, <2>7, OthersCarried
  <2>9. \A a \in Nodes : Stored(a)'
    <3>1. \A a \in Nodes : ChunkRange'[a] \in {ChunkRange[a]} \cup (NumChunks - 1)..(Leaves - 1)
      BY <1>5, <2>2, TreeFacts DEF IInv, PlainTypes
    <3> QED
      BY <1>1, <2>3, <3>1, StoredGrows
  <2> QED
    BY <2>4, <2>5, <2>8, <2>9 DEF IInv
<1>6. CASE /\ Reject(c)
           /\ UNCHANGED <<HashTreeMap, ChunkRange, LeafNodeCount, IntegrityMap>>
  <2>1. PlainTypes'
    BY <1>1, <1>6 DEF IInv, PlainTypes, sendVars, netVars, Reject, goto
  <2> QED
    BY <1>1, <1>6, <2>1, RejectStep DEF netVars
<1> QED
  BY <1>2, <1>5, <1>6

\* CheckDataIntegrity once ChunkRange is known: it is the last chunk or behind it,
\* so that the siblings the check has used are all the chunk is served with.
LEMMA DataStep ==
    ASSUME IInv, NEW c \in Channels, CheckDataIntegrity(c)
    PROVE  IInv'
<1> DEFINE n    == c[2]
           i    == data[c].chunk
           map  == Received(c)
           h    == DataHash(c)
           idx(k) == TreeIndex(SiblingOf(i, k))
           count == LeafNodeCount[n]
           range == ChunkRange[n]
           tree == HashTreeMap[n]
           top  == DataTop(i, count)
           real == DataReal(i, count, range)
           used == DataUsed(i, count, range, map)
           sib  == DataSiblings(i, count, range, map, tree)
           passes == /\ \A k \in real : idx(k) \in Indexes(map) \cup Indexes(tree)
                     /\ IsRootHash(HashUp(i, h, 0, top, sib))
<1>1. /\ pc[c] = "data" /\ range >= 0
      /\ UNCHANGED <<PeakHashMap, IsPeakMapCreated, ChunkRange, LeafNodeCount,
                     IsFirstData, mutexFree, ChunkRangeList, sendVars, netVars,
                     data, retry>>
  BY DEF CheckDataIntegrity
<1>2. \/ /\ passes
         /\ ContentSize' = [ContentSize EXCEPT ![n] = @ \/ i = ChunkRange[n]]
         /\ MoveToTree(c, used)
         /\ pc' = [pc EXCEPT ![c] = "first"]
      \/ /\ Reject(c)
         /\ UNCHANGED <<ContentSize, HashTreeMap, IntegrityMap>>
  BY DEF CheckDataIntegrity, goto, DataTop, DataReal, DataUsed, DataSiblings
<1>3. /\ n \in Nodes /\ i \in 0..(Leaves - 1) /\ count \in 0..Leaves
      /\ tree \in SUBSET ContentTree /\ range >= NumChunks - 1 /\ range \in Int
      /\ map \in SUBSET Near /\ OneEach(map) /\ h \in {Leaf(i), Bad}
  <2>1. n \in Nodes
    BY ChannelEnds
  <2>2. count \in 0..Leaves /\ tree \in SUBSET ContentTree /\ range \in -1..(Leaves - 1)
    BY <2>1 DEF IInv, PlainTypes, HashesKnown
  <2>3. range # -1 => range >= NumChunks - 1
    BY <2>1 DEF IInv, Stored
  <2>4. range >= NumChunks - 1
    BY <1>1, <2>2, <2>3
  <2> QED
    BY <1>1, <2>1, <2>2, <2>4, CheckInput
<1>4. CASE /\ passes
           /\ ContentSize' = [ContentSize EXCEPT ![n] = @ \/ i = ChunkRange[n]]
           /\ MoveToTree(c, used)
           /\ pc' = [pc EXCEPT ![c] = "first"]
  <2>1. /\ h # Bad /\ used \in SUBSET ContentTree
        /\ \A k \in 0..(Height - 1) :
              SiblingOf(i, k).Start <= range => idx(k) \in Indexes(used) \cup Indexes(tree)
    <3> HIDE DEF n, i, map, h, count, range, tree
    <3> QED
      BY <1>3, <1>4, DataProved
  <2>2. data[c].ok
    BY <2>1, CheckInput
  <2> HIDE DEF top, used, passes, map, n
  <2>3. /\ HashTreeMap' \in [Nodes -> SUBSET ContentTree]
        /\ DOMAIN IntegrityMap' \subseteq Channels
        /\ \A d \in DOMAIN IntegrityMap' :
              IntegrityMap'[d] \in SUBSET Near /\ OneEach(IntegrityMap'[d])
        /\ Growing
        /\ Indexes(HashTreeMap'[n]) = Indexes(tree) \cup Indexes(used)
    BY <1>4, <2>1, MoveFacts DEF n
  <2>4. PlainTypes'
    <3>1. ContentSize' \in [Nodes -> BOOLEAN]
      BY <1>4 DEF IInv, PlainTypes
    <3> QED
      BY <1>1, <1>4, <3>1 DEF IInv, PlainTypes, sendVars, netVars
  <2>5. HashesKnown'
    BY <1>1, <2>3 DEF IInv, HashesKnown, netVars
  <2>6. /\ pc'[c] = "first" /\ data'[c] = data[c]
        /\ \A d \in Channels \ {c} : pc'[d] = pc[d] /\ data'[d] = data[d]
    BY <1>1, <1>4 DEF IInv, PlainTypes
  <2>7. Carried(c)'
    <3>1. Carried(c)
      BY DEF IInv
    <3>2. \A k \in 0..(Height - 1) :
             SiblingOf(i, k).Start < NumChunks => SiblingOf(i, k).Start <= range
      <4>1. \A k \in 0..(Height - 1) : SiblingOf(i, k).Start \in Nat
        <5>1. \A k \in 0..(Height - 1) : k \in Levels /\ k < Height
          BY TreeFacts
        <5> QED
          BY <1>3, <5>1, WayUp
      <4> QED
        BY <1>3, <4>1, TreeFacts
    <3>3. \A k \in 0..(Height - 1) :
             SiblingOf(i, k).Start < NumChunks => idx(k) \in Indexes(HashTreeMap'[n])
      <4> HIDE DEF i, range, tree
      <4> QED
        BY <2>1, <2>3, <3>2
    <3> QED
      BY <1>1, <1>3, <2>2, <2>6, <3>1, <3>3 DEF Carried, Servable, n
  <2>8. \A d \in Channels : Carried(d)'
    BY <2>3, <2>6, <2>7, OthersCarried
  <2>9. \A a \in Nodes : Stored(a)'
    BY <1>1, <2>3, StoredStays
  <2> QED
    BY <2>4, <2>5, <2>8, <2>9 DEF IInv
<1>5. CASE /\ Reject(c)
           /\ UNCHANGED <<ContentSize, HashTreeMap, IntegrityMap>>
  <2>1. PlainTypes'
    BY <1>1, <1>5 DEF IInv, PlainTypes, sendVars, netVars, Reject, goto
  <2> QED
    BY <1>1, <1>5, <2>1, RejectStep DEF netVars
<1> QED
  BY <1>2, <1>4, <1>5

\* The check of the peak hashes passes, with whatever was left to use.
LEMMA PeakPassStep ==
    ASSUME IInv, NEW c \in Channels, pc[c] = "first", pc' = [pc EXCEPT ![c] = "store"],
           UNCHANGED <<ChunkRangeList, integrities, delayed, data>>,
           Growing, HashesKnown', PlainTypes',
           \A a \in Nodes : ChunkRange'[a] \in {ChunkRange[a]} \cup (NumChunks - 1)..(Leaves - 1)
    PROVE  IInv'
<1>1. /\ pc'[c] = "store" /\ data'[c] = data[c]
      /\ \A d \in Channels \ {c} : pc'[d] = pc[d] /\ data'[d] = data[d]
  BY DEF IInv, PlainTypes
<1>2. Carried(c)'
  <2>1. Carried(c) /\ c[2] \in Nodes
    BY ChannelEnds DEF IInv
  <2>2. \A k \in 0..(Height - 1) :
           SiblingOf(data[c].chunk, k).Start < NumChunks =>
               TreeIndex(SiblingOf(data[c].chunk, k)) \in Indexes(HashTreeMap'[c[2]])
    BY <2>1 DEF Carried, Servable, Growing
  <2> QED
    BY <1>1, <2>1, <2>2 DEF Carried, Servable
<1>3. \A d \in Channels : Carried(d)'
  BY <1>1, <1>2, OthersCarried
<1>4. \A a \in Nodes : Stored(a)'
  BY StoredGrows
<1> QED
  BY <1>3, <1>4 DEF IInv

\* CheckPeakHash with a map that is not empty, from the node m of level k.
PeakChecked(c, m, k) ==
    LET n == c[2]
        map == IntegrityMap[c] \ {m}
        idx(j) == TreeIndex(SiblingOf(m.Start, j))
        passes == IsRootHash(HashUp(m.Start, m.Hash, k, PeakTop(m, k),
                                    PeakSiblings(m, k, IntegrityMap[c])))
        used == PeakUsed(m, k, IntegrityMap[c]) \cup {m}
    IN  /\ IsStart(m, IntegrityMap[c]) /\ m.End = m.Start + 2^k - 1
        /\ LeafNodeCount' = [LeafNodeCount EXCEPT ![n] = PeakLeafCount(m.End)]
        /\ \/ /\ \E j \in PeakReal(m, k) : idx(j) \notin Indexes(map)
              /\ IntegrityMap' = [IntegrityMap EXCEPT ![c] = map]
              /\ Reject(c)
              /\ UNCHANGED <<HashTreeMap, PeakHashMap, ChunkRange,
                             IsPeakMapCreated, IsFirstData, mutexFree>>
           \/ /\ \A j \in PeakReal(m, k) : idx(j) \in Indexes(map)
              /\ ~passes
              /\ IntegrityMap' = [IntegrityMap EXCEPT ![c] = map]
              /\ mutexFree' = [mutexFree EXCEPT ![n] = FALSE]
              /\ Reject(c)
              /\ UNCHANGED <<HashTreeMap, PeakHashMap, ChunkRange,
                             IsPeakMapCreated, IsFirstData>>
           \/ /\ \A j \in PeakReal(m, k) : idx(j) \in Indexes(map)
              /\ passes
              /\ ChunkRange' = [ChunkRange EXCEPT ![n] = m.End]
              /\ MoveToTree(c, used)
              /\ PeakHashMap' = [PeakHashMap EXCEPT ![n] = Put(@, used)]
              /\ IsPeakMapCreated' = [IsPeakMapCreated EXCEPT ![n] = TRUE]
              /\ IsFirstData' = [IsFirstData EXCEPT ![n] = FALSE]
              /\ pc' = [pc EXCEPT ![c] = "store"]
              /\ UNCHANGED mutexFree

\* What CheckPeakHash may do: there is no map, an empty one, or one to check.
LEMMA PeakCases ==
    ASSUME NEW c, CheckPeakHash(c)
    PROVE  \/ /\ c \notin DOMAIN IntegrityMap /\ Reject(c)
              /\ UNCHANGED <<treeVars, mutexFree, IntegrityMap>>
           \/ /\ c \in DOMAIN IntegrityMap /\ IntegrityMap[c] = {}
              /\ IsPeakMapCreated' = [IsPeakMapCreated EXCEPT ![c[2]] = TRUE]
              /\ IsFirstData' = [IsFirstData EXCEPT ![c[2]] = FALSE]
              /\ pc' = [pc EXCEPT ![c] = "store"]
              /\ UNCHANGED <<HashTreeMap, PeakHashMap, ChunkRange, LeafNodeCount,
                             ContentSize, mutexFree, IntegrityMap>>
           \/ /\ c \in DOMAIN IntegrityMap /\ UNCHANGED ContentSize
              /\ \E m \in IntegrityMap[c], k \in Levels : PeakChecked(c, m, k)
BY ZenonT(60) DEF CheckPeakHash, PeakChecked, goto, PeakTop, PeakReal, PeakUsed, PeakSiblings

\* CheckPeakHash: what it takes for the last chunk is that or behind it.
LEMMA PeakStep ==
    ASSUME IInv, NEW c \in Channels, CheckPeakHash(c)
    PROVE  IInv'
<1> DEFINE n == c[2]
           whole == IntegrityMap[c]
<1>1. /\ pc[c] = "first" /\ n \in Nodes
      /\ UNCHANGED <<ChunkRangeList, sendVars, netVars, data, retry>>
  BY ChannelEnds DEF CheckPeakHash
<1>2. CASE /\ Reject(c)
           /\ UNCHANGED <<treeVars, mutexFree, IntegrityMap>>
  <2>1. PlainTypes'
    BY <1>1, <1>2 DEF IInv, PlainTypes, sendVars, netVars, treeVars, Reject, goto
  <2> QED
    BY <1>1, <1>2, <2>1, RejectStep DEF netVars, treeVars
<1>3. CASE /\ IsPeakMapCreated' = [IsPeakMapCreated EXCEPT ![n] = TRUE]
           /\ IsFirstData' = [IsFirstData EXCEPT ![n] = FALSE]
           /\ pc' = [pc EXCEPT ![c] = "store"]
           /\ UNCHANGED <<HashTreeMap, PeakHashMap, ChunkRange, LeafNodeCount,
                          ContentSize, mutexFree, IntegrityMap>>
  <2>1. PlainTypes'
    BY <1>1, <1>3 DEF IInv, PlainTypes, sendVars, netVars
  <2>2. HashesKnown'
    BY <1>1, <1>3 DEF IInv, HashesKnown, netVars
  <2>3. Growing
    BY <1>3, TreesStay
  <2> QED
    BY <1>1, <1>3, <2>1, <2>2, <2>3, PeakPassStep DEF netVars
<1>4. CASE /\ c \in DOMAIN IntegrityMap /\ UNCHANGED ContentSize
           /\ \E m \in whole, k \in Levels : PeakChecked(c, m, k)
  <2>1. whole \in SUBSET Near /\ OneEach(whole)
    BY <1>4 DEF IInv, HashesKnown
  <2>2. PICK m \in whole, k \in Levels : PeakChecked(c, m, k)
    BY <1>4
  <2> DEFINE used == PeakUsed(m, k, whole) \cup {m}
             count == PeakLeafCount(m.End)
  <2>3. m.End = m.Start + 2^k - 1 /\ m \in Near /\ m.End \in 0..(Leaves - 1)
    <3>1. m.End = m.Start + 2^k - 1 /\ m \in Near
      BY <2>1, <2>2 DEF PeakChecked
    <3> QED
      BY <3>1, StartNode
  <2>4. count \in 0..Leaves
    <3>1. /\ NumChunks \in Nat /\ Doubling(NumChunks) /\ Height \in 1..NumChunks
          /\ Leaves = Width(Height) /\ m.End \in 0..(Width(Height) - 1)
      BY <2>3, TreeFacts
    <3> QED
      BY <3>1, LeafCountBound
  <2> HIDE DEF used, count
  <2>5. LeafNodeCount' \in [Nodes -> 0..Leaves]
    <3>1. LeafNodeCount' = [LeafNodeCount EXCEPT ![n] = count]
      BY <2>2 DEF PeakChecked, count
    <3> QED
      BY <1>1, <2>4, <3>1 DEF IInv, PlainTypes
  <2>6. CASE /\ IntegrityMap' = [IntegrityMap EXCEPT ![c] = whole \ {m}]
             /\ mutexFree' \in {mutexFree, [mutexFree EXCEPT ![n] = FALSE]}
             /\ Reject(c)
             /\ UNCHANGED <<HashTreeMap, PeakHashMap, ChunkRange,
                            IsPeakMapCreated, IsFirstData>>
    <3>1. PlainTypes'
      <4>1. mutexFree' \in [Nodes -> BOOLEAN]
        BY <1>1, <2>6 DEF IInv, PlainTypes
      <4> QED
        BY <1>1, <1>4, <2>5, <2>6, <4>1 DEF IInv, PlainTypes, sendVars, netVars, Reject, goto
    <3>2. /\ DOMAIN IntegrityMap' = DOMAIN IntegrityMap
          /\ \A d \in DOMAIN IntegrityMap : IntegrityMap'[d] \subseteq IntegrityMap[d]
      BY <2>6
    <3> QED
      BY <1>1, <2>6, <3>1, <3>2, RejectStep DEF netVars
  <2>7. CASE /\ \A j \in PeakReal(m, k) :
                   TreeIndex(SiblingOf(m.Start, j)) \in Indexes(whole \ {m})
             /\ IsRootHash(HashUp(m.Start, m.Hash, k, PeakTop(m, k),
                                  PeakSiblings(m, k, whole)))
             /\ ChunkRange' = [ChunkRange EXCEPT ![n] = m.End]
             /\ MoveToTree(c, used)
             /\ PeakHashMap' = [PeakHashMap EXCEPT ![n] = Put(@, used)]
             /\ IsPeakMapCreated' = [IsPeakMapCreated EXCEPT ![n] = TRUE]
             /\ IsFirstData' = [IsFirstData EXCEPT ![n] = FALSE]
             /\ pc' = [pc EXCEPT ![c] = "store"]
             /\ UNCHANGED mutexFree
    <3>1. NumChunks - 1 <= m.End /\ used \in SUBSET ContentTree
      <4>1. NumChunks - 1 <= m.End /\ PeakUsed(m, k, whole) \cup {m} \subseteq ContentTree
        <5> HIDE DEF whole
        <5> QED
          BY <2>1, <2>3, <2>7, PeakProved
      <4> QED
        BY <4>1 DEF used
    <3> HIDE DEF n, whole
    <3>2. /\ HashTreeMap' \in [Nodes -> SUBSET ContentTree]
          /\ DOMAIN IntegrityMap' \subseteq Channels
          /\ \A d \in DOMAIN IntegrityMap' :
                IntegrityMap'[d] \in SUBSET Near /\ OneEach(IntegrityMap'[d])
          /\ Growing
      BY <2>7, <3>1, MoveFacts
    <3>3. PeakHashMap' \in [Nodes -> SUBSET ContentTree]
      <4>1. PeakHashMap[n] \in SUBSET ContentTree
        BY <1>1 DEF IInv, HashesKnown
      <4>2. Put(PeakHashMap[n], used) \in SUBSET ContentTree
        BY <3>1, <4>1, PutFacts
      <4> QED
        BY <1>1, <2>7, <4>2 DEF IInv, HashesKnown
    <3>4. PlainTypes'
      BY <1>1, <1>4, <2>3, <2>5, <2>7 DEF IInv, PlainTypes, sendVars, netVars
    <3>5. HashesKnown'
      BY <1>1, <3>2, <3>3 DEF IInv, HashesKnown, netVars
    <3>6. \A a \in Nodes : ChunkRange'[a] \in {ChunkRange[a]} \cup (NumChunks - 1)..(Leaves - 1)
      BY <2>3, <2>7, <3>1, TreeFacts DEF IInv, PlainTypes
    <3> QED
      BY <1>1, <2>7, <3>2, <3>4, <3>5, <3>6, PeakPassStep DEF netVars
  <2> QED
    BY <2>2, <2>6, <2>7 DEF used, PeakChecked
<1> QED
  BY <1>2, <1>3, <1>4, PeakCases

-----------------------------------------------------------------------------
(* Whatever the network does *)

\* Every step preserves the invariant.
LEMMA NextInv == IInv /\ [Next]_vars => IInv'
<1> SUFFICES ASSUME IInv, [Next]_vars PROVE IInv'
  OBVIOUS
<1>1. CASE UNCHANGED vars
  <2>1. PlainTypes' /\ HashesKnown'
    BY <1>1 DEF vars, IInv, PlainTypes, HashesKnown
  <2>2. (\A c \in Channels : Carried(c)') /\ (\A n \in Nodes : Stored(n)')
    BY <1>1, DataStays DEF vars
  <2> QED
    BY <2>1, <2>2 DEF IInv
<1>2. ASSUME NEW c \in swarm,
             \/ SendHandShakeHave(c)
             \/ \E i \in 0..(Leaves - 1) : ReceiveRequest(c, i)
             \/ \E m \in integrities[c] \cup delayed[c] : AddIntegrity(c, m)
             \/ \E m \in integrities[c] : Lose(c, m)
             \/ \E late \in SUBSET integrities[c] : Delay(c, late)
             \/ CheckFirstDataIntegrity(c) \/ CheckDataIntegrity(c)
             \/ CheckPeakHash(c) \/ SetData(c) \/ RetryRequest(c)
             \/ Spoil(c)
      PROVE  IInv'
  <2>0. c \in Channels
    BY DEF IInv, PlainTypes, Channels
  <2>1. CASE SendHandShakeHave(c)
    BY <2>0, <2>1, HandShakeStep
  <2>2. CASE \E i \in 0..(Leaves - 1) : ReceiveRequest(c, i)
    BY <2>0, <2>2, RequestStep
  <2>3. CASE \E m \in integrities[c] \cup delayed[c] : AddIntegrity(c, m)
    BY <2>0, <2>3, IntegrityStep
  <2>4. CASE \E m \in integrities[c] : Lose(c, m)
    BY <2>0, <2>4, LoseStep
  <2>5. CASE \E late \in SUBSET integrities[c] : Delay(c, late)
    BY <2>0, <2>5, DelayStep
  <2>6. CASE CheckFirstDataIntegrity(c)
    BY <2>0, <2>6, FirstDataStep
  <2>7. CASE CheckDataIntegrity(c)
    BY <2>0, <2>7, DataStep
  <2>8. CASE CheckPeakHash(c)
    BY <2>0, <2>8, PeakStep
  <2>9. CASE SetData(c)
    BY <2>0, <2>9, StoreStep
  <2>10. CASE RetryRequest(c)
    BY <2>0, <2>10, RetryStep
  <2>11. CASE Spoil(c)
    BY <2>0, <2>11, SpoilStep
  <2> QED
    BY <1>2, <2>1, <2>2, <2>3, <2>4, <2>5, <2>6, <2>7, <2>8, <2>9, <2>10, <2>11
<1> QED
  BY <1>1, <1>2 DEF Next

\* The invariant holds of every reachable state.
THEOREM InvariantHolds == Spec => []IInv
  BY InitInv, NextInv, PTL DEF Spec

\* It contains the types of all state.
LEMMA InvTypes == IInv => TypeOK
<1> SUFFICES ASSUME IInv PROVE TypeOK
  OBVIOUS
<1> DEFINE NodeSet == SUBSET [Start : 0..(Leaves - 1), End : 0..(Leaves - 1),
                              Hash : Seq(Int)]
<1>1. \A map \in SUBSET Near : map \in NodeSet
  BY NearNode
<1>2. \A map \in SUBSET ContentTree : map \in NodeSet
  BY <1>1, ContentNear
<1> HIDE DEF NodeSet
<1>3. HashTreeMap \in [Nodes -> NodeSet] /\ PeakHashMap \in [Nodes -> NodeSet]
  BY <1>2 DEF IInv, HashesKnown
<1>4. /\ integrities \in [Channels -> NodeSet] /\ delayed \in [Channels -> NodeSet]
      /\ DOMAIN IntegrityMap \subseteq Channels
      /\ \A c \in DOMAIN IntegrityMap : IntegrityMap[c] \in NodeSet
  BY <1>1 DEF IInv, HashesKnown
<1> QED
  BY <1>3, <1>4 DEF IInv, PlainTypes, TypeOK, NodeSet

\* Types of the members of HashTree, of the channels and of the datagrams, for
\* every content and every set of swarms.
THEOREM TypesHold == Spec => []TypeOK
  BY InvariantHolds, InvTypes, PTL

\* Whatever the network loses, spoils or delays, a node stores only chunks of the
\* content, and its tree and peak hashes (the maps that HashTree's getters answer
\* from) hold only hashes of the content's tree.
THEOREM GenuineHolds == Spec => []OnlyGenuine
<1>1. IInv => OnlyGenuine
  BY DEF IInv, Carried, HashesKnown, OnlyGenuine
<1> QED
  BY <1>1, InvariantHolds, PTL

\* A node can serve what it has stored: CheckDataIntegrity moves to the tree the
\* hash of every sibling above a chunk that is not padding.
THEOREM ServableHolds == Spec => []StoredIsServable
<1>1. IInv => StoredIsServable
  BY DEF IInv, Stored, Servable, StoredIsServable, Height
<1> QED
  BY <1>1, InvariantHolds, PTL

\* No node takes a part of the content for the whole: neither the end that the
\* check of the first data leaves in ChunkRange nor that of the node CheckPeakHash
\* starts from lies before the last chunk.
THEOREM NeverShortHolds == Spec => []NeverShort
<1>1. IInv => NeverShort
  BY DEF IInv, Stored, NeverShort
<1> QED
  BY <1>1, InvariantHolds, PTL

-----------------------------------------------------------------------------
(* While nothing is lost, spoilt or late *)

\* A node nobody serves.
Seeder(n) == \A c \in swarm : c[2] # n

\* The hashes a channel has sent and no check has used.
OnWay(c) == integrities[c] \cup Received(c)

\* What a seeder knows; a node whose first chunk is not checked yet; one that
\* has checked the peak hashes.
Seeds(n) ==
    /\ HashTreeMap[n] = ContentTree /\ ChunkRange[n] = NumChunks - 1
    /\ PeakHashMap[n] = IF IsPeakMapCreated[n] THEN PeakHashes ELSE {}

Begins(n) ==
    /\ ChunkRangeList[n] = <<>> /\ PeakHashMap[n] = {}
    /\ ChunkRange[n] \in {-1, Leaves - 1}
    /\ ChunkRange[n] # -1 => LeafNodeCount[n] = Leaves

Knows(n) ==
    /\ ChunkRange[n] = NumChunks - 1 /\ LeafNodeCount[n] = Leaves
    /\ IsPeakMapCreated[n] /\ PeakHashMap[n] = PeakHashes
    /\ PeakHashes \subseteq HashTreeMap[n]

Tracked(n) ==
    /\ mutexFree[n]
    /\ Seeder(n) => Seeds(n)
    /\ ~Seeder(n) => HashTreeMap[n] \subseteq Filled
    /\ ~Seeder(n) /\ IsFirstData[n] => Begins(n)
    /\ ~Seeder(n) /\ ~IsFirstData[n] => Knows(n)

\* No hash of padding is sent, and what was sent is on its way or in the tree.
Keeps(c) ==
    /\ delayed[c] = {} /\ OnWay(c) \subseteq Filled
    /\ IntegritySendMap[c] \subseteq Indexes(OnWay(c) \cup HashTreeMap[c[2]])

\* Before the first request.
Fresh(c) ==
    /\ pc[c] = "handshake" => IsFirstRequest[c]
    /\ IsFirstRequest[c] => /\ pc[c] \in {"handshake", "idle"}
                            /\ OnWay(c) = {} /\ IntegritySendMap[c] = {}

\* Only a node that knows the end of the content announces chunks.
Served(c) ==
    pc[c] # "handshake" => /\ Seeder(c[1]) \/ ~IsFirstData[c[1]]
                           /\ announced[c].Start \in Have(c[1])

\* The first chunk of a node, whichever channel carries it: its hashes and the
\* peak hashes, all of them, and after its check the peak hashes alone.
Opens(c) ==
    ~IsFirstRequest[c] /\ IsFirstData[c[2]] =>
        /\ pc[c] \in {"data", "first"}
        /\ data[c].chunk = announced[c].Start /\ data[c].ok
        /\ pc[c] = "data" => OnWay(c) = PeakHashes \cup NeededHashes(data[c].chunk)
        /\ pc[c] = "first" => /\ c \in DOMAIN IntegrityMap /\ OnWay(c) = PeakHashes
                              /\ integrities[c] = {} /\ ChunkRange[c[2]] # -1

\* What was sent for a chunk: the hashes up to the first sibling of padding.
Covers(c, i) ==
    \A k \in 0..(Height - 1) :
        (\A l \in 0..k : ~Padding(SiblingOf(i, l))) =>
            TreeIndex(SiblingOf(i, k)) \in IntegritySendMap[c]

Faithful(c) ==
    /\ Keeps(c) /\ Fresh(c) /\ Served(c) /\ Opens(c)
    /\ pc[c] = "data" /\ data[c].ok => Covers(c, data[c].chunk)
    /\ ~(pc[c] = "rejected" /\ data[c].ok)

JInv ==
    /\ \A n \in Nodes : Tracked(n)
    /\ \A c \in swarm : Faithful(c)
    /\ \A c \in Channels \ swarm : pc[c] = "handshake"

\* Nothing is announced before the handshake.
Unannounced == \A c \in Channels : pc[c] = "handshake" => announced[c] = NoRange

Undisturbed == faults = 0 /\ AnnouncedLeft

-----------------------------------------------------------------------------
(* A step of one channel *)

\* Nothing of a channel changes.
Alone(d) ==
    /\ integrities'[d] = integrities[d] /\ delayed'[d] = delayed[d]
    /\ Received(d)' = Received(d)
    /\ d \in DOMAIN IntegrityMap => d \in DOMAIN IntegrityMap'
    /\ IntegritySendMap'[d] = IntegritySendMap[d]
    /\ IsFirstRequest'[d] = IsFirstRequest[d]
    /\ announced'[d] = announced[d] /\ data'[d] = data[d] /\ pc'[d] = pc[d]

\* Nothing of a node changes.
Same(n) ==
    /\ HashTreeMap'[n] = HashTreeMap[n] /\ PeakHashMap'[n] = PeakHashMap[n]
    /\ IsPeakMapCreated'[n] = IsPeakMapCreated[n]
    /\ ChunkRange'[n] = ChunkRange[n] /\ LeafNodeCount'[n] = LeafNodeCount[n]
    /\ IsFirstData'[n] = IsFirstData[n] /\ mutexFree'[n] = mutexFree[n]
    /\ ChunkRangeList'[n] = ChunkRangeList[n]

\* A node forgets nothing.
Forward(n) ==
    /\ HashTreeMap[n] \subseteq HashTreeMap'[n] /\ Have(n) \subseteq Have(n)'
    /\ IsFirstData'[n] => IsFirstData[n]
    /\ ChunkRange[n] # -1 => ChunkRange'[n] # -1

\* Then it is as it was.
LEMMA SameStays ==
    ASSUME swarm' = swarm, NEW n, Same(n)
    PROVE  Forward(n) /\ (Tracked(n) => Tracked(n)')
<1>1. Forward(n)
  BY DEF Same, Forward, Have
<1>2. Seeder(n)' <=> Seeder(n)
  BY DEF Seeder
<1>3. (Seeds(n) => Seeds(n)') /\ (Begins(n) => Begins(n)') /\ (Knows(n) => Knows(n)')
  BY DEF Same, Seeds, Begins, Knows
<1> QED
  BY <1>1, <1>2, <1>3 DEF Tracked, Same

\* A step of another channel does not disturb a channel.
LEMMA AloneStays ==
    ASSUME swarm' = swarm, NEW d, Alone(d), Forward(d[1]), Forward(d[2]), Faithful(d)
    PROVE  Faithful(d)'
<1>1. OnWay(d)' = OnWay(d)
  BY DEF Alone, OnWay
<1>2. Keeps(d)'
  <2>1. Indexes(OnWay(d) \cup HashTreeMap[d[2]]) \subseteq Indexes(OnWay(d) \cup HashTreeMap'[d[2]])
    BY DEF Forward, Indexes
  <2> QED
    BY <1>1, <2>1 DEF Faithful, Keeps, Alone
<1>3. Fresh(d)'
  BY <1>1 DEF Faithful, Fresh, Alone
<1>4. Served(d)'
  <2>1. Seeder(d[1])' <=> Seeder(d[1])
    BY DEF Seeder
  <2> QED
    BY <2>1 DEF Faithful, Served, Alone, Forward
<1>5. Opens(d)'
  BY <1>1 DEF Faithful, Opens, Alone, Forward
<1>6. pc'[d] = "data" /\ data'[d].ok => Covers(d, data[d].chunk)'
  BY DEF Faithful, Covers, Alone
<1> QED
  BY <1>2, <1>3, <1>4, <1>5, <1>6 DEF Faithful, Alone, Covers

\* A step of one channel.
LEMMA OneStep ==
    ASSUME JInv, IInv, swarm' = swarm, NEW c \in swarm, Faithful(c)',
           \A d \in Channels \ {c} : Alone(d),
           \A n \in Nodes : Same(n) \/ (Forward(n) /\ Tracked(n)')
    PROVE  JInv'
<1>1. \A n \in Nodes : Forward(n) /\ Tracked(n)'
  BY SameStays DEF JInv
<1>2. ASSUME NEW d \in swarm PROVE Faithful(d)'
  <2>1. CASE d # c
    <3>1. d \in Channels /\ Faithful(d)
      BY DEF IInv, PlainTypes, Channels, JInv
    <3> QED
      BY <1>1, <2>1, <3>1, ChannelEnds, AloneStays
  <2> QED
    BY <2>1
<1>3. \A d \in Channels \ swarm : pc'[d] = "handshake"
  BY DEF JInv, Alone
<1> QED
  BY <1>1, <1>2, <1>3 DEF JInv

-----------------------------------------------------------------------------
(* Its serving side *)

\* At first nothing has been sent.
LEMMA InitJ == Init => Unannounced /\ JInv
<1> SUFFICES ASSUME Init PROVE Unannounced /\ JInv
  OBVIOUS
<1>1. Unannounced /\ \A c \in Channels \ swarm : pc[c] = "handshake"
  BY DEF Init, Unannounced
<1>2. ASSUME NEW n \in Nodes PROVE Tracked(n)
  <2>1. n \notin {c[2] : c \in swarm} <=> Seeder(n)
    BY DEF Seeder
  <2>2. mutexFree[n] /\ IsFirstData[n] /\ PeakHashMap[n] = {} /\ ~IsPeakMapCreated[n]
    BY DEF Init
  <2>3. Seeder(n) => HashTreeMap[n] = ContentTree /\ ChunkRange[n] = NumChunks - 1
    BY <2>1 DEF Init
  <2>4. ~Seeder(n) => HashTreeMap[n] = {} /\ ChunkRange[n] = -1 /\ ChunkRangeList[n] = <<>>
    BY <2>1 DEF Init
  <2> QED
    BY <2>2, <2>3, <2>4 DEF Tracked, Seeds, Begins
<1>3. ASSUME NEW c \in swarm PROVE Faithful(c)
  <2>1. c \in Channels
    BY DEF Init, Channels
  <2>2. /\ pc[c] = "handshake" /\ IsFirstRequest[c] /\ IntegritySendMap[c] = {}
        /\ delayed[c] = {} /\ OnWay(c) = {}
    BY <2>1 DEF Init, OnWay, Received
  <2> QED
    BY <2>2 DEF Faithful, Keeps, Fresh, Served, Opens
<1> QED
  BY <1>1, <1>2, <1>3 DEF JInv

\* A list that is not empty covers something, and what is announced starts there.
LEMMA AnnouncedCovered ==
    ASSUME IInv, NEW n \in Nodes, ChunkRangeList[n] # <<>>
    PROVE  BiggestHavedChunkRange(ChunkRangeList[n]).Start \in Have(n)
<1> DEFINE list == ChunkRangeList[n]
           r == BiggestHavedChunkRange(list)
<1>1. list \in Seq(ChunkRangeSt) /\ Separated(list) /\ Covered(list) \subseteq 0..(NumChunks - 1)
  BY DEF IInv, PlainTypes, Stored, Have, Chunks
<1>2. r \in ChunkRangeSt \cup {NoRange}
  BY <1>1, BiggestType
<1>3. PICK k \in DOMAIN list : k = 1
  BY <1>1
<1>4. /\ list[k].Start \in Nat /\ list[k].End \in Nat /\ list[k].Start <= list[k].End
  BY <1>1, RangeBounds DEF Separated
<1>5. list[k].Start \in Covered(list)
  <2>1. list[k].Start \in list[k].Start .. list[k].End
    BY <1>4
  <2> QED
    BY <2>1 DEF Covered
<1> HIDE DEF list
<1>6. NumChunks - 1 \in Nat
  BY TreeFacts
<1>7. /\ r.Start .. r.End \subseteq Covered(list)
      /\ \A a, b \in Nat : a..b \subseteq Covered(list) => b - a <= r.End - r.Start
  <2>1. Covered(list) # {}
    BY <1>5
  <2> QED
    BY <1>1, <1>6, <2>1, BiggestRange
<1>8. r.Start \in Int /\ r.End \in Int
  BY <1>2 DEF ChunkRangeSt, NoRange
<1>9. 0 <= r.End - r.Start
  <2> DEFINE a == list[k].Start
  <2>1. a \in Nat /\ a..a \subseteq Covered(list)
    BY <1>4, <1>5
  <2>2. a - a <= r.End - r.Start
    BY <1>7, <2>1
  <2> HIDE DEF a, r
  <2> QED
    BY <1>8, <2>1, <2>2
<1>10. r.Start \in r.Start .. r.End
  <2> HIDE DEF r
  <2> QED
    BY <1>8, <1>9
<1> QED
  BY <1>7, <1>10 DEF list, Have

\* The channel of the swarm, and where it leads.
LEMMA OpenChannel ==
    ASSUME IInv, JInv, NEW c \in swarm
    PROVE  /\ c \in Channels /\ c[1] \in Nodes /\ c[2] \in Nodes
           /\ Tracked(c[1]) /\ Tracked(c[2]) /\ Faithful(c) /\ ~Seeder(c[2])
<1>1. c \in Channels
  BY DEF IInv, PlainTypes, Channels
<1> QED
  BY <1>1, ChannelEnds DEF JInv, Seeder

\* SendHandShakeHave.
LEMMA HandShakeJ ==
    ASSUME IInv, JInv, Unannounced, NEW c \in swarm, SendHandShakeHave(c)
    PROVE  JInv'
<1>1. /\ pc[c] = "handshake" /\ ChunkRangeList[c[1]] # <<>>
      /\ announced' = [announced EXCEPT ![c] = BiggestHavedChunkRange(ChunkRangeList[c[1]])]
      /\ pc' = [pc EXCEPT ![c] = "idle"]
      /\ UNCHANGED <<treeVars, mutexFree, ChunkRangeList, IntegrityMap,
                     IntegritySendMap, IsFirstRequest, netVars, data, retry>>
  BY DEF SendHandShakeHave, goto
<1>2. /\ c \in Channels /\ c[1] \in Nodes /\ c[2] \in Nodes
      /\ Tracked(c[1]) /\ Tracked(c[2]) /\ Faithful(c) /\ ~Seeder(c[2])
  BY OpenChannel
<1>3. \A n \in Nodes : Same(n)
  BY <1>1 DEF Same, treeVars
<1>4. swarm' = swarm /\ UNCHANGED <<integrities, delayed>> /\ UNCHANGED treeVars
  BY <1>1 DEF netVars
<1>5. \A d \in Channels \ {c} : Alone(d)
  BY <1>1, <1>4 DEF Alone, Received, IInv, PlainTypes
<1>6. /\ pc'[c] = "idle" /\ IsFirstRequest'[c] /\ OnWay(c)' = {} /\ OnWay(c) = {}
      /\ announced'[c] = BiggestHavedChunkRange(ChunkRangeList[c[1]])
      /\ IntegritySendMap'[c] = {}
  <2>1. pc'[c] = "idle" /\ announced'[c] = BiggestHavedChunkRange(ChunkRangeList[c[1]])
    BY <1>1, <1>2 DEF IInv, PlainTypes
  <2>2. IsFirstRequest[c] /\ OnWay(c) = {} /\ IntegritySendMap[c] = {}
    BY <1>1, <1>2 DEF Faithful, Fresh
  <2> QED
    BY <1>1, <1>4, <2>1, <2>2 DEF OnWay, Received
<1>7. Served(c)'
  <2>1. announced'[c].Start \in Have(c[1])
    BY <1>1, <1>2, <1>6, AnnouncedCovered
  <2>2. Seeder(c[1]) \/ ~IsFirstData[c[1]]
    BY <1>1, <1>2 DEF Tracked, Begins
  <2> QED
    BY <1>1, <1>4, <2>1, <2>2 DEF Served, Have, Seeder, treeVars
<1>8. Faithful(c)'
  <2>1. Keeps(c)'
    BY <1>2, <1>4, <1>6 DEF Faithful, Keeps
  <2> QED
    BY <1>6, <1>7, <2>1 DEF Faithful, Fresh, Opens
<1> QED
  BY <1>3, <1>4, <1>5, <1>8, OneStep

\* What a node that knows the end of the content, or is a seeder, sends as peak
\* hashes.
LEMMA PeaksSent ==
    ASSUME NEW n, Tracked(n), Seeder(n) \/ ~IsFirstData[n]
    PROVE  GetPeakHashes(n) = PeakHashes
<1>1. CASE Seeder(n)
  BY <1>1, SeederPeaks DEF Tracked, Seeds, GetPeakHashes
<1>2. CASE ~Seeder(n)
  BY <1>2 DEF Tracked, Knows, GetPeakHashes
<1> QED
  BY <1>1, <1>2

\* What a node sends for a chunk it has stored: with what it has sent before, the
\* hashes up to the first sibling of padding. No hash of padding is sent.
LEMMA ChunkSent ==
    ASSUME IInv, NEW c \in Channels, Keeps(c), NEW i \in 0..(Leaves - 1)
    PROVE  /\ GetDataIntegrity(c, i) \subseteq Filled
           /\ Servable(c[1], i) =>
                 \A k \in 0..(Height - 1) :
                    (\A l \in 0..k : ~Padding(SiblingOf(i, l))) =>
                        TreeIndex(SiblingOf(i, k)) \in
                            IntegritySendMap[c] \cup Indexes(GetDataIntegrity(c, i))
<1> DEFINE tree == HashTreeMap[c[1]]
           sent == IntegritySendMap[c]
           idx(k) == TreeIndex(SiblingOf(i, k))
           Unknown == {k \in Levels : idx(k) \notin Indexes(tree) \cup sent}
           stop == Min(Unknown)
           new == GetDataIntegrity(c, i)
<1>0. /\ tree \in SUBSET ContentTree /\ i \in 0..(Leaves - 1) /\ Height \in Nat
      /\ Levels = 0..Height
  BY ChannelEnds, TreeFacts DEF IInv, HashesKnown
<1>1. new = {m \in tree : /\ m.Hash # Null
                          /\ \E k \in Levels : k < stop /\ idx(k) = TreeIndex(m)
                          /\ TreeIndex(m) \notin sent}
  BY DEF GetDataIntegrity
<1> HIDE DEF new
<1>2. new \subseteq Filled
  <2>1. \A m \in new : m \in ContentTree /\ m.Hash # Null
    BY <1>0, <1>1
  <2>2. \A m \in new : m.Start \in Nat
    BY <2>1, ContentNode
  <2> QED
    BY <2>1, <2>2, PaddingNull, TreeFacts DEF Filled
<1>3. ASSUME Servable(c[1], i), NEW k \in 0..(Height - 1),
             \A l \in 0..k : ~Padding(SiblingOf(i, l)), idx(k) \notin sent
      PROVE  idx(k) \in Indexes(new)
  <2>1. \A l \in 0..k : idx(l) \in Indexes(tree)
    <3>1. \A l \in 0..k : l \in 0..(Height - 1) /\ SiblingOf(i, l).Start \in 0..(Leaves - 1)
      BY <1>0, HalvesInTree
    <3>2. ASSUME NEW l \in 0..k PROVE SiblingOf(i, l).Start < NumChunks
      <4> DEFINE a == SiblingOf(i, l).Start
      <4>1. a \in Nat /\ ~(a >= NumChunks)
        BY <1>3, <3>1, TreeFacts DEF Padding
      <4> HIDE DEF a
      <4>2. a < NumChunks
        BY <4>1, TreeFacts
      <4> QED
        BY <4>2 DEF a
    <3> QED
      BY <1>3, <3>1, <3>2 DEF Servable
  <2>2. k < stop
    <3>1. idx(Height) \notin Indexes(tree) /\ idx(Height) \notin sent
      <4>1. OnWay(c) \cup HashTreeMap[c[2]] \in SUBSET ContentTree
        BY ChannelEnds, SentFilled DEF Keeps, IInv, HashesKnown
      <4> QED
        BY <1>0, <4>1, RootSibling DEF Keeps
    <3>2. Unknown \in SUBSET Nat /\ Height \in Unknown
      BY <1>0, <3>1
    <3> HIDE DEF Unknown
    <3>3. stop \in Unknown
      BY <3>2, MinInSet
    <3>4. stop \in Levels /\ idx(stop) \notin Indexes(tree)
      BY <3>3 DEF Unknown
    <3> HIDE DEF stop, idx
    <3> QED
      BY <1>0, <2>1, <3>4
  <2> HIDE DEF stop
  <2>3. PICK m \in tree : TreeIndex(m) = idx(k)
    BY <2>1 DEF Indexes
  <2>4. m.Hash # Null
    <3> DEFINE p == At(ContentTree, idx(k))
    <3>1. /\ p \in ContentTree /\ TreeIndex(p) = idx(k)
          /\ p.Hash = Null <=> Padding(SiblingOf(i, k))
      BY <1>0, SiblingNode
    <3>2. ~Padding(SiblingOf(i, k))
      BY <1>0, <1>3
    <3> HIDE DEF p
    <3>3. m = p
      BY <1>0, <2>3, <3>1, ContentUnique
    <3> QED
      BY <3>1, <3>2, <3>3
  <2>5. m \in new
    <3>1. k \in Levels
      BY <1>0
    <3> HIDE DEF idx
    <3> QED
      BY <1>1, <1>3, <2>2, <2>3, <2>4, <3>1
  <2> HIDE DEF idx
  <2> QED
    BY <2>3, <2>5 DEF Indexes
<1> QED
  BY <1>2, <1>3 DEF new

\* What it sends for the first chunk: the hashes that prove it.
LEMMA FirstSent ==
    ASSUME IInv, NEW c \in Channels, Keeps(c), NEW i, Left(i), Servable(c[1], i),
           IntegritySendMap[c] = {}
    PROVE  GetDataIntegrity(c, i) = NeededHashes(i)
<1> DEFINE new == GetDataIntegrity(c, i)
           idx(k) == TreeIndex(SiblingOf(i, k))
<1>0. /\ i \in 0..(Leaves - 1) /\ Height \in Nat /\ Levels = 0..Height
      /\ HashTreeMap[c[1]] \in SUBSET ContentTree
  BY ChannelEnds, TreeFacts DEF Left, Chunks, IInv, HashesKnown
<1>1. new \in SUBSET ContentTree
  BY SentKnown
<1>2. \A k \in 0..(Height - 1) : idx(k) \in Indexes(new)
  <2>1. \A k \in 0..(Height - 1) :
           (\A l \in 0..k : ~Padding(SiblingOf(i, l))) =>
               idx(k) \in IntegritySendMap[c] \cup Indexes(new)
    BY <1>0, ChunkSent
  <2>2. \A k \in 0..(Height - 1) : \A l \in 0..k : l \in 0..(Height - 1)
    BY <1>0
  <2>3. \A l \in 0..(Height - 1) : ~Padding(SiblingOf(i, l))
    BY LeftClear
  <2> HIDE DEF idx, new
  <2> QED
    BY <2>1, <2>2, <2>3
<1>3. \A m \in new : \E k \in 0..(Height - 1) : idx(k) = TreeIndex(m)
  <2>1. ASSUME NEW m \in new PROVE \E k \in 0..(Height - 1) : idx(k) = TreeIndex(m)
    <3>1. PICK k \in Levels : idx(k) = TreeIndex(m)
      BY DEF GetDataIntegrity
    <3>2. TreeIndex(m) \in Indexes(HashTreeMap[c[1]])
      BY DEF GetDataIntegrity, Indexes
    <3>3. k # Height
      BY <1>0, <3>1, <3>2, RootSibling
    <3> QED
      BY <1>0, <3>1, <3>3
  <2> QED
    BY <2>1
<1> HIDE DEF new
<1>4. ASSUME NEW m \in new PROVE m \in NeededHashes(i)
  <2>1. PICK k \in 0..(Height - 1) : idx(k) = TreeIndex(m)
    BY <1>3
  <2> DEFINE p == At(ContentTree, idx(k))
  <2>2. p \in ContentTree /\ TreeIndex(p) = idx(k) /\ p \in NeededHashes(i)
    BY <1>0, LeftClear, SiblingNode
  <2> HIDE DEF p
  <2> QED
    BY <1>1, <2>1, <2>2, ContentUnique
<1>5. ASSUME NEW m \in NeededHashes(i) PROVE m \in new
  <2>1. PICK k \in 0..(Height - 1) : RangeOf(m) = SiblingOf(i, k)
    BY <1>5 DEF NeededHashes, Needed, Siblings
  <2>2. TreeIndex(m) = idx(k) /\ m \in ContentTree
    BY <2>1 DEF TreeIndex, RangeOf, NeededHashes
  <2> HIDE DEF idx
  <2> QED
    BY <1>1, <1>2, <2>2, GenuineMaps
<1> QED
  BY <1>4, <1>5 DEF new

\* The chunk of the first request of a node is the first one announced.
LEMMA FirstChunk ==
    ASSUME IInv, NEW c \in Channels, NEW i \in 0..(Leaves - 1), ReceiveRequest(c, i),
           Have(c[2]) = {}, announced[c].Start \in Nat
    PROVE  i = announced[c].Start
<1> DEFINE a == announced[c].Start
           b == announced[c].End
<1>1. (a..b) # {} /\ i = Min(a..b)
  BY DEF ReceiveRequest
<1>2. a \in Nat /\ b \in Int
  BY DEF IInv, PlainTypes, ChunkRangeSt, NoRange
<1> HIDE DEF a, b
<1>3. a \in a..b /\ a..b \in SUBSET Nat
  BY <1>1, <1>2
<1>4. i \in a..b /\ i <= a
  BY <1>1, <1>3, MinInSet
<1>5. i = a
  BY <1>2, <1>4
<1> QED
  BY <1>5 DEF a

\* ReceiveRequest: the first chunk's hashes, and those of the peaks; later on, what
\* was not sent before.
LEMMA RequestJ ==
    ASSUME IInv, JInv, AnnouncedLeft, NEW c \in swarm, NEW i \in 0..(Leaves - 1),
           ReceiveRequest(c, i)
    PROVE  JInv'
<1> DEFINE s == c[1]
           n == c[2]
           peaks == IF IsFirstRequest[c] THEN GetPeakHashes(s) ELSE {}
           new == GetDataIntegrity(c, i)
           ok == i \in Have(s)
<1>1. /\ pc[c] = "idle"
      /\ integrities' = [integrities EXCEPT ![c] = Put(@, peaks \cup new)]
      /\ IntegritySendMap' = [IntegritySendMap EXCEPT ![c] = @ \cup Indexes(new)]
      /\ IsFirstRequest' = [IsFirstRequest EXCEPT ![c] = FALSE]
      /\ data' = [data EXCEPT ![c] = [chunk |-> i, ok |-> ok]]
      /\ pc' = [pc EXCEPT ![c] = "data"]
      /\ UNCHANGED <<HashTreeMap, ChunkRange, LeafNodeCount, ContentSize,
                     IsFirstData, mutexFree, ChunkRangeList, IntegrityMap,
                     announced, retry, swarm, delayed, faults>>
  BY DEF ReceiveRequest, goto
<1>2. IF IsFirstRequest[c] /\ ~IsPeakMapCreated[s]
      THEN /\ PeakHashMap' = [PeakHashMap EXCEPT ![s] = peaks]
           /\ IsPeakMapCreated' = [IsPeakMapCreated EXCEPT ![s] = TRUE]
      ELSE UNCHANGED <<PeakHashMap, IsPeakMapCreated>>
  BY DEF ReceiveRequest
<1>3. /\ c \in Channels /\ s \in Nodes /\ n \in Nodes
      /\ Tracked(s) /\ Tracked(n) /\ Faithful(c) /\ ~Seeder(n)
  BY OpenChannel
<1>4. /\ Seeder(s) \/ ~IsFirstData[s]
      /\ announced[c].Start \in Have(s)
      /\ Keeps(c)
  BY <1>1, <1>3 DEF Faithful, Served
<1>5. GetPeakHashes(s) = PeakHashes
  BY <1>3, <1>4, PeaksSent
<1>6. \A d \in Channels \ {c} : Alone(d)
  BY <1>1 DEF Alone, Received, IInv, PlainTypes, HashesKnown
<1>7. ASSUME NEW a \in Nodes PROVE Same(a) \/ (Forward(a) /\ Tracked(a)')
  <2>1. CASE a = s /\ IsFirstRequest[c] /\ ~IsPeakMapCreated[s]
    <3>1. PeakHashMap'[s] = PeakHashes /\ IsPeakMapCreated'[s]
      BY <1>2, <1>3, <1>5, <2>1 DEF IInv, PlainTypes, HashesKnown
    <3>2. Seeder(s)
      BY <1>3, <1>4, <2>1 DEF Tracked, Knows
    <3>3. Seeder(s)'
      BY <1>1, <3>2 DEF Seeder
    <3>4. Forward(s)
      BY <1>1 DEF Forward, Have
    <3>5. Tracked(s)'
      BY <1>1, <1>3, <3>1, <3>2, <3>3 DEF Tracked, Seeds
    <3> QED
      BY <2>1, <3>4, <3>5
  <2>2. CASE ~(a = s /\ IsFirstRequest[c] /\ ~IsPeakMapCreated[s])
    <3>1. PeakHashMap'[a] = PeakHashMap[a] /\ IsPeakMapCreated'[a] = IsPeakMapCreated[a]
      BY <1>2, <2>2 DEF IInv, PlainTypes, HashesKnown
    <3> QED
      BY <1>1, <3>1 DEF Same
  <2> QED
    BY <2>1, <2>2
<1>8. new \subseteq ContentTree /\ peaks \subseteq Filled /\ integrities[c] \subseteq Filled
  BY <1>3, <1>4, <1>5, SentKnown, SentFilled DEF Keeps, OnWay
<1>9. /\ integrities'[c] = integrities[c] \cup peaks \cup new
      /\ OnWay(c)' = OnWay(c) \cup peaks \cup new
      /\ IntegritySendMap'[c] = IntegritySendMap[c] \cup Indexes(new)
      /\ ~IsFirstRequest'[c] /\ pc'[c] = "data"
      /\ data'[c].chunk = i /\ (data'[c].ok <=> ok)
  <2>1. Put(integrities[c], peaks \cup new) = integrities[c] \cup (peaks \cup new)
    <3>1. integrities[c] \in SUBSET ContentTree /\ peaks \cup new \in SUBSET ContentTree
      BY <1>8, SentFilled
    <3> HIDE DEF peaks, new
    <3> QED
      BY <3>1, GenuineMaps
  <2>2. integrities'[c] = integrities[c] \cup (peaks \cup new)
    BY <1>1, <1>3, <2>1 DEF IInv, HashesKnown
  <2>3. Received(c)' = Received(c)
    BY <1>1 DEF Received
  <2>4. ASSUME ok PROVE data'[c].chunk = i /\ data'[c].ok
    <3>1. data'[c] = [chunk |-> i, ok |-> TRUE]
      BY <1>1, <1>3, <2>4 DEF IInv, PlainTypes
    <3> HIDE DEF ok
    <3> QED
      BY <2>4, <3>1
  <2>5. ASSUME ~ok PROVE data'[c].chunk = i /\ ~data'[c].ok
    <3>1. c \in DOMAIN data /\ data' = [data EXCEPT ![c] = [chunk |-> i, ok |-> ok]]
      BY <1>1, <1>3 DEF IInv, PlainTypes
    <3>2. ok = FALSE
      BY <2>5
    <3> HIDE DEF ok
    <3>3. data' = [data EXCEPT ![c] = [chunk |-> i, ok |-> FALSE]]
      BY <3>1, <3>2, Zenon
    <3> QED
      BY <3>1, <3>3
  <2>6. /\ IntegritySendMap' = [IntegritySendMap EXCEPT ![c] = @ \cup Indexes(new)]
        /\ IntegritySendMap \in [Channels -> SUBSET Nat]
    BY <1>1 DEF IInv, PlainTypes
  <2>7. /\ IsFirstRequest' = [IsFirstRequest EXCEPT ![c] = FALSE]
        /\ pc' = [pc EXCEPT ![c] = "data"]
        /\ c \in DOMAIN IsFirstRequest /\ c \in DOMAIN pc
    BY <1>1, <1>3 DEF IInv, PlainTypes
  <2> HIDE DEF peaks, new, ok
  <2>9. IntegritySendMap'[c] = IntegritySendMap[c] \cup Indexes(new)
    BY <1>3, <2>6
  <2>10. ~IsFirstRequest'[c] /\ pc'[c] = "data"
    BY <2>7
  <2>8. OnWay(c)' = OnWay(c) \cup peaks \cup new
    BY <2>2, <2>3 DEF OnWay
  <2> QED
    BY <2>2, <2>4, <2>5, <2>8, <2>9, <2>10
<1> HIDE DEF peaks, new, ok
<1>10. new \subseteq Filled
  BY <1>3, <1>4, ChunkSent DEF new
<1>11. ok => i \in Chunks /\ Servable(s, i)
  BY <1>3 DEF IInv, Stored, ok
<1>12. ok => Covers(c, i)'
  <2>1. SUFFICES ASSUME ok PROVE Covers(c, i)'
    OBVIOUS
  <2>2. \A k \in 0..(Height - 1) :
           (\A l \in 0..k : ~Padding(SiblingOf(i, l))) =>
               TreeIndex(SiblingOf(i, k)) \in IntegritySendMap[c] \cup Indexes(new)
    BY <1>3, <1>4, <1>11, <2>1, ChunkSent DEF new
  <2> QED
    BY <1>9, <2>2 DEF Covers
<1>13. Keeps(c)'
  <2>1. OnWay(c)' \subseteq Filled /\ delayed'[c] = {}
    BY <1>1, <1>4, <1>8, <1>9, <1>10 DEF Keeps
  <2>2. IntegritySendMap[c] \subseteq Indexes(OnWay(c) \cup HashTreeMap[n])
    BY <1>4 DEF Keeps
  <2>3. IntegritySendMap'[c] \subseteq Indexes(OnWay(c)' \cup HashTreeMap'[n])
    BY <1>1, <1>9, <2>2 DEF Indexes
  <2> QED
    BY <2>1, <2>3 DEF Keeps
<1>14. ASSUME IsFirstData[n]
       PROVE  ok /\ i = announced[c].Start /\ OnWay(c)' = PeakHashes \cup NeededHashes(i)
  <2>1. IsFirstRequest[c] /\ OnWay(c) = {} /\ IntegritySendMap[c] = {}
    BY <1>1, <1>3, <1>14 DEF Faithful, Opens, Fresh
  <2>2. Have(n) = {}
    BY <1>3, <1>14 DEF Tracked, Begins, Have, Covered
  <2>3. announced[c].Start \in Chunks /\ announced[c].Start \in Nat
    BY <1>3, <1>4 DEF IInv, Stored, Chunks
  <2>4. i = announced[c].Start
    BY <1>3, <2>2, <2>3, FirstChunk
  <2>5. ok /\ Left(i)
    BY <1>3, <1>4, <2>3, <2>4 DEF AnnouncedLeft, Left, ok
  <2>6. new = NeededHashes(i)
    BY <1>3, <1>4, <1>11, <2>1, <2>5, FirstSent DEF new
  <2>7. peaks = PeakHashes
    BY <1>5, <2>1 DEF peaks
  <2> QED
    BY <1>9, <2>1, <2>4, <2>5, <2>6, <2>7
<1>15. Faithful(c)'
  <2>1. Served(c)'
    BY <1>1, <1>4 DEF Served, Seeder, Have
  <2>2. Opens(c)'
    BY <1>1, <1>9, <1>14 DEF Opens
  <2>3. Fresh(c)'
    BY <1>9 DEF Fresh
  <2>4. pc'[c] = "data" /\ data'[c].ok => Covers(c, data[c].chunk)'
    BY <1>9, <1>12 DEF Covers
  <2> QED
    BY <1>9, <1>13, <2>1, <2>2, <2>3, <2>4 DEF Faithful, Covers
<1> QED
  BY <1>1, <1>6, <1>7, <1>15, OneStep

-----------------------------------------------------------------------------
(* Its downloading side *)

\* AddIntegrity: the hash stays on its way.
LEMMA IntegrityJ ==
    ASSUME IInv, JInv, NEW c \in swarm, NEW m \in integrities[c] \cup delayed[c],
           AddIntegrity(c, m)
    PROVE  JInv'
<1>1. /\ integrities' = [integrities EXCEPT ![c] = @ \ {m}]
      /\ delayed' = [delayed EXCEPT ![c] = @ \ {m}]
      /\ IntegrityMap' = IF c \in DOMAIN IntegrityMap
                         THEN [IntegrityMap EXCEPT ![c] = Put(@, {m})]
                         ELSE [d \in DOMAIN IntegrityMap \cup {c} |->
                                  IF d = c THEN {m} ELSE IntegrityMap[d]]
      /\ UNCHANGED <<treeVars, mutexFree, ChunkRangeList, sendVars, data, pc,
                     retry, swarm, faults>>
  BY DEF AddIntegrity
<1>2. c \in Channels /\ Faithful(c)
  BY OpenChannel
<1>3. /\ delayed[c] = {} /\ m \in integrities[c] /\ m \in ContentTree
      /\ Received(c) \in SUBSET ContentTree
  BY <1>2, SentFilled DEF Faithful, Keeps, OnWay
<1>4. /\ c \in DOMAIN IntegrityMap'
      /\ Received(c)' = Received(c) \cup {m}
      /\ \A d \in Channels \ {c} :
            Received(d)' = Received(d) /\ (d \in DOMAIN IntegrityMap => d \in DOMAIN IntegrityMap')
  <2>1. CASE c \in DOMAIN IntegrityMap
    <3>1. Put(IntegrityMap[c], {m}) = IntegrityMap[c] \cup {m}
      BY <1>3, <2>1, GenuineMaps DEF Received
    <3>2. /\ DOMAIN IntegrityMap' = DOMAIN IntegrityMap
          /\ IntegrityMap'[c] = IntegrityMap[c] \cup {m}
          /\ \A d \in DOMAIN IntegrityMap \ {c} : IntegrityMap'[d] = IntegrityMap[d]
      BY <1>1, <2>1, <3>1
    <3> QED
      BY <2>1, <3>2 DEF Received
  <2>2. CASE c \notin DOMAIN IntegrityMap
    <3>1. /\ DOMAIN IntegrityMap' = DOMAIN IntegrityMap \cup {c}
          /\ IntegrityMap'[c] = {m}
          /\ \A d \in DOMAIN IntegrityMap \ {c} : IntegrityMap'[d] = IntegrityMap[d]
      BY <1>1, <2>2
    <3> QED
      BY <2>2, <3>1 DEF Received
  <2> QED
    BY <2>1, <2>2
<1>5. \A d \in Channels \ {c} : Alone(d)
  BY <1>1, <1>4 DEF Alone, sendVars, IInv, HashesKnown
<1>6. \A n \in Nodes : Same(n)
  BY <1>1 DEF Same, treeVars
<1>7. /\ integrities'[c] = integrities[c] \ {m} /\ delayed'[c] = {}
      /\ OnWay(c)' = OnWay(c)
  <2>1. integrities'[c] = integrities[c] \ {m} /\ delayed'[c] = delayed[c] \ {m}
    BY <1>1, <1>2 DEF IInv, HashesKnown
  <2> QED
    BY <1>3, <1>4, <2>1 DEF OnWay
<1>8. Keeps(c)' /\ Fresh(c)'
  BY <1>1, <1>2, <1>7 DEF Faithful, Keeps, Fresh, sendVars, treeVars
<1>9. Served(c)'
  BY <1>1, <1>2 DEF Faithful, Served, Seeder, Have, sendVars, treeVars
<1>10. Opens(c)'
  BY <1>1, <1>2, <1>4, <1>7 DEF Faithful, Opens, sendVars, treeVars
<1>11. pc'[c] = "data" /\ data'[c].ok => Covers(c, data[c].chunk)'
  BY <1>1, <1>2 DEF Faithful, Covers, sendVars
<1>12. Faithful(c)'
  BY <1>1, <1>2, <1>8, <1>9, <1>10, <1>11 DEF Faithful, Covers
<1> QED
  BY <1>1, <1>5, <1>6, <1>12, OneStep

\* RetryRequest has nothing to do.
LEMMA RetryJ ==
    ASSUME IInv, JInv, NEW c \in swarm, RetryRequest(c)
    PROVE  JInv'
<1>1. /\ pc[c] = "rejected"
      /\ data' = [data EXCEPT ![c] = NoData]
      /\ pc' = [pc EXCEPT ![c] = "idle"]
      /\ UNCHANGED <<treeVars, mutexFree, ChunkRangeList, IntegrityMap,
                     sendVars, netVars>>
  BY DEF RetryRequest, goto
<1>2. c \in Channels /\ Faithful(c)
  BY OpenChannel
<1>3. \A d \in Channels \ {c} : Alone(d)
  BY <1>1 DEF Alone, Received, sendVars, netVars, IInv, PlainTypes
<1>4. \A n \in Nodes : Same(n)
  BY <1>1 DEF Same, treeVars
<1>5. pc'[c] = "idle"
  BY <1>1, <1>2 DEF IInv, PlainTypes
<1>6. UNCHANGED <<integrities, delayed, IntegrityMap, IntegritySendMap, HashTreeMap,
                  IsFirstRequest, announced, IsFirstData, ChunkRangeList, swarm>>
  BY <1>1 DEF treeVars, sendVars, netVars
<1>7. Keeps(c)' /\ Fresh(c)' /\ Served(c)'
  BY <1>1, <1>2, <1>5, <1>6
     DEF Faithful, Keeps, Fresh, Served, OnWay, Received, Seeder, Have
<1>8. Opens(c)'
  BY <1>1, <1>2, <1>5, <1>6 DEF Faithful, Opens
<1> QED
  BY <1>3, <1>4, <1>5, <1>6, <1>7, <1>8, OneStep DEF Faithful

\* SetData: the chunk has been checked, and so have the peak hashes.
LEMMA StoreJ ==
    ASSUME IInv, JInv, NEW c \in swarm, SetData(c)
    PROVE  JInv'
<1> DEFINE n == c[2]
           i == data[c].chunk
           new == AfterSetHave(ChunkRangeList[n], -1, i, i).list
<1>1. /\ pc[c] = "store" \/ (pc[c] = "first" /\ ~IsFirstData[n])
      /\ ChunkRangeList' = [ChunkRangeList EXCEPT ![n] = new]
      /\ data' = [data EXCEPT ![c] = NoData]
      /\ pc' = [pc EXCEPT ![c] = "idle"]
      /\ UNCHANGED <<treeVars, mutexFree, IntegrityMap, sendVars, netVars>>
  BY DEF SetData, goto
<1>2. /\ c \in Channels /\ n \in Nodes /\ Faithful(c) /\ Tracked(n) /\ ~Seeder(n)
  BY OpenChannel
<1>3. Have(n) \subseteq Covered(new)
  <2>1. i \in Nat
    <3>1. pc[c] \in {"store", "first"} /\ Carried(c)
      BY <1>1, <1>2 DEF IInv
    <3> QED
      BY <3>1 DEF Carried, Chunks
  <2>2. ChunkRangeList[n] \in Seq(ChunkRangeSt) /\ Separated(ChunkRangeList[n])
    BY <1>2 DEF IInv, PlainTypes, Stored
  <2> HIDE DEF n, i
  <2> QED
    BY <2>1, <2>2, ListTakesIn DEF Have
<1>4. ~IsFirstData[n]
  <2>1. Fresh(c) /\ Opens(c)
    BY <1>2 DEF Faithful
  <2>2. CASE pc[c] = "store"
    <3>1. ~IsFirstRequest[c]
      BY <2>1, <2>2 DEF Fresh
    <3> QED
      BY <2>1, <2>2, <3>1 DEF Opens
  <2> QED
    BY <1>1, <2>2
<1> HIDE DEF n, i, new
<1>5. pc'[c] = "idle"
  BY <1>1, <1>2 DEF IInv, PlainTypes
<1>6. UNCHANGED <<integrities, delayed, IntegrityMap, IntegritySendMap, HashTreeMap,
                  IsFirstRequest, announced, IsFirstData, PeakHashMap, mutexFree,
                  IsPeakMapCreated, ChunkRange, LeafNodeCount, swarm>>
  BY <1>1 DEF treeVars, sendVars, netVars
<1>7. \A d \in Channels \ {c} : Alone(d)
  BY <1>1, <1>6 DEF Alone, Received, IInv, PlainTypes
<1>8. ASSUME NEW a \in Nodes PROVE Same(a) \/ (Forward(a) /\ Tracked(a)')
  <2>1. CASE a = n
    <3>1. Have(a)' = Covered(new)
      BY <1>1, <1>2, <2>1 DEF Have, IInv, PlainTypes
    <3>2. Forward(a)
      BY <1>3, <1>6, <2>1, <3>1 DEF Forward
    <3>3. Tracked(a)'
      <4>1. ~Seeder(a)' /\ ~IsFirstData'[a]
        BY <1>2, <1>4, <1>6, <2>1 DEF Seeder
      <4>2. Knows(a)' /\ mutexFree'[a] /\ HashTreeMap'[a] \subseteq Filled
        BY <1>2, <1>4, <1>6, <2>1 DEF Tracked, Knows
      <4> QED
        BY <4>1, <4>2 DEF Tracked
    <3> QED
      BY <3>2, <3>3
  <2>2. CASE a # n
    <3>1. ChunkRangeList'[a] = ChunkRangeList[a]
      BY <1>1, <2>2 DEF IInv, PlainTypes
    <3> QED
      BY <1>6, <3>1 DEF Same
  <2> QED
    BY <2>1, <2>2
<1>9. Keeps(c)' /\ Fresh(c)'
  BY <1>1, <1>2, <1>5, <1>6 DEF Faithful, Keeps, Fresh, OnWay, Received
<1>10. Served(c)'
  <2>1. c[1] \in Nodes
    BY <1>2, ChannelEnds
  <2>2. Have(c[1]) \subseteq Have(c[1])'
    BY <1>8, <2>1 DEF Same, Forward, Have
  <2>3. pc[c] # "handshake"
    BY <1>1
  <2> QED
    BY <1>2, <1>6, <2>2, <2>3 DEF Faithful, Served, Seeder
<1>11. Opens(c)'
  BY <1>4, <1>6 DEF Opens, n
<1> QED
  BY <1>5, <1>6, <1>7, <1>8, <1>9, <1>10, <1>11, OneStep DEF Faithful

\* Genuine hashes that move from the map of a channel to the tree.
LEMMA GenuineMove ==
    ASSUME IInv, NEW c \in Channels, Received(c) \subseteq Filled,
           NEW used \in SUBSET Received(c), MoveToTree(c, used)
    PROVE  /\ HashTreeMap'[c[2]] = HashTreeMap[c[2]] \cup used
           /\ \A n \in Nodes \ {c[2]} : HashTreeMap'[n] = HashTreeMap[n]
           /\ Received(c)' = Received(c) \ used
           /\ \A d \in Channels \ {c} : Received(d)' = Received(d)
           /\ DOMAIN IntegrityMap' = DOMAIN IntegrityMap
<1> DEFINE n == c[2]
<1>1. n \in Nodes /\ HashTreeMap[n] \in SUBSET ContentTree /\ used \in SUBSET ContentTree
  BY ChannelEnds, SentFilled DEF IInv, HashesKnown
<1>2. Put(used, HashTreeMap[n]) = used \cup HashTreeMap[n]
  <2> HIDE DEF n
  <2> QED
    BY <1>1, GenuineMaps
<1>3. /\ HashTreeMap' = [HashTreeMap EXCEPT ![n] = Put(used, @)]
      /\ IntegrityMap' = IF c \in DOMAIN IntegrityMap
                         THEN [IntegrityMap EXCEPT ![c] = @ \ used]
                         ELSE IntegrityMap
  BY DEF MoveToTree
<1> HIDE DEF n
<1>4. /\ HashTreeMap'[n] = HashTreeMap[n] \cup used
      /\ \A a \in Nodes \ {n} : HashTreeMap'[a] = HashTreeMap[a]
  BY <1>1, <1>2, <1>3 DEF IInv, HashesKnown
<1>5. /\ Received(c)' = Received(c) \ used
      /\ \A d \in Channels \ {c} : Received(d)' = Received(d)
      /\ DOMAIN IntegrityMap' = DOMAIN IntegrityMap
  BY <1>3 DEF Received
<1> QED
  BY <1>4, <1>5 DEF n

\* The first chunk of a node lies in the first half of the tree; what its channel
\* has received before the check, and what is needed for it.
LEMMA FirstReceived ==
    ASSUME IInv, JInv, AnnouncedLeft, NEW c \in swarm, pc[c] = "data",
           integrities[c] = {}, IsFirstData[c[2]]
    PROVE  LET i == data[c].chunk
           IN  /\ Left(i) /\ data[c].ok /\ i \in 0..(Leaves - 1)
               /\ Received(c) = PeakHashes \cup NeededHashes(i)
               /\ NeededHashes(i) \subseteq Received(c)
               /\ Received(c) \ NeededHashes(i) = PeakHashes
               /\ c \in DOMAIN IntegrityMap
               /\ DataUsed(i, Leaves, Leaves - 1, Received(c)) = NeededHashes(i)
               /\ \A k \in DataReal(i, Leaves, Leaves - 1) :
                     TreeIndex(SiblingOf(i, k)) \in Indexes(Received(c))
<1> DEFINE i == data[c].chunk
           a == announced[c].Start
<1>1. c \in Channels /\ Faithful(c)
  BY OpenChannel
<1>2. ~IsFirstRequest[c]
  <2>1. Fresh(c)
    BY <1>1 DEF Faithful
  <2> QED
    BY <2>1 DEF Fresh
<1>3. i = a /\ data[c].ok /\ Received(c) = PeakHashes \cup NeededHashes(i)
  <2>1. Opens(c)
    BY <1>1 DEF Faithful
  <2> QED
    BY <1>2, <2>1 DEF Opens, OnWay
<1>4. i \in Chunks
  BY <1>1, <1>3 DEF IInv, Carried
<1>5. Left(i)
  BY <1>1, <1>3, <1>4 DEF AnnouncedLeft, Left
<1> HIDE DEF i, a
<1>6. /\ \A k \in 0..(Height - 1) : SiblingOf(i, k).Start <= Leaves - 1
      /\ i \in 0..(Leaves - 1) /\ Leaves - 1 \in Int /\ Leaves - 1 >= NumChunks - 1
  <2>1. i \in 0..(Leaves - 1) /\ Leaves - 1 \in Int /\ Leaves - 1 >= NumChunks - 1
    BY <1>4, TreeFacts DEF Chunks
  <2>2. ASSUME NEW k \in 0..(Height - 1) PROVE SiblingOf(i, k).Start <= Leaves - 1
    <3>1. k \in Levels /\ k < Height
      BY TreeFacts
    <3>2. SiblingOf(i, k).Start \in Nat
      BY <2>1, <3>1, WayUp
    <3>3. SiblingOf(i, k).Start < NumChunks
      BY <1>5, <3>2, LeftClear, TreeFacts DEF Padding
    <3> QED
      BY <3>2, <3>3, TreeFacts
  <2> QED
    BY <2>1, <2>2
<1>7. /\ DataUsed(i, Leaves, Leaves - 1, Received(c)) = NeededHashes(i)
      /\ \A k \in DataReal(i, Leaves, Leaves - 1) :
            TreeIndex(SiblingOf(i, k)) \in Indexes(Received(c))
      /\ PeakHashes \cap NeededHashes(i) = {}
  BY <1>3, <1>5, <1>6, DataUsedLeft
<1>8. c \in DOMAIN IntegrityMap
  <2>1. 0 \in 0..(Height - 1)
    BY TreeFacts
  <2>2. ~Padding(SiblingOf(i, 0))
    BY <1>5, <2>1, LeftClear
  <2>3. NeededHashes(i) # {}
    BY <1>6, <2>1, <2>2, SiblingNode
  <2> QED
    BY <1>3, <2>3 DEF Received
<1> QED
  BY <1>3, <1>5, <1>6, <1>7, <1>8 DEF i

\* CheckFirstDataIntegrity: it passes, uses all but the peak hashes, and takes the
\* end of the tree for the last chunk.
LEMMA FirstDataJ ==
    ASSUME IInv, JInv, AnnouncedLeft, NEW c \in swarm, CheckFirstDataIntegrity(c)
    PROVE  JInv'
<1> DEFINE n    == c[2]
           i    == data[c].chunk
           map  == Received(c)
           h    == DataHash(c)
           top  == FirstTop(i, map)
           used == FirstUsed(i, map)
           sib  == FoundSiblings(i, map)
           end  == NodeOf(i, top).End
<1>1. /\ pc[c] = "data" /\ integrities[c] = {} /\ ChunkRange[n] < 0
      /\ UNCHANGED <<PeakHashMap, IsPeakMapCreated, ContentSize, IsFirstData,
                     mutexFree, ChunkRangeList, sendVars, netVars, data, retry>>
  BY DEF CheckFirstDataIntegrity
<1>2. \/ /\ ChunkRange' = [ChunkRange EXCEPT ![n] = end]
         /\ LeafNodeCount' = [LeafNodeCount EXCEPT ![n] = end + 1]
         /\ MoveToTree(c, used)
         /\ pc' = [pc EXCEPT ![c] = "first"]
      \/ ~(top > 0 /\ IsRootHash(HashUp(i, h, 0, top, sib)))
  BY DEF CheckFirstDataIntegrity, goto, FirstTop, FirstUsed, FoundSiblings
<1>3. /\ c \in Channels /\ n \in Nodes
      /\ Tracked(n) /\ Faithful(c) /\ ~Seeder(n)
  BY OpenChannel
<1>4. IsFirstData[n]
  BY <1>1, <1>3, TreeFacts DEF Tracked, Knows
<1>5. /\ Left(i) /\ data[c].ok /\ map = PeakHashes \cup NeededHashes(i)
      /\ NeededHashes(i) \subseteq map /\ map \ NeededHashes(i) = PeakHashes
      /\ c \in DOMAIN IntegrityMap
  BY <1>1, <1>4, FirstReceived
<1>6. map \subseteq Filled /\ map \in SUBSET ContentTree
  BY <1>3, SentFilled DEF Faithful, Keeps, OnWay
<1>7. h = Leaf(i)
  BY <1>5 DEF DataHash
<1>8. used = NeededHashes(i) /\ end = Leaves - 1
  <2> HIDE DEF i, map
  <2> QED
    BY <1>5, <1>6, FirstWay
<1>9. top > 0 /\ IsRootHash(HashUp(i, h, 0, top, sib))
  <2> HIDE DEF i, map, h
  <2> QED
    BY <1>5, <1>6, <1>7, FirstWay
<1> HIDE DEF top, sib, end, used, h
<1>10. /\ ChunkRange' = [ChunkRange EXCEPT ![n] = end]
       /\ LeafNodeCount' = [LeafNodeCount EXCEPT ![n] = end + 1]
       /\ MoveToTree(c, used)
       /\ pc' = [pc EXCEPT ![c] = "first"]
  BY <1>2, <1>9
<1>11. used \in SUBSET map
  BY <1>5, <1>8
<1> HIDE DEF n
<1>12. /\ HashTreeMap'[n] = HashTreeMap[n] \cup used
       /\ \A a \in Nodes \ {n} : HashTreeMap'[a] = HashTreeMap[a]
       /\ Received(c)' = PeakHashes
       /\ \A d \in Channels \ {c} : Received(d)' = Received(d)
       /\ DOMAIN IntegrityMap' = DOMAIN IntegrityMap
  BY <1>3, <1>5, <1>6, <1>8, <1>10, <1>11, GenuineMove DEF n
<1>13. pc'[c] = "first" /\ ChunkRange'[n] = Leaves - 1 /\ LeafNodeCount'[n] = Leaves
  BY <1>3, <1>8, <1>10, TreeFacts DEF IInv, PlainTypes
<1>14. UNCHANGED <<integrities, delayed, IntegritySendMap, IsFirstRequest, announced,
                   swarm>>
  BY <1>1 DEF sendVars, netVars
<1>15. \A d \in Channels \ {c} : Alone(d)
  BY <1>1, <1>10, <1>12, <1>14 DEF Alone, IInv, PlainTypes
<1>16. ASSUME NEW a \in Nodes PROVE Same(a) \/ (Forward(a) /\ Tracked(a)')
  <2>1. CASE a = n
    <3>1. Forward(a)
      BY <1>1, <1>12, <1>13, <2>1, TreeFacts DEF Forward, Have
    <3>2. Begins(a)'
      BY <1>1, <1>3, <1>4, <1>13, <2>1 DEF Tracked, Begins
    <3>3. HashTreeMap'[a] \subseteq Filled
      BY <1>3, <1>6, <1>11, <1>12, <2>1 DEF Tracked
    <3>4. ~Seeder(a)' /\ IsFirstData'[a] /\ mutexFree'[a]
      BY <1>1, <1>3, <1>4, <1>14, <2>1 DEF Seeder, Tracked
    <3> QED
      BY <3>1, <3>2, <3>3, <3>4 DEF Tracked
  <2>2. CASE a # n
    BY <1>1, <1>10, <1>12, <2>2 DEF Same
  <2> QED
    BY <2>1, <2>2
<1>17. integrities'[c] = {} /\ OnWay(c)' = PeakHashes
  BY <1>1, <1>12, <1>14 DEF OnWay
<1>18. Keeps(c)'
  <2>1. OnWay(c) = map
    BY <1>1 DEF OnWay
  <2>2. OnWay(c) \cup HashTreeMap[n] \subseteq OnWay(c)' \cup HashTreeMap'[n]
    BY <1>5, <1>8, <1>12, <1>17, <2>1
  <2>3. IntegritySendMap[c] \subseteq Indexes(OnWay(c) \cup HashTreeMap[n])
    BY <1>3 DEF Faithful, Keeps, n
  <2>4. IntegritySendMap'[c] \subseteq Indexes(OnWay(c)' \cup HashTreeMap'[n])
    BY <1>14, <2>2, <2>3 DEF Indexes
  <2> QED
    BY <1>3, <1>14, <1>17, <2>4, SentFilled DEF Faithful, Keeps, n
<1>19. Fresh(c)' /\ Served(c)'
  BY <1>1, <1>3, <1>13, <1>14 DEF Faithful, Fresh, Served, Seeder, Have
<1>20. Opens(c)'
  <2>1. ~IsFirstRequest[c]
    BY <1>1, <1>3 DEF Faithful, Fresh
  <2>2. data[c].chunk = announced[c].Start
    BY <1>1, <1>3, <1>4, <2>1 DEF Faithful, Opens, n
  <2>3. ChunkRange'[n] # -1
    BY <1>13, TreeFacts
  <2> QED
    BY <1>1, <1>5, <1>12, <1>13, <1>14, <1>17, <2>2, <2>3 DEF Opens, n
<1>21. Faithful(c)'
  BY <1>13, <1>18, <1>19, <1>20 DEF Faithful
<1> QED
  BY <1>14, <1>15, <1>16, <1>21, OneStep

\* CheckDataIntegrity finds every hash it needs: it was sent on this channel, or is
\* that of a peak.
LEMMA SiblingsFound ==
    ASSUME IInv, JInv, NEW c \in swarm, pc[c] = "data", integrities[c] = {},
           ~IsFirstData[c[2]], data[c].ok
    PROVE  \A k \in DataReal(data[c].chunk, Leaves, NumChunks - 1) :
              TreeIndex(SiblingOf(data[c].chunk, k)) \in
                  Indexes(Received(c)) \cup Indexes(HashTreeMap[c[2]])
<1> DEFINE i == data[c].chunk
           idx(k) == TreeIndex(SiblingOf(i, k))
           tree == HashTreeMap[c[2]]
<1>1. c \in Channels /\ Faithful(c) /\ Tracked(c[2]) /\ ~Seeder(c[2])
  BY OpenChannel
<1>2. i \in Chunks /\ i \in 0..(Leaves - 1)
  BY <1>1, TreeFacts DEF IInv, Carried, Chunks
<1>3. Covers(c, i)
  BY <1>1 DEF Faithful
<1>4. IntegritySendMap[c] \subseteq Indexes(Received(c)) \cup Indexes(tree)
  BY <1>1 DEF Faithful, Keeps, OnWay, Indexes
<1>5. PeakHashes \subseteq tree
  BY <1>1 DEF Tracked, Knows
<1> HIDE DEF i, tree
<1>6. ASSUME NEW k \in DataReal(i, Leaves, NumChunks - 1)
      PROVE  idx(k) \in Indexes(Received(c)) \cup Indexes(tree)
  <2>1. k \in 0..(Height - 1) /\ SiblingOf(i, k).Start <= NumChunks - 1
    BY <1>2, DataTopIs DEF DataReal
  <2>2. ~Padding(SiblingOf(i, k))
    <3>1. k \in Levels /\ k < Height
      BY <2>1, TreeFacts
    <3>2. SiblingOf(i, k).Start \in Nat
      BY <1>2, <3>1, WayUp
    <3> QED
      BY <2>1, <3>2, TreeFacts DEF Padding
  <2>3. CASE \A l \in 0..k : ~Padding(SiblingOf(i, l))
    BY <1>3, <1>4, <2>1, <2>3 DEF Covers
  <2>4. CASE \E l \in 0..k : Padding(SiblingOf(i, l))
    <3>1. PICK l \in 0..k : Padding(SiblingOf(i, l))
      BY <2>4
    <3>2. l \in 0..(Height - 1) /\ k \in l..(Height - 1)
      BY <2>1, TreeFacts
    <3>3. SiblingOf(i, k) \in ContentPeaks
      BY <1>2, <2>2, <3>1, <3>2, AbovePadding
    <3>4. PICK m \in PeakHashes : TreeIndex(m) = idx(k)
      BY <3>3, PeakNode
    <3>5. m \in tree
      BY <1>5
    <3> QED
      BY <3>4, <3>5 DEF Indexes
  <2> QED
    BY <2>3, <2>4
<1> QED
  BY <1>6 DEF i, tree

\* CheckDataIntegrity: good data passes, and takes all but the peak hashes from the
\* channel when it is the first.
LEMMA DataJ ==
    ASSUME IInv, JInv, AnnouncedLeft, NEW c \in swarm, CheckDataIntegrity(c)
    PROVE  JInv'
<1> DEFINE n    == c[2]
           i    == data[c].chunk
           map  == Received(c)
           h    == DataHash(c)
           idx(k) == TreeIndex(SiblingOf(i, k))
           count == LeafNodeCount[n]
           range == ChunkRange[n]
           tree == HashTreeMap[n]
           top  == DataTop(i, count)
           real == DataReal(i, count, range)
           used == DataUsed(i, count, range, map)
           sib  == DataSiblings(i, count, range, map, tree)
           passes == /\ \A k \in real : idx(k) \in Indexes(map) \cup Indexes(tree)
                     /\ IsRootHash(HashUp(i, h, 0, top, sib))
<1>1. /\ pc[c] = "data" /\ integrities[c] = {} /\ range >= 0
      /\ UNCHANGED <<PeakHashMap, IsPeakMapCreated, ChunkRange, LeafNodeCount,
                     IsFirstData, mutexFree, ChunkRangeList, sendVars, netVars,
                     data, retry>>
  BY DEF CheckDataIntegrity
<1>2. \/ /\ passes
         /\ MoveToTree(c, used)
         /\ pc' = [pc EXCEPT ![c] = "first"]
      \/ /\ ~passes /\ pc' = [pc EXCEPT ![c] = "rejected"]
         /\ UNCHANGED <<HashTreeMap, IntegrityMap>>
  BY DEF CheckDataIntegrity, goto, Reject, DataTop, DataReal, DataUsed, DataSiblings
<1>3. /\ c \in Channels /\ n \in Nodes
      /\ Tracked(n) /\ Faithful(c) /\ ~Seeder(n)
  BY OpenChannel
<1>4. /\ map \subseteq Filled /\ map \in SUBSET ContentTree
      /\ tree \subseteq Filled /\ tree \in SUBSET ContentTree
  BY <1>1, <1>3, SentFilled DEF Faithful, Keeps, OnWay, Tracked
<1>5. /\ count = Leaves /\ range \in Int /\ range >= NumChunks - 1
      /\ range = IF IsFirstData[n] THEN Leaves - 1 ELSE NumChunks - 1
  BY <1>1, <1>3, TreeFacts DEF Tracked, Begins, Knows
<1>6. used \subseteq map
  BY DEF DataUsed
<1>7. ASSUME IsFirstData[n]
      PROVE  /\ data[c].ok /\ used = NeededHashes(i)
             /\ NeededHashes(i) \subseteq map /\ map \ NeededHashes(i) = PeakHashes
             /\ c \in DOMAIN IntegrityMap
             /\ \A k \in real : idx(k) \in Indexes(map) \cup Indexes(tree)
  BY <1>1, <1>5, <1>7, FirstReceived
<1>8. ASSUME data[c].ok
      PROVE  passes
  <2>1. i \in Chunks /\ h = Leaf(i)
    BY <1>3, <1>8 DEF IInv, Carried, DataHash
  <2>2. \A k \in real : idx(k) \in Indexes(map) \cup Indexes(tree)
    <3>1. CASE IsFirstData[n]
      BY <1>7, <3>1
    <3>2. CASE ~IsFirstData[n]
      BY <1>1, <1>5, <1>8, <3>2, SiblingsFound
    <3> QED
      BY <3>1, <3>2
  <2> HIDE DEF i, map, h, count, range, tree
  <2>3. IsRootHash(HashUp(i, Leaf(i), 0, DataTop(i, Leaves),
                          DataSiblings(i, Leaves, range, map, tree)))
    BY <1>4, <1>5, <2>1, <2>2, DataWay
  <2> QED
    BY <1>5, <2>1, <2>2, <2>3
<1> HIDE DEF top, real, used, sib, h, passes
<1>9. UNCHANGED <<integrities, delayed, IntegritySendMap, IsFirstRequest, announced,
                  swarm>>
  BY <1>1 DEF sendVars, netVars
<1>10. CASE /\ passes
            /\ MoveToTree(c, used)
            /\ pc' = [pc EXCEPT ![c] = "first"]
  <2>1. /\ HashTreeMap'[n] = tree \cup used
        /\ \A a \in Nodes \ {n} : HashTreeMap'[a] = HashTreeMap[a]
        /\ Received(c)' = map \ used
        /\ \A d \in Channels \ {c} : Received(d)' = Received(d)
        /\ DOMAIN IntegrityMap' = DOMAIN IntegrityMap
    <3> HIDE DEF n
    <3> QED
      BY <1>3, <1>4, <1>6, <1>10, GenuineMove DEF n
  <2> HIDE DEF n, tree
  <2>2. pc'[c] = "first"
    BY <1>3, <1>10 DEF IInv, PlainTypes
  <2>3. \A d \in Channels \ {c} : Alone(d)
    BY <1>1, <1>9, <1>10, <2>1 DEF Alone, IInv, PlainTypes
  <2>4. ASSUME NEW a \in Nodes PROVE Same(a) \/ (Forward(a) /\ Tracked(a)')
    <3>1. CASE a = n
      <4>1. Forward(a)
        BY <1>1, <2>1, <3>1 DEF Forward, Have, tree
      <4>2. (Begins(a) => Begins(a)') /\ (Knows(a) => Knows(a)')
        BY <1>1, <2>1, <3>1 DEF Begins, Knows, tree
      <4>3. HashTreeMap'[a] \subseteq Filled
        BY <1>4, <1>6, <2>1, <3>1
      <4>4. ~Seeder(a)' /\ IsFirstData'[a] = IsFirstData[a] /\ mutexFree'[a]
        BY <1>1, <1>3, <1>9, <3>1 DEF Seeder, Tracked
      <4> QED
        BY <1>3, <3>1, <4>1, <4>2, <4>3, <4>4 DEF Tracked
    <3>2. CASE a # n
      BY <1>1, <2>1, <3>2 DEF Same
    <3> QED
      BY <3>1, <3>2
  <2>5. integrities'[c] = {} /\ OnWay(c)' = map \ used /\ OnWay(c) = map
    BY <1>1, <1>9, <2>1 DEF OnWay
  <2>6. Keeps(c)'
    <3>1. OnWay(c) \cup tree \subseteq OnWay(c)' \cup HashTreeMap'[n]
      BY <2>1, <2>5
    <3>2. IntegritySendMap[c] \subseteq Indexes(OnWay(c) \cup tree)
      BY <1>3 DEF Faithful, Keeps, n, tree
    <3>3. IntegritySendMap'[c] \subseteq Indexes(OnWay(c)' \cup HashTreeMap'[n])
      BY <1>9, <3>1, <3>2 DEF Indexes
    <3> QED
      BY <1>3, <1>4, <1>9, <2>5, <3>3 DEF Faithful, Keeps, n
  <2>7. Fresh(c)' /\ Served(c)'
    BY <1>1, <1>3, <1>9, <2>2 DEF Faithful, Fresh, Served, Seeder, Have
  <2>8. Opens(c)'
    <3>1. ~IsFirstRequest[c]
      BY <1>1, <1>3 DEF Faithful, Fresh
    <3>2. IsFirstData[n] => data[c].chunk = announced[c].Start
      BY <1>1, <1>3, <3>1 DEF Faithful, Opens, n
    <3>3. ChunkRange'[n] # -1
      BY <1>1, <1>5
    <3>4. IsFirstData[n] => /\ data[c].ok /\ OnWay(c)' = PeakHashes
                            /\ c \in DOMAIN IntegrityMap'
      BY <1>7, <2>1, <2>5
    <3> QED
      BY <1>1, <1>9, <2>2, <2>5, <3>2, <3>3, <3>4 DEF Opens, n
  <2>9. Faithful(c)'
    BY <2>2, <2>6, <2>7, <2>8 DEF Faithful
  <2> QED
    BY <1>9, <2>3, <2>4, <2>9, OneStep
<1>11. CASE /\ ~passes /\ pc' = [pc EXCEPT ![c] = "rejected"]
            /\ UNCHANGED <<HashTreeMap, IntegrityMap>>
  <2>1. ~data[c].ok /\ ~IsFirstData[n]
    BY <1>7, <1>8, <1>11
  <2>2. pc'[c] = "rejected"
    BY <1>3, <1>11 DEF IInv, PlainTypes
  <2>3. \A d \in Channels \ {c} : Alone(d)
    BY <1>1, <1>9, <1>11 DEF Alone, Received, IInv, PlainTypes
  <2>4. \A a \in Nodes : Same(a)
    BY <1>1, <1>11 DEF Same
  <2>5. Keeps(c)' /\ Fresh(c)' /\ Served(c)'
    BY <1>1, <1>3, <1>9, <1>11, <2>2
       DEF Faithful, Keeps, Fresh, Served, OnWay, Received, Seeder, Have
  <2>6. Opens(c)'
    BY <1>1, <2>1 DEF Opens
  <2> QED
    BY <1>1, <1>9, <2>1, <2>2, <2>3, <2>4, <2>5, <2>6, OneStep DEF Faithful
<1> QED
  BY <1>2, <1>10, <1>11

\* CheckPeakHash finds the last chunk, or nothing to check in a tree without padding.
LEMMA PeakJ ==
    ASSUME PeaksCheckable, IInv, JInv, NEW c \in swarm, CheckPeakHash(c)
    PROVE  JInv'
<1> DEFINE n == c[2]
<1>1. /\ pc[c] = "first" /\ IsFirstData[n]
      /\ UNCHANGED <<ChunkRangeList, sendVars, netVars, data, retry>>
  BY DEF CheckPeakHash
<1>2. /\ c \in Channels /\ n \in Nodes
      /\ Tracked(n) /\ Faithful(c) /\ ~Seeder(n)
  BY OpenChannel
<1>3. /\ c \in DOMAIN IntegrityMap /\ IntegrityMap[c] = PeakHashes
      /\ Received(c) = PeakHashes /\ integrities[c] = {} /\ OnWay(c) = PeakHashes
  <2>1. ~IsFirstRequest[c]
    BY <1>1, <1>2 DEF Faithful, Fresh
  <2>2. c \in DOMAIN IntegrityMap /\ OnWay(c) = PeakHashes /\ integrities[c] = {}
    BY <1>1, <1>2, <2>1 DEF Faithful, Opens
  <2> QED
    BY <2>2 DEF OnWay, Received
<1>4. /\ ChunkRange[n] \in {-1, Leaves - 1} /\ PeakHashMap[n] = {}
      /\ ChunkRange[n] = Leaves - 1 /\ LeafNodeCount[n] = Leaves
  <2>1. ChunkRange[n] # -1
    <3>1. ~IsFirstRequest[c]
      BY <1>1, <1>2 DEF Faithful, Fresh
    <3> QED
      BY <1>1, <1>2, <3>1 DEF Faithful, Opens
  <2> QED
    BY <1>1, <1>2, <2>1 DEF Tracked, Begins
<1>5. UNCHANGED <<integrities, delayed, IntegritySendMap, IsFirstRequest, announced,
                  swarm>>
  BY <1>1 DEF sendVars, netVars
<1>6. ASSUME pc' = [pc EXCEPT ![c] = "store"],
             IsPeakMapCreated' = [IsPeakMapCreated EXCEPT ![n] = TRUE],
             IsFirstData' = [IsFirstData EXCEPT ![n] = FALSE],
             UNCHANGED mutexFree,
             ChunkRange'[n] = NumChunks - 1, LeafNodeCount'[n] = Leaves,
             PeakHashMap'[n] = PeakHashes,
             HashTreeMap'[n] = HashTreeMap[n] \cup PeakHashes,
             \A a \in Nodes \ {n} :
                /\ ChunkRange'[a] = ChunkRange[a] /\ LeafNodeCount'[a] = LeafNodeCount[a]
                /\ PeakHashMap'[a] = PeakHashMap[a] /\ HashTreeMap'[a] = HashTreeMap[a],
             Received(c)' = {},
             \A d \in Channels \ {c} : Received(d)' = Received(d),
             DOMAIN IntegrityMap' = DOMAIN IntegrityMap
      PROVE  JInv'
  <2>1. pc'[c] = "store" /\ ~IsFirstData'[n] /\ IsPeakMapCreated'[n]
    BY <1>2, <1>6 DEF IInv, PlainTypes
  <2>2. \A d \in Channels \ {c} : Alone(d)
    BY <1>1, <1>5, <1>6 DEF Alone, IInv, PlainTypes
  <2> HIDE DEF n
  <2>3. ASSUME NEW a \in Nodes PROVE Same(a) \/ (Forward(a) /\ Tracked(a)')
    <3>1. CASE a = n
      <4>1. Forward(a)
        BY <1>1, <1>6, <2>1, <3>1, TreeFacts DEF Forward, Have
      <4>2. Knows(a)'
        BY <1>6, <2>1, <3>1 DEF Knows
      <4>3. HashTreeMap'[a] \subseteq Filled
        BY <1>2, <1>6, <3>1, SentFilled DEF Tracked
      <4>4. ~Seeder(a)' /\ ~IsFirstData'[a] /\ mutexFree'[a]
        BY <1>2, <1>5, <1>6, <2>1, <3>1 DEF Seeder, Tracked
      <4> QED
        BY <4>1, <4>2, <4>3, <4>4 DEF Tracked
    <3>2. CASE a # n
      <4>1. /\ IsPeakMapCreated'[a] = IsPeakMapCreated[a]
            /\ IsFirstData'[a] = IsFirstData[a]
        BY <1>6, <3>2 DEF IInv, PlainTypes
      <4> QED
        BY <1>1, <1>6, <3>2, <4>1 DEF Same
    <3> QED
      BY <3>1, <3>2
  <2>4. OnWay(c)' = {} /\ integrities'[c] = {}
    BY <1>3, <1>5, <1>6 DEF OnWay
  <2>5. Keeps(c)'
    <3>1. OnWay(c) \cup HashTreeMap[n] \subseteq OnWay(c)' \cup HashTreeMap'[n]
      BY <1>3, <1>6
    <3>2. IntegritySendMap[c] \subseteq Indexes(OnWay(c) \cup HashTreeMap[n])
      BY <1>2 DEF Faithful, Keeps, n
    <3>3. IntegritySendMap'[c] \subseteq Indexes(OnWay(c)' \cup HashTreeMap'[n])
      BY <1>5, <3>1, <3>2 DEF Indexes
    <3> QED
      BY <1>2, <1>5, <2>4, <3>3 DEF Faithful, Keeps, n
  <2>6. Fresh(c)'
    BY <1>1, <1>2, <1>5, <2>1 DEF Faithful, Fresh
  <2>7. Served(c)'
    <3>1. c[1] \in Nodes
      BY <1>2, ChannelEnds
    <3>2. IsFirstData'[c[1]] => IsFirstData[c[1]]
      BY <1>6, <3>1 DEF IInv, PlainTypes
    <3>3. Seeder(c[1])' <=> Seeder(c[1])
      BY <1>5 DEF Seeder
    <3>4. Have(c[1])' = Have(c[1])
      BY <1>1 DEF Have
    <3>5. pc[c] # "handshake"
      BY <1>1
    <3> QED
      BY <1>2, <1>5, <3>2, <3>3, <3>4, <3>5 DEF Faithful, Served
  <2>8. Opens(c)'
    BY <2>1 DEF Opens, n
  <2>9. Faithful(c)'
    BY <2>1, <2>5, <2>6, <2>7, <2>8 DEF Faithful
  <2> QED
    BY <1>5, <2>2, <2>3, <2>9, OneStep
<1>7. CASE c \notin DOMAIN IntegrityMap
  BY <1>3, <1>7
<1>8. CASE /\ IntegrityMap[c] = {}
           /\ IsPeakMapCreated' = [IsPeakMapCreated EXCEPT ![n] = TRUE]
           /\ IsFirstData' = [IsFirstData EXCEPT ![n] = FALSE]
           /\ pc' = [pc EXCEPT ![c] = "store"]
           /\ UNCHANGED <<HashTreeMap, PeakHashMap, ChunkRange, LeafNodeCount,
                          ContentSize, mutexFree, IntegrityMap>>
  <2>1. PeakHashes = {} /\ NumChunks = Leaves
    BY <1>3, <1>8, SentFilled
  <2>2. \A d \in Channels : Received(d)' = Received(d)
    BY <1>8 DEF Received
  <2> HIDE DEF n
  <2>3. /\ ChunkRange'[n] = NumChunks - 1 /\ LeafNodeCount'[n] = Leaves
        /\ PeakHashMap'[n] = PeakHashes
        /\ HashTreeMap'[n] = HashTreeMap[n] \cup PeakHashes
        /\ \A a \in Nodes \ {n} :
              /\ ChunkRange'[a] = ChunkRange[a] /\ LeafNodeCount'[a] = LeafNodeCount[a]
              /\ PeakHashMap'[a] = PeakHashMap[a] /\ HashTreeMap'[a] = HashTreeMap[a]
    BY <1>4, <1>8, <2>1
  <2>4. Received(c)' = {} /\ \A d \in Channels \ {c} : Received(d)' = Received(d)
    BY <1>2, <1>3, <2>1, <2>2
  <2>5. UNCHANGED mutexFree /\ DOMAIN IntegrityMap' = DOMAIN IntegrityMap
    BY <1>8
  <2> QED
    BY <1>6, <1>8, <2>3, <2>4, <2>5
<1>9. CASE \E m \in IntegrityMap[c], k \in Levels : PeakChecked(c, m, k)
  <2>1. PICK m \in PeakHashes, k \in Levels : PeakChecked(c, m, k)
    BY <1>3, <1>9
  <2> DEFINE idx(j) == TreeIndex(SiblingOf(m.Start, j))
             used == PeakUsed(m, k, PeakHashes) \cup {m}
             passes == IsRootHash(HashUp(m.Start, m.Hash, k, PeakTop(m, k),
                                         PeakSiblings(m, k, PeakHashes)))
  <2>2. IsStart(m, PeakHashes) /\ m.End = m.Start + 2^k - 1
    BY <1>3, <2>1 DEF PeakChecked
  <2>3. /\ m.End = NumChunks - 1 /\ PeakLeafCount(m.End) = Leaves
        /\ \A j \in PeakReal(m, k) : idx(j) \in Indexes(PeakHashes \ {m})
        /\ passes /\ used = PeakHashes
    BY <2>2, PeakWay
  <2>4. /\ LeafNodeCount' = [LeafNodeCount EXCEPT ![n] = PeakLeafCount(m.End)]
        /\ \/ \E j \in PeakReal(m, k) : idx(j) \notin Indexes(PeakHashes \ {m})
           \/ ~passes
           \/ /\ ChunkRange' = [ChunkRange EXCEPT ![n] = m.End]
              /\ MoveToTree(c, used)
              /\ PeakHashMap' = [PeakHashMap EXCEPT ![n] = Put(@, used)]
              /\ IsPeakMapCreated' = [IsPeakMapCreated EXCEPT ![n] = TRUE]
              /\ IsFirstData' = [IsFirstData EXCEPT ![n] = FALSE]
              /\ pc' = [pc EXCEPT ![c] = "store"]
              /\ UNCHANGED mutexFree
    BY <1>3, <2>1, Zenon DEF PeakChecked
  <2> HIDE DEF passes, used
  <2>5. /\ ChunkRange' = [ChunkRange EXCEPT ![n] = m.End]
        /\ MoveToTree(c, used)
        /\ PeakHashMap' = [PeakHashMap EXCEPT ![n] = Put(@, used)]
        /\ IsPeakMapCreated' = [IsPeakMapCreated EXCEPT ![n] = TRUE]
        /\ IsFirstData' = [IsFirstData EXCEPT ![n] = FALSE]
        /\ pc' = [pc EXCEPT ![c] = "store"]
        /\ UNCHANGED mutexFree
    BY <2>3, <2>4
  <2>6. Put({}, PeakHashes) = PeakHashes
    <3>1. {} \in SUBSET ContentTree /\ PeakHashes \in SUBSET ContentTree
      BY SentFilled
    <3> QED
      BY <3>1, GenuineMaps
  <2>7. used \in SUBSET Received(c) /\ Received(c) \subseteq Filled
    BY <1>3, <2>3, SentFilled
  <2>8. /\ HashTreeMap'[n] = HashTreeMap[n] \cup used
        /\ \A a \in Nodes \ {n} : HashTreeMap'[a] = HashTreeMap[a]
        /\ Received(c)' = Received(c) \ used
        /\ \A d \in Channels \ {c} : Received(d)' = Received(d)
        /\ DOMAIN IntegrityMap' = DOMAIN IntegrityMap
    BY <1>2, <2>5, <2>7, GenuineMove
  <2> HIDE DEF n
  <2>9. /\ ChunkRange'[n] = NumChunks - 1 /\ LeafNodeCount'[n] = Leaves
        /\ PeakHashMap'[n] = PeakHashes
        /\ \A a \in Nodes \ {n} : /\ ChunkRange'[a] = ChunkRange[a]
                                  /\ LeafNodeCount'[a] = LeafNodeCount[a]
                                  /\ PeakHashMap'[a] = PeakHashMap[a]
    <3>1. /\ ChunkRange'[n] = m.End /\ LeafNodeCount'[n] = PeakLeafCount(m.End)
          /\ PeakHashMap'[n] = Put(PeakHashMap[n], used)
      BY <1>2, <2>4, <2>5 DEF IInv, PlainTypes, HashesKnown
    <3>2. \A a \in Nodes \ {n} : /\ ChunkRange'[a] = ChunkRange[a]
                                 /\ LeafNodeCount'[a] = LeafNodeCount[a]
                                 /\ PeakHashMap'[a] = PeakHashMap[a]
      BY <2>4, <2>5 DEF IInv, PlainTypes, HashesKnown
    <3> QED
      BY <1>4, <2>3, <2>6, <3>1, <3>2
  <2>10. Received(c)' = {} /\ HashTreeMap'[n] = HashTreeMap[n] \cup PeakHashes
    BY <1>3, <2>3, <2>8
  <2> QED
    BY <1>6, <2>5, <2>8, <2>9, <2>10
<1> QED
  BY <1>7, <1>8, <1>9, PeakCases

-----------------------------------------------------------------------------
(* All steps *)

\* Only SendHandShakeHave announces; faults are not taken back.
LEMMA QuietStep ==
    ASSUME IInv, Unannounced, NEW c \in Channels, announced' = announced,
           faults' \in {faults, faults + 1},
           pc' = pc \/ \E label \in {"idle", "data", "first", "store", "rejected"} : goto(c, label)
    PROVE  Unannounced' /\ (Undisturbed' => Undisturbed)
<1>1. \A d \in Channels : pc'[d] = "handshake" => pc[d] = "handshake"
  BY DEF goto, IInv, PlainTypes
<1>2. Unannounced'
  BY <1>1 DEF Unannounced
<1>3. faults' = 0 => faults = 0
  <2>1. faults \in Nat
    BY FaultsAssumption DEF IInv, PlainTypes
  <2> QED
    BY <2>1
<1> QED
  BY <1>2, <1>3 DEF Undisturbed, AnnouncedLeft

\* SendHandShakeHave: what is not announced yet does not disturb.
LEMMA QuietHandShake ==
    ASSUME IInv, Unannounced, NEW c \in Channels, SendHandShakeHave(c)
    PROVE  Unannounced' /\ (Undisturbed' => Undisturbed)
<1>1. /\ pc[c] = "handshake" /\ faults' = faults
      /\ announced' = [announced EXCEPT ![c] = BiggestHavedChunkRange(ChunkRangeList[c[1]])]
      /\ pc' = [pc EXCEPT ![c] = "idle"]
  BY DEF SendHandShakeHave, goto, netVars
<1>2. /\ pc'[c] = "idle"
      /\ \A d \in Channels \ {c} : pc'[d] = pc[d] /\ announced'[d] = announced[d]
  BY <1>1 DEF IInv, PlainTypes
<1>3. Unannounced'
  BY <1>2 DEF Unannounced
<1>4. 2 * announced[c].Start < Leaves
  <2>1. announced[c].Start = -1
    BY <1>1 DEF Unannounced, NoRange
  <2> QED
    BY <2>1, TreeFacts
<1>5. AnnouncedLeft' => AnnouncedLeft
  BY <1>2, <1>4 DEF AnnouncedLeft
<1> QED
  BY <1>1, <1>3, <1>5 DEF Undisturbed

\* A fault disturbs.
LEMMA FaultJ ==
    ASSUME IInv, Unannounced, NEW c \in Channels, NEW kind, Fault(kind),
           announced' = announced, pc' = pc
    PROVE  Unannounced' /\ ~Undisturbed'
<1>1. faults' = faults + 1 /\ faults \in Nat
  BY FaultsAssumption DEF Fault, IInv, PlainTypes
<1>2. Unannounced'
  BY DEF Unannounced
<1>3. faults' # 0
  BY <1>1
<1> QED
  BY <1>2, <1>3 DEF Undisturbed

\* What holds while the invariant holds and nothing disturbs.
DInv == Unannounced /\ (Undisturbed => JInv)

\* Every step preserves it.
LEMMA NextDInv == PeaksCheckable /\ IInv /\ DInv /\ [Next]_vars => DInv'
<1> SUFFICES ASSUME PeaksCheckable, IInv, DInv, [Next]_vars PROVE DInv'
  OBVIOUS
<1>1. CASE UNCHANGED vars
  <2>1. Unannounced' /\ (Undisturbed' <=> Undisturbed)
    BY <1>1 DEF vars, DInv, Unannounced, Undisturbed, AnnouncedLeft
  <2>2. (\A n \in Nodes : Same(n)) /\ (\A d \in Channels : Alone(d)) /\ swarm' = swarm
    BY <1>1 DEF vars, Same, Alone, Received
  <2>3. JInv => JInv'
    <3>1. SUFFICES ASSUME JInv PROVE JInv'
      OBVIOUS
    <3>2. \A n \in Nodes : Forward(n) /\ Tracked(n)'
      BY <2>2, <3>1, SameStays DEF JInv
    <3>3. ASSUME NEW d \in swarm' PROVE Faithful(d)'
      <4>1. d \in swarm /\ d \in Channels /\ Faithful(d) /\ d[1] \in Nodes /\ d[2] \in Nodes
        BY <2>2, <3>1, OpenChannel
      <4> QED
        BY <2>2, <3>2, <4>1, AloneStays
    <3>4. \A d \in Channels \ swarm' : pc'[d] = "handshake"
      BY <2>2, <3>1 DEF JInv, Alone
    <3> QED
      BY <3>2, <3>3, <3>4 DEF JInv
  <2> QED
    BY <2>1, <2>3 DEF DInv
<1>2. ASSUME NEW c \in swarm,
             \/ SendHandShakeHave(c)
             \/ \E i \in 0..(Leaves - 1) : ReceiveRequest(c, i)
             \/ \E m \in integrities[c] \cup delayed[c] : AddIntegrity(c, m)
             \/ \E m \in integrities[c] : Lose(c, m)
             \/ \E late \in SUBSET integrities[c] : Delay(c, late)
             \/ CheckFirstDataIntegrity(c) \/ CheckDataIntegrity(c)
             \/ CheckPeakHash(c) \/ SetData(c) \/ RetryRequest(c)
             \/ Spoil(c)
      PROVE  DInv'
  <2>0. c \in Channels /\ Unannounced /\ (Undisturbed => JInv /\ AnnouncedLeft)
    BY DEF IInv, PlainTypes, Channels, DInv, Undisturbed
  <2>1. CASE SendHandShakeHave(c)
    <3>1. Unannounced' /\ (Undisturbed' => Undisturbed)
      BY <2>0, <2>1, QuietHandShake
    <3> QED
      BY <2>0, <2>1, <3>1, HandShakeJ DEF DInv
  <2>2. CASE \E i \in 0..(Leaves - 1) : ReceiveRequest(c, i)
    <3>1. PICK i \in 0..(Leaves - 1) : ReceiveRequest(c, i)
      BY <2>2
    <3>2. goto(c, "data") /\ announced' = announced /\ faults' = faults
      BY <3>1 DEF ReceiveRequest
    <3>3. Unannounced' /\ (Undisturbed' => Undisturbed)
      BY <2>0, <3>2, QuietStep
    <3> QED
      BY <2>0, <3>1, <3>3, RequestJ DEF DInv
  <2>3. CASE \E m \in integrities[c] \cup delayed[c] : AddIntegrity(c, m)
    <3>1. PICK m \in integrities[c] \cup delayed[c] : AddIntegrity(c, m)
      BY <2>3
    <3>2. pc' = pc /\ announced' = announced /\ faults' = faults
      BY <3>1 DEF AddIntegrity, sendVars
    <3>3. Unannounced' /\ (Undisturbed' => Undisturbed)
      BY <2>0, <3>2, QuietStep
    <3> QED
      BY <2>0, <3>1, <3>3, IntegrityJ DEF DInv
  <2>4. CASE \E m \in integrities[c] : Lose(c, m)
    <3>1. Fault("lose") /\ pc' = pc /\ announced' = announced
      BY <2>4 DEF Lose, sendVars
    <3> QED
      BY <2>0, <3>1, FaultJ DEF DInv
  <2>5. CASE \E late \in SUBSET integrities[c] : Delay(c, late)
    <3>1. Fault("reorder") /\ pc' = pc /\ announced' = announced
      BY <2>5 DEF Delay, sendVars
    <3> QED
      BY <2>0, <3>1, FaultJ DEF DInv
  <2>6. CASE CheckFirstDataIntegrity(c)
    <3>1. /\ goto(c, "first") \/ goto(c, "rejected")
          /\ announced' = announced /\ faults' = faults
      BY <2>6, ZenonT(30) DEF CheckFirstDataIntegrity, Reject, sendVars, netVars
    <3>2. Unannounced' /\ (Undisturbed' => Undisturbed)
      BY <2>0, <3>1, QuietStep
    <3> QED
      BY <2>0, <2>6, <3>2, FirstDataJ DEF DInv
  <2>7. CASE CheckDataIntegrity(c)
    <3>1. /\ goto(c, "first") \/ goto(c, "rejected")
          /\ announced' = announced /\ faults' = faults
      BY <2>7, ZenonT(30) DEF CheckDataIntegrity, Reject, sendVars, netVars
    <3>2. Unannounced' /\ (Undisturbed' => Undisturbed)
      BY <2>0, <3>1, QuietStep
    <3> QED
      BY <2>0, <2>7, <3>2, DataJ DEF DInv
  <2>8. CASE CheckPeakHash(c)
    <3>1. goto(c, "store") \/ goto(c, "rejected")
      BY <2>8, PeakCases, ZenonT(30) DEF PeakChecked, Reject, goto
    <3>2. announced' = announced /\ faults' = faults
      BY <2>8 DEF CheckPeakHash, sendVars, netVars
    <3>3. Unannounced' /\ (Undisturbed' => Undisturbed)
      BY <2>0, <3>1, <3>2, QuietStep
    <3> QED
      BY <2>0, <2>8, <3>3, PeakJ DEF DInv
  <2>9. CASE SetData(c)
    <3>1. goto(c, "idle") /\ announced' = announced /\ faults' = faults
      BY <2>9 DEF SetData, sendVars, netVars
    <3>2. Unannounced' /\ (Undisturbed' => Undisturbed)
      BY <2>0, <3>1, QuietStep
    <3> QED
      BY <2>0, <2>9, <3>2, StoreJ DEF DInv
  <2>10. CASE RetryRequest(c)
    <3>1. goto(c, "idle") /\ announced' = announced /\ faults' = faults
      BY <2>10 DEF RetryRequest, sendVars, netVars
    <3>2. Unannounced' /\ (Undisturbed' => Undisturbed)
      BY <2>0, <3>1, QuietStep
    <3> QED
      BY <2>0, <2>10, <3>2, RetryJ DEF DInv
  <2>11. CASE Spoil(c)
    <3>1. Fault("spoil") /\ pc' = pc /\ announced' = announced
      BY <2>11 DEF Spoil, sendVars
    <3> QED
      BY <2>0, <3>1, FaultJ DEF DInv
  <2> QED
    BY <1>2, <2>1, <2>2, <2>3, <2>4, <2>5, <2>6, <2>7, <2>8, <2>9, <2>10, <2>11
<1> QED
  BY <1>1, <1>2 DEF Next

\* Both invariants hold of every reachable state.
THEOREM UndisturbedHolds == PeaksCheckable => (Spec => [](IInv /\ DInv))
<1> SUFFICES ASSUME PeaksCheckable PROVE Spec => [](IInv /\ DInv)
  OBVIOUS
<1>1. Init => DInv
  BY InitJ DEF DInv
<1>2. IInv /\ DInv /\ [Next]_vars => DInv'
  BY NextDInv
<1> QED
  BY <1>1, <1>2, InitInv, NextInv, PTL DEF Spec

\* The check of the peak hashes finds the last chunk of the content, at a node
\* served by a seeder and at one served by another node: for every content whose
\* peak hashes CheckPeakHash can count with, and every swarm whose announced
\* ranges start in the first half of the tree.
THEOREM LastChunkHolds == PeaksCheckable => (Spec => []LastChunkFound)
<1> SUFFICES ASSUME PeaksCheckable PROVE Spec => []LastChunkFound
  OBVIOUS
<1>1. Spec => [](IInv /\ DInv)
  BY UndisturbedHolds
<1>2. IInv /\ DInv => LastChunkFound
  <2>1. SUFFICES ASSUME IInv, JInv, NEW n \in Nodes, ~IsFirstData[n]
                 PROVE  ChunkRange[n] = NumChunks - 1
    BY DEF DInv, Undisturbed, LastChunkFound
  <2> QED
    BY <2>1 DEF JInv, Tracked, Seeds, Knows
<1> QED
  BY <1>1, <1>2, PTL

\* While no INTEGRITY is lost, spoilt or late, genuine data is not rejected: what
\* GetDataIntegrity and GetPeakHashes have sent on a channel is enough for the
\* checks of every chunk that comes on it.
THEOREM GenuinePassHolds == PeaksCheckable => (Spec => []GenuinePasses)
<1> SUFFICES ASSUME PeaksCheckable PROVE Spec => []GenuinePasses
  OBVIOUS
<1>1. Spec => [](IInv /\ DInv)
  BY UndisturbedHolds
<1>2. IInv /\ DInv => GenuinePasses
  <2>1. SUFFICES ASSUME IInv, JInv, NEW c \in Channels
                 PROVE  ~(pc[c] = "rejected" /\ data[c].ok)
    BY DEF DInv, Undisturbed, GenuinePasses
  <2> QED
    BY <2>1 DEF JInv, Faithful
<1> QED
  BY <1>1, <1>2, PTL

\* CheckPeakHash, the only handler that can keep IntegrityMapMutex, gives it back
\* as long as what is announced starts in the first half of the tree.
THEOREM MutexHolds == PeaksCheckable => (Spec => [](AnnouncedLeft => MutexGivenBack))
<1> SUFFICES ASSUME PeaksCheckable PROVE Spec => [](AnnouncedLeft => MutexGivenBack)
  OBVIOUS
<1>1. Spec => [](IInv /\ DInv)
  BY UndisturbedHolds
<1>2. IInv /\ DInv => (AnnouncedLeft => MutexGivenBack)
  BY DEF DInv, Undisturbed, MutexGivenBack, JInv, Tracked
<1> QED
  BY <1>1, <1>2, PTL
=============================================================================
