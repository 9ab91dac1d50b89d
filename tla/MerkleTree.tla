----------------------------- MODULE MerkleTree -----------------------------
(* The arithmetic of class HashTree: nodes as chunk ranges, their siblings,  *)
(* and hashes as symbolic terms, so that two hashes are equal only when they *)
(* were computed from the same data in the same way.                         *)
EXTENDS ChunkRanges

CONSTANT NumChunks  \* chunks of the content

ASSUME NumChunksAssumption == NumChunks \in Nat \ {0, 1}

\* How far powers of two are computed with.
ASSUME PowersAssumption ==
    2^0 = 1 /\ \A k \in 0..NumChunks : 2^k \in Nat /\ 2^(k + 1) = 2 * 2^k

\* A hash is the prefix form of the term it was computed as. A null pointer
\* stands for the hash of padding, data that is not the content hashes to Bad.
Null == <<>>
Leaf(i) == <<i>>
Bad == <<-3>>

\* SHA_EncryptLR: one null side is replaced by zero bytes, two give a null.
EncryptLR(left, right) ==
    LET bytes(h) == IF h = Null THEN <<-2>> ELSE h
    IN  IF left = Null /\ right = Null
        THEN Null
        ELSE <<-1>> \o bytes(left) \o bytes(right)

\* The node 2^k leaves wide that holds chunk i, and its sibling.
NodeOf(i, k) == LET s == 2^k * (i \div 2^k) IN [Start |-> s, End |-> s + 2^k - 1]

\* _getSiblingIndex
SiblingOf(i, k) ==
    LET r == NodeOf(i, k)
    IN  IF (r.End + 1) % (2 * 2^k) = 0
        THEN [Start |-> r.Start - 2^k, End |-> r.End - 2^k]
        ELSE [Start |-> r.Start + 2^k, End |-> r.End + 2^k]

TreeIndex(r) == r.Start + r.End

\* The hash of NodeOf(i, to), computed from the hash h of NodeOf(i, from) and
\* the hashes sib[k] of the siblings on the way up.
HashUp(i, h, from, to, sib) ==
    LET up[k \in from..to] ==
            IF k = from THEN h
            ELSE IF SiblingOf(i, k - 1).Start > NodeOf(i, k - 1).Start
                 THEN EncryptLR(up[k - 1], sib[k - 1])
                 ELSE EncryptLR(sib[k - 1], up[k - 1])
    IN  up[to]

IsPowerOfTwo(n) == \E k \in 0..n : n = 2^k

\* The number of levels above the leaves of a tree for n chunks.
Depth(n) == Min({k \in 0..n : 2^k >= n})

\* Make: the hash of every node of the tree of n chunks, by level and position.
MakeHash(n) ==
    LET level[k \in 0..Depth(n)] ==
            [b \in 0..(2^(Depth(n) - k) - 1) |->
                IF k = 0 THEN IF b < n THEN Leaf(b) ELSE Null
                ELSE EncryptLR(level[k - 1][2 * b], level[k - 1][2 * b + 1])]
    IN  level

\* A hash tree map: at most one node under each index.
Put(map, nodes) ==
    nodes \cup {m \in map : \A p \in nodes : TreeIndex(p) # TreeIndex(m)}

Indexes(map) == {TreeIndex(m) : m \in map}

At(map, idx) == CHOOSE m \in map : TreeIndex(m) = idx

\* The node r with a hash.
Node(r, h) == [Start |-> r.Start, End |-> r.End, Hash |-> h]

\* Make: every node of the tree of n chunks, those of padding without a hash.
Make(n) ==
    {Node(NodeOf(i, k), MakeHash(n)[k][i \div 2^k]) :
        i \in 0..(2^Depth(n) - 1), k \in 0..Depth(n)}

-----------------------------------------------------------------------------
(* The tree of the content *)

Chunks  == 0..(NumChunks - 1)
Height  == Depth(NumChunks)
Leaves  == 2^Height
Levels  == 0..Height

\* The nodes of the tree.
Ranges == {NodeOf(i, k) : i \in 0..(Leaves - 1), k \in Levels}

\* The siblings on the way up from level k to level top, above chunk i.
Siblings(i, k, top) == {SiblingOf(i, j) : j \in k..(top - 1)}
Padding(r) == r.Start >= NumChunks

\* The level below which the siblings have an index up to last.
Top(i, k, last) ==
    Min({j \in k..(Height + 1) : TreeIndex(SiblingOf(i, j)) > last})

\* The peak hashes of the content, as a seeder sends them: none of a full tree.
ContentPeaks ==
    {r \in {NodeOf(i, k) : i \in Chunks, k \in Levels} :
        /\ ~IsPowerOfTwo(NumChunks)
        /\ r.End < NumChunks
        /\ \E k \in Levels : /\ r = NodeOf(r.Start, k)
                             /\ SiblingOf(r.Start, k).End >= NumChunks}

-----------------------------------------------------------------------------
(* Peak hashes *)

\* Mutant of IsStart: the hash with the first end.
IsFirstEnd(m, map) == \A p \in map : m.End <= p.End

\* The node CheckPeakHash starts from: any hash of a leaf, else the one with
\* the last end.
IsStart(m, map) ==
    IF \E p \in map : p.Start = p.End
    THEN m.Start = m.End
    ELSE \A p \in map : p.End <= m.End

\* Mutant of PeakLeafCount: twice the last chunk, whatever that is.
PeakLeafCountDoubled(end) == 2 * end

\* The LeafNodeCount it computes for a last chunk end, and the highest index
\* it goes up to.
PeakLeafCount(end) ==
    LET idx == IF end % 2 # 0 THEN end + 1 ELSE end
    IN  IF idx = 0 THEN 0 ELSE 2^Depth(idx)

LastIndex(count) == IF count = 0 THEN -1 ELSE 2 * (count - 1)
=============================================================================
