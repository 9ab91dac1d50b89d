-------------------------- MODULE MerkleTreeProofs --------------------------
(* The geometry of the hash tree: nodes, their siblings and parents, the     *)
(* depth of a tree, and the indexes by which the checks know where to stop;  *)
(* and what a hash is made of, that of a way up or of a node of the tree.    *)
EXTENDS MerkleTree, ChunkRangesProofs

\* The leaves below a node of level k. What is assumed of them, since the prover
\* has no rules for powers: up to n, each is twice the one before.
Width(k) == 2^k

Doubling(n) == Width(0) = 1 /\ \A k \in 0..n : Width(k) \in Nat /\ Width(k + 1) = 2 * Width(k)

-----------------------------------------------------------------------------
(* Powers of two *)

\* Powers of two are positive.
LEMMA PowerPositive ==
    ASSUME NEW n \in Nat, Doubling(n), NEW k \in 0..(n + 1)
    PROVE  Width(k) \in Nat \ {0}
<1> DEFINE Wrong == {j \in 0..(n + 1) : Width(j) \notin Nat \ {0}}
<1>1. SUFFICES ASSUME Wrong # {} PROVE FALSE
  OBVIOUS
<1> HIDE DEF Wrong
<1>2. Wrong \in SUBSET Nat
  BY DEF Wrong
<1>3. Min(Wrong) \in Wrong /\ \A j \in Wrong : Min(Wrong) <= j
  BY <1>1, <1>2, MinInSet
<1> DEFINE j == Min(Wrong) - 1
<1>4. Min(Wrong) # 0
  <2>1. 0 \notin Wrong
    BY DEF Wrong, Doubling
  <2> QED
    BY <1>3, <2>1
<1>5. j \in 0..n /\ j \notin Wrong /\ Min(Wrong) = j + 1
  BY <1>3, <1>4 DEF Wrong
<1>6. Width(j) \in Nat \ {0}
  BY <1>5 DEF Wrong
<1>7. Width(j + 1) = 2 * Width(j)
  BY <1>5 DEF Doubling
<1> QED
  BY <1>3, <1>5, <1>6, <1>7 DEF Wrong

\* They grow, at least twofold from one to the next.
LEMMA PowersGrow ==
    ASSUME NEW n \in Nat, Doubling(n),
           NEW j \in 0..(n + 1), NEW k \in 0..(n + 1), j < k
    PROVE  2 * Width(j) <= Width(k)
<1> DEFINE Wrong == {l \in (j + 1)..(n + 1) : ~(2 * Width(j) <= Width(l))}
<1>1. SUFFICES ASSUME Wrong # {} PROVE FALSE
  <2>1. k \in (j + 1)..(n + 1)
    OBVIOUS
  <2> QED
    BY <2>1
<1> HIDE DEF Wrong
<1>2. Wrong \in SUBSET Nat
  BY DEF Wrong
<1>3. Min(Wrong) \in Wrong /\ \A l \in Wrong : Min(Wrong) <= l
  BY <1>1, <1>2, MinInSet
<1> DEFINE l == Min(Wrong) - 1
<1>4. Min(Wrong) = l + 1 /\ l \in j..n /\ ~(2 * Width(j) <= Width(l + 1))
  BY <1>3 DEF Wrong
<1>5. Width(l + 1) = 2 * Width(l) /\ Width(l) \in Nat
  BY <1>4 DEF Doubling
<1>6. l # j
  BY <1>4, <1>5
<1>7. l \notin Wrong /\ l \in (j + 1)..(n + 1)
  BY <1>3, <1>4, <1>6
<1>8. 2 * Width(j) <= Width(l)
  BY <1>7 DEF Wrong
<1>9. Width(j) \in Nat
  BY PowerPositive
<1> QED
  BY <1>4, <1>5, <1>8, <1>9

\* The n-th power of two is beyond n.
LEMMA PowerBeyond ==
    ASSUME NEW n \in Nat, Doubling(n), NEW k \in 0..(n + 1)
    PROVE  Width(k) >= k + 1
<1> DEFINE Wrong == {j \in 0..(n + 1) : ~(Width(j) >= j + 1)}
<1>1. SUFFICES ASSUME Wrong # {} PROVE FALSE
  OBVIOUS
<1> HIDE DEF Wrong
<1>2. Wrong \in SUBSET Nat
  BY DEF Wrong
<1>3. Min(Wrong) \in Wrong /\ \A j \in Wrong : Min(Wrong) <= j
  BY <1>1, <1>2, MinInSet
<1> DEFINE j == Min(Wrong) - 1
<1>4. Min(Wrong) # 0
  <2>1. 0 \notin Wrong
    BY DEF Wrong, Doubling
  <2> QED
    BY <1>3, <2>1
<1>5. j \in 0..n /\ j \notin Wrong /\ Min(Wrong) = j + 1
  BY <1>3, <1>4 DEF Wrong
<1>6. Width(j) >= j + 1
  BY <1>5 DEF Wrong
<1>7. Width(j + 1) = 2 * Width(j) /\ Width(j) \in Nat
  BY <1>5 DEF Doubling
<1> QED
  BY <1>3, <1>5, <1>6, <1>7 DEF Wrong

\* Depth: the least level whose nodes are wide enough for m leaves.
LEMMA DepthFacts ==
    ASSUME NEW n \in Nat, Doubling(n), NEW h \in 0..(n + 1), NEW m \in Nat,
           m <= Width(h)
    PROVE  /\ Depth(m) \in 0..h /\ Width(Depth(m)) >= m
           /\ \A k \in 0..h : k < Depth(m) => Width(k) < m
<1> DEFINE Enough == {k \in 0..m : Width(k) >= m}
<1>1. Enough \in SUBSET Nat
  OBVIOUS
<1>2. \E k \in Enough : k <= h
  <2>1. CASE m <= h
    <3>1. Width(m) \in Nat /\ Width(m) >= m + 1
      BY <2>1, PowerPositive, PowerBeyond
    <3> QED
      BY <2>1, <3>1
  <2>2. CASE ~(m <= h)
    BY <2>2
  <2> QED
    BY <2>1, <2>2
<1>3. Depth(m) = Min(Enough)
  BY DEF Depth, Width
<1>4. Depth(m) \in Enough /\ \A k \in Enough : Depth(m) <= k
  BY <1>1, <1>2, <1>3, MinInSet
<1>5. \A k \in 0..h : Width(k) \in Nat
  BY PowerPositive
<1> QED
  BY <1>2, <1>4, <1>5

\* It is the only level h that is wide enough while the one below is not.
LEMMA DepthIs ==
    ASSUME NEW n \in Nat, Doubling(n), NEW h \in 0..(n + 1), NEW m \in Nat,
           m <= Width(h), h = 0 \/ Width(h - 1) < m
    PROVE  Depth(m) = h
<1>1. /\ Depth(m) \in 0..h /\ Width(Depth(m)) >= m
  BY DepthFacts
<1>2. SUFFICES ASSUME Depth(m) < h PROVE FALSE
  BY <1>1
<1>3. h - 1 \in 0..(n + 1) /\ Depth(m) \in 0..(n + 1) /\ Depth(m) <= h - 1
  BY <1>1, <1>2
<1>4. Width(Depth(m)) \in Nat /\ Width(h - 1) \in Nat
  BY <1>3, PowerPositive
<1>5. Depth(m) = h - 1 \/ 2 * Width(Depth(m)) <= Width(h - 1)
  BY <1>3, PowersGrow
<1> QED
  BY <1>1, <1>2, <1>4, <1>5

-----------------------------------------------------------------------------
(* Nodes *)

\* Quotients: the multiple of w at or below i is less than w away.
LEMMA Division ==
    ASSUME NEW i \in Nat, NEW w \in Nat \ {0}
    PROVE  /\ i \div w \in Nat
           /\ w * (i \div w) <= i /\ i < w * (i \div w) + w
OBVIOUS

\* The quotient is the only one with a remainder below the divisor.
LEMMA DivisionUnique ==
    ASSUME NEW i \in Nat, NEW w \in Nat \ {0}, NEW q \in Int,
           w * q <= i, i < w * q + w
    PROVE  i \div w = q
OBVIOUS

\* An even multiple of a number is a multiple of its double.
LEMMA EvenMultiple ==
    ASSUME NEW q \in Nat, NEW w \in Nat \ {0}
    PROVE  (w * q) % (2 * w) = 0 <=> q % 2 = 0
OBVIOUS

\* A node of level k holds its chunk and is Width(k) wide.
LEMMA NodeFacts ==
    ASSUME NEW n \in Nat, Doubling(n), NEW i \in Nat, NEW k \in 0..(n + 1)
    PROVE  /\ NodeOf(i, k).Start \in Nat /\ NodeOf(i, k).End \in Nat
           /\ NodeOf(i, k).Start <= i /\ i <= NodeOf(i, k).End
           /\ NodeOf(i, k).End = NodeOf(i, k).Start + Width(k) - 1
<1>1. Width(k) \in Nat \ {0}
  BY PowerPositive
<1> DEFINE w == Width(k)
<1>2. /\ i \div w \in Nat
      /\ w * (i \div w) <= i /\ i < w * (i \div w) + w
  BY <1>1, Division
<1>3. w * (i \div w) \in Nat
  BY <1>1, <1>2
<1> QED
  BY <1>1, <1>2, <1>3 DEF NodeOf, Width

\* A node is known by its start and its end.
LEMMA NodeRecords ==
    ASSUME NEW i, NEW k
    PROVE  /\ NodeOf(i, k) = [Start |-> NodeOf(i, k).Start,
                              End |-> NodeOf(i, k).End]
           /\ SiblingOf(i, k) = [Start |-> SiblingOf(i, k).Start,
                                 End |-> SiblingOf(i, k).End]
BY DEF NodeOf, SiblingOf

\* The chunks of a node have the same node.
LEMMA NodeSame ==
    ASSUME NEW n \in Nat, Doubling(n), NEW i \in Nat, NEW k \in 0..(n + 1),
           NEW j \in Nat, NodeOf(i, k).Start <= j, j <= NodeOf(i, k).End
    PROVE  NodeOf(j, k) = NodeOf(i, k)
<1>1. Width(k) \in Nat \ {0}
  BY PowerPositive
<1> DEFINE w == Width(k)
           q == i \div w
<1>2. q \in Nat
  BY <1>1, Division
<1>3. w * q <= j /\ j < w * q + w
  BY <1>1, <1>2 DEF NodeOf, Width
<1>4. j \div w = q
  BY <1>1, <1>2, <1>3, DivisionUnique
<1> QED
  BY <1>4 DEF NodeOf, Width

\* A node and its sibling are the two halves of their parent.
LEMMA Halves ==
    ASSUME NEW n \in Nat, Doubling(n), NEW i \in Nat, NEW k \in 0..n
    PROVE  LET r == NodeOf(i, k)
               s == SiblingOf(i, k)
               p == NodeOf(i, k + 1)
           IN  /\ s.Start \in Nat /\ s.End \in Nat
               /\ s.End = s.Start + Width(k) - 1
               /\ \/ /\ s.Start = r.End + 1
                     /\ p.Start = r.Start /\ p.End = s.End
                  \/ /\ s.End = r.Start - 1
                     /\ p.Start = s.Start /\ p.End = r.End
<1> DEFINE w == Width(k)
           q == i \div w
           r == NodeOf(i, k)
<1>1. w \in Nat \ {0} /\ Width(k + 1) = 2 * w
  BY PowerPositive DEF Doubling
<1>2. q \in Nat /\ w * q <= i /\ i < w * q + w
  BY <1>1, Division
<1>3. r = [Start |-> w * q, End |-> w * q + w - 1] /\ w * q \in Nat
  BY <1>1, <1>2 DEF NodeOf, Width
<1>4. r.End + 1 = w * (q + 1)
  BY <1>1, <1>2, <1>3
<1>5. (r.End + 1) % (2 * w) = 0 <=> (q + 1) % 2 = 0
  <2>1. (w * (q + 1)) % (2 * w) = 0 <=> (q + 1) % 2 = 0
    BY <1>1, <1>2, EvenMultiple
  <2> QED
    BY <1>4, <2>1
<1>6. 2 * w \in Nat \ {0}
  BY <1>1
<1>7. CASE q % 2 = 0
  <2>1. PICK h \in Nat : q = 2 * h
    BY <1>2, <1>7
  <2>2. (2 * w) * h = w * q
    BY <1>1, <1>2, <2>1
  <2>3. (2 * w) * h <= i /\ i < (2 * w) * h + 2 * w
    BY <1>1, <1>2, <2>2
  <2>4. i \div (2 * w) = h
    BY <1>6, <2>1, <2>3, DivisionUnique
  <2>5. NodeOf(i, k + 1) = [Start |-> w * q, End |-> w * q + 2 * w - 1]
    BY <1>1, <2>2, <2>4 DEF NodeOf, Width
  <2>6. (q + 1) % 2 # 0
    BY <1>2, <1>7
  <2>7. SiblingOf(i, k) = [Start |-> r.Start + w, End |-> r.End + w]
    BY <1>5, <2>6 DEF SiblingOf, Width
  <2> QED
    BY <1>1, <1>2, <1>3, <2>5, <2>7
<1>8. CASE q % 2 # 0
  <2>1. PICK h \in Nat : q = 2 * h + 1
    BY <1>2, <1>8
  <2>2. (2 * w) * h = w * q - w
    BY <1>1, <1>2, <2>1
  <2>3. (2 * w) * h <= i /\ i < (2 * w) * h + 2 * w
    BY <1>1, <1>2, <2>2
  <2>4. i \div (2 * w) = h
    BY <1>6, <2>1, <2>3, DivisionUnique
  <2>5. /\ NodeOf(i, k + 1) = [Start |-> w * q - w, End |-> w * q + w - 1]
        /\ w * q - w \in Nat
    <3>1. (2 * w) * h \in Nat
      BY <1>6, <2>1
    <3> QED
      BY <1>1, <2>2, <2>4, <3>1 DEF NodeOf, Width
  <2>6. (q + 1) % 2 = 0
    BY <1>2, <1>8
  <2>7. SiblingOf(i, k) = [Start |-> r.Start - w, End |-> r.End - w]
    BY <1>5, <2>6 DEF SiblingOf, Width
  <2> QED
    BY <1>1, <1>2, <1>3, <2>5, <2>7
<1> QED
  BY <1>7, <1>8

\* Of siblings, each is the sibling of the other.
LEMMA SiblingOfSibling ==
    ASSUME NEW n \in Nat, Doubling(n), NEW i \in Nat, NEW k \in 0..n
    PROVE  LET s == SiblingOf(i, k)
           IN  /\ s.Start \in Nat
               /\ NodeOf(s.Start, k) = s /\ SiblingOf(s.Start, k) = NodeOf(i, k)
<1> DEFINE r == NodeOf(i, k)
           s == SiblingOf(i, k)
           p == NodeOf(i, k + 1)
           j == s.Start
<1>1. Width(k) \in Nat \ {0} /\ k \in 0..(n + 1) /\ k + 1 \in 0..(n + 1)
  BY PowerPositive
<1>2. /\ s.Start \in Nat /\ s.End \in Nat
      /\ s.End = s.Start + Width(k) - 1
      /\ \/ s.Start = r.End + 1 /\ p.Start = r.Start /\ p.End = s.End
         \/ s.End = r.Start - 1 /\ p.Start = s.Start /\ p.End = r.End
  BY Halves
<1>3. /\ r.Start \in Nat /\ r.End = r.Start + Width(k) - 1
  BY <1>1, NodeFacts
<1>4. NodeOf(j, k + 1) = p
  <2>1. p.Start <= j /\ j <= p.End
    BY <1>1, <1>2, <1>3
  <2> QED
    BY <1>1, <1>2, <2>1, NodeSame
<1> DEFINE a == NodeOf(j, k)
           b == SiblingOf(j, k)
<1>5. /\ b.Start \in Nat /\ b.End \in Nat
      /\ b.End = b.Start + Width(k) - 1
      /\ \/ b.Start = a.End + 1 /\ p.Start = a.Start /\ p.End = b.End
         \/ b.End = a.Start - 1 /\ p.Start = b.Start /\ p.End = a.End
  <2> HIDE DEF j
  <2>1. j \in Nat /\ NodeOf(j, k + 1) = p
    BY <1>2, <1>4 DEF j
  <2> HIDE DEF p
  <2> QED
    BY <2>1, Halves
<1>6. /\ a.Start \in Nat /\ a.End = a.Start + Width(k) - 1
      /\ a.Start <= j /\ j <= a.End
  BY <1>1, <1>2, NodeFacts
<1>7. a.Start = s.Start /\ a.End = s.End /\ b.Start = r.Start /\ b.End = r.End
  <2> HIDE DEF a, b, r, s, p
  <2> QED
    BY <1>1, <1>2, <1>3, <1>5, <1>6 DEF j
<1>8. /\ a = [Start |-> a.Start, End |-> a.End]
      /\ b = [Start |-> b.Start, End |-> b.End]
      /\ r = [Start |-> r.Start, End |-> r.End]
      /\ s = [Start |-> s.Start, End |-> s.End]
  BY NodeRecords
<1> QED
  <2> HIDE DEF a, b, r, s, p
  <2>1. a = s /\ b = r /\ s.Start \in Nat
    BY <1>2, <1>7, <1>8
  <2> QED
    BY <2>1 DEF a, b, r, s

\* The nodes above a chunk are nested.
LEMMA Nested ==
    ASSUME NEW n \in Nat, Doubling(n), NEW i \in Nat,
           NEW j \in 0..(n + 1), NEW k \in 0..(n + 1), j <= k
    PROVE  /\ NodeOf(i, k).Start <= NodeOf(i, j).Start
           /\ NodeOf(i, j).End <= NodeOf(i, k).End
<1> DEFINE In(l) == /\ NodeOf(i, l).Start <= NodeOf(i, j).Start
                    /\ NodeOf(i, j).End <= NodeOf(i, l).End
           Wrong == {l \in j..(n + 1) : ~In(l)}
<1>1. SUFFICES ASSUME Wrong # {} PROVE FALSE
  <2>1. k \in j..(n + 1)
    OBVIOUS
  <2> QED
    BY <2>1
<1>2. In(j)
  BY NodeFacts
<1> HIDE DEF In
<1>3. Wrong \in SUBSET Nat
  OBVIOUS
<1> HIDE DEF Wrong
<1>4. Min(Wrong) \in Wrong /\ \A l \in Wrong : Min(Wrong) <= l
  BY <1>1, <1>3, MinInSet
<1> DEFINE l == Min(Wrong) - 1
<1>5. Min(Wrong) # j
  <2>1. j \notin Wrong
    BY <1>2 DEF Wrong
  <2> QED
    BY <1>4, <2>1
<1>6. l \in j..n /\ l \notin Wrong /\ Min(Wrong) = l + 1
  BY <1>4, <1>5 DEF Wrong
<1>7. In(l) /\ ~In(l + 1)
  BY <1>4, <1>6 DEF Wrong
<1>8. /\ NodeOf(i, l + 1).Start <= NodeOf(i, l).Start
      /\ NodeOf(i, l).End <= NodeOf(i, l + 1).End
      /\ l \in 0..n
  <2>1. l \in 0..n /\ l \in 0..(n + 1) /\ l + 1 \in 0..(n + 1)
    BY <1>6
  <2>2. Width(l) \in Nat \ {0}
    BY <2>1, PowerPositive
  <2> DEFINE r == NodeOf(i, l)
             s == SiblingOf(i, l)
             p == NodeOf(i, l + 1)
  <2>3. /\ s.Start \in Nat /\ s.End \in Nat /\ s.End = s.Start + Width(l) - 1
        /\ \/ s.Start = r.End + 1 /\ p.Start = r.Start /\ p.End = s.End
           \/ s.End = r.Start - 1 /\ p.Start = s.Start /\ p.End = r.End
    BY <2>1, Halves
  <2>4. r.Start \in Nat /\ r.End \in Nat /\ r.End = r.Start + Width(l) - 1
    BY <2>1, NodeFacts
  <2> HIDE DEF r, s, p
  <2>5. p.Start <= r.Start /\ r.End <= p.End
    BY <2>2, <2>3, <2>4
  <2> QED
    BY <2>1, <2>5 DEF r, p
<1>9. /\ NodeOf(i, l + 1).Start \in Nat /\ NodeOf(i, l + 1).End \in Nat
      /\ NodeOf(i, l).Start \in Nat /\ NodeOf(i, l).End \in Nat
      /\ NodeOf(i, j).Start \in Nat /\ NodeOf(i, j).End \in Nat
  <2>1. l \in 0..(n + 1) /\ l + 1 \in 0..(n + 1)
    BY <1>8
  <2> QED
    BY <2>1, NodeFacts
<1> QED
  BY <1>7, <1>8, <1>9 DEF In

\* The root of 2^h leaves is above all of them.
LEMMA RootNode ==
    ASSUME NEW n \in Nat, Doubling(n), NEW h \in 0..(n + 1),
           NEW i \in 0..(Width(h) - 1)
    PROVE  NodeOf(i, h) = [Start |-> 0, End |-> Width(h) - 1]
<1>1. Width(h) \in Nat \ {0} /\ i \in Nat
  BY PowerPositive
<1>2. i \div Width(h) = 0
  <2> DEFINE w == Width(h)
  <2>1. w \in Nat \ {0} /\ w * 0 <= i /\ i < w * 0 + w
    BY <1>1
  <2> HIDE DEF w
  <2>2. i \div w = 0
    BY <1>1, <2>1, DivisionUnique
  <2> QED
    BY <2>2 DEF w
<1> QED
  BY <1>1, <1>2 DEF NodeOf, Width

\* Below the root a sibling is within the tree, and its index at most that of
\* the last leaf.
LEMMA SiblingWithin ==
    ASSUME NEW n \in Nat, Doubling(n), NEW h \in 0..(n + 1),
           NEW i \in 0..(Width(h) - 1), NEW k \in 0..(h - 1)
    PROVE  LET s == SiblingOf(i, k)
           IN  /\ s.Start \in Nat /\ s.End \in Nat /\ s.Start <= s.End
               /\ s.End <= Width(h) - 1 /\ TreeIndex(s) <= 2 * (Width(h) - 1)
<1>1. /\ Width(h) \in Nat \ {0} /\ Width(k) \in Nat \ {0} /\ i \in Nat
      /\ k \in 0..n /\ k + 1 \in 0..(n + 1) /\ k + 1 <= h
  BY PowerPositive
<1>2. NodeOf(i, k + 1).End <= Width(h) - 1
  <2>1. NodeOf(i, k + 1).End <= NodeOf(i, h).End
    BY <1>1, Nested
  <2>2. NodeOf(i, h) = [Start |-> 0, End |-> Width(h) - 1]
    BY RootNode
  <2> QED
    BY <2>1, <2>2
<1>3. /\ NodeOf(i, k).Start \in Nat /\ NodeOf(i, k).End \in Nat
      /\ NodeOf(i, k).End = NodeOf(i, k).Start + Width(k) - 1
  <2>1. k \in 0..(n + 1)
    BY <1>1
  <2> QED
    BY <1>1, <2>1, NodeFacts
<1> DEFINE s == SiblingOf(i, k)
<1>4. /\ s.Start \in Nat /\ s.End \in Nat
      /\ s.End = s.Start + Width(k) - 1
      /\ s.End <= NodeOf(i, k + 1).End
  <2> DEFINE r == NodeOf(i, k)
             p == NodeOf(i, k + 1)
  <2>1. /\ s.Start \in Nat /\ s.End \in Nat /\ s.End = s.Start + Width(k) - 1
        /\ \/ s.Start = r.End + 1 /\ p.Start = r.Start /\ p.End = s.End
           \/ s.End = r.Start - 1 /\ p.Start = s.Start /\ p.End = r.End
    BY <1>1, Halves
  <2> HIDE DEF r, s, p
  <2>2. r.Start \in Nat /\ r.End = r.Start + Width(k) - 1
    BY <1>3 DEF r
  <2>3. s.End <= p.End
    BY <1>1, <2>1, <2>2
  <2> QED
    BY <2>1, <2>3 DEF p
<1> HIDE DEF s
<1>5. s.End <= Width(h) - 1 /\ s.Start <= s.End
  <2>1. NodeOf(i, k + 1).End \in Nat
    BY <1>1, NodeFacts
  <2> QED
    BY <1>1, <1>2, <1>4, <2>1
<1>6. TreeIndex(s) <= 2 * (Width(h) - 1)
  BY <1>1, <1>4, <1>5 DEF TreeIndex
<1> QED
  BY <1>4, <1>5, <1>6 DEF s

\* The sibling of the root is beyond.
LEMMA SiblingOfRoot ==
    ASSUME NEW n \in Nat, Doubling(n), NEW h \in 0..n, NEW i \in 0..(Width(h) - 1)
    PROVE  /\ SiblingOf(i, h).Start = Width(h)
           /\ SiblingOf(i, h).End = 2 * Width(h) - 1
           /\ TreeIndex(SiblingOf(i, h)) > 2 * (Width(h) - 1)
<1>1. Width(h) \in Nat \ {0} /\ i \in Nat /\ h \in 0..(n + 1)
  BY PowerPositive
<1>2. NodeOf(i, h) = [Start |-> 0, End |-> Width(h) - 1]
  BY <1>1, RootNode
<1>3. SiblingOf(i, h).Start = Width(h) /\ SiblingOf(i, h).End = 2 * Width(h) - 1
  BY <1>1, <1>2, Halves
<1> QED
  BY <1>1, <1>3 DEF TreeIndex

\* A node has one level.
LEMMA LevelUnique ==
    ASSUME NEW n \in Nat, Doubling(n), NEW i \in Nat, NEW j \in Nat,
           NEW k \in 0..(n + 1), NEW l \in 0..(n + 1), NodeOf(i, k) = NodeOf(j, l)
    PROVE  k = l
<1>1. Width(k) \in Nat \ {0} /\ Width(l) \in Nat \ {0}
  BY PowerPositive
<1>2. /\ NodeOf(i, k).End = NodeOf(i, k).Start + Width(k) - 1
      /\ NodeOf(j, l).End = NodeOf(j, l).Start + Width(l) - 1
      /\ NodeOf(i, k).Start \in Nat /\ NodeOf(j, l).Start \in Nat
  BY NodeFacts
<1>3. Width(k) = Width(l)
  BY <1>1, <1>2
<1>4. k < l => 2 * Width(k) <= Width(l)
  BY PowersGrow
<1>5. l < k => 2 * Width(l) <= Width(k)
  BY PowersGrow
<1> QED
  BY <1>1, <1>3, <1>4, <1>5

\* Chunks with the same node have the same sibling, and the same nodes and
\* siblings further up.
LEMMA AboveSame ==
    ASSUME NEW n \in Nat, Doubling(n), NEW i \in Nat, NEW j \in Nat,
           NEW k \in 0..(n + 1), NEW l \in k..(n + 1), NodeOf(i, k) = NodeOf(j, k)
    PROVE  NodeOf(i, l) = NodeOf(j, l) /\ SiblingOf(i, l) = SiblingOf(j, l)
<1>1. k \in 0..(n + 1) /\ l \in 0..(n + 1) /\ k <= l
  OBVIOUS
<1>2. NodeOf(i, k).Start <= j /\ j <= NodeOf(i, k).End
  BY <1>1, NodeFacts
<1>3. /\ NodeOf(i, l).Start <= NodeOf(i, k).Start
      /\ NodeOf(i, k).End <= NodeOf(i, l).End
  BY <1>1, Nested
<1>4. /\ NodeOf(i, l).Start \in Nat /\ NodeOf(i, l).End \in Nat
      /\ NodeOf(i, k).Start \in Nat /\ NodeOf(i, k).End \in Nat
  BY <1>1, NodeFacts
<1>5. NodeOf(i, l).Start <= j /\ j <= NodeOf(i, l).End
  BY <1>2, <1>3, <1>4
<1>6. NodeOf(j, l) = NodeOf(i, l)
  BY <1>1, <1>5, NodeSame
<1> QED
  BY <1>6 DEF SiblingOf

-----------------------------------------------------------------------------
(* What a hash is made of *)

\* The symbols of a term.
Parts(h) == {h[j] : j \in DOMAIN h}

\* Those of two terms one after the other.
LEMMA ConcatParts ==
    ASSUME NEW s \in Seq(Int), NEW t \in Seq(Int)
    PROVE  s \o t \in Seq(Int) /\ Parts(s \o t) = Parts(s) \cup Parts(t)
<1>1. /\ s \o t \in Seq(Int) /\ Len(s \o t) = Len(s) + Len(t)
      /\ Len(s) \in Nat /\ Len(t) \in Nat
      /\ \A i \in 1..(Len(s) + Len(t)) :
            (s \o t)[i] = IF i <= Len(s) THEN s[i] ELSE t[i - Len(s)]
  BY ConcatProperties
<1>2. /\ DOMAIN s = 1..Len(s) /\ DOMAIN t = 1..Len(t)
      /\ DOMAIN (s \o t) = 1..(Len(s) + Len(t))
  BY <1>1
<1> DEFINE u == s \o t
           m == Len(s)
           n == Len(t)
<1>3. /\ m \in Nat /\ n \in Nat
      /\ DOMAIN s = 1..m /\ DOMAIN t = 1..n /\ DOMAIN u = 1..(m + n)
      /\ \A i \in 1..(m + n) : u[i] = IF i <= m THEN s[i] ELSE t[i - m]
  BY <1>1, <1>2
<1> HIDE DEF u, m, n
<1>4. ASSUME NEW j \in DOMAIN u PROVE u[j] \in Parts(s) \cup Parts(t)
  <2>1. CASE j <= m
    BY <1>3, <1>4, <2>1 DEF Parts
  <2>2. CASE j > m
    <3>1. j - m \in 1..n /\ u[j] = t[j - m]
      BY <1>3, <1>4, <2>2
    <3> QED
      BY <1>3, <3>1 DEF Parts
  <2> QED
    BY <1>3, <1>4, <2>1, <2>2
<1>5. ASSUME NEW j \in DOMAIN s PROVE s[j] \in Parts(u)
  <2>1. j \in DOMAIN u /\ u[j] = s[j]
    BY <1>3, <1>5
  <2> QED
    BY <2>1 DEF Parts
<1>6. ASSUME NEW j \in DOMAIN t PROVE t[j] \in Parts(u)
  <2>1. m + j \in DOMAIN u /\ u[m + j] = t[j]
    BY <1>3, <1>6
  <2> QED
    BY <2>1 DEF Parts
<1>7. Parts(u) = Parts(s) \cup Parts(t)
  BY <1>4, <1>5, <1>6 DEF Parts
<1> QED
  BY <1>1, <1>7 DEF u

\* A leaf has one symbol, and so have the stand-ins.
LEMMA LeafParts ==
    /\ \A i \in Int : Leaf(i) \in Seq(Int) /\ Parts(Leaf(i)) = {i}
    /\ Bad \in Seq(Int) /\ Parts(Bad) = {-3}
    /\ Null \in Seq(Int) /\ Parts(Null) = {}
    /\ <<-1>> \in Seq(Int) /\ Parts(<<-1>>) = {-1}
    /\ <<-2>> \in Seq(Int) /\ Parts(<<-2>>) = {-2}
<1>1. \A i \in Int : <<i>> \in Seq(Int) /\ Parts(<<i>>) = {i}
  BY DEF Parts
<1>2. <<>> \in Seq(Int) /\ Parts(<<>>) = {}
  BY DEF Parts
<1> QED
  BY <1>1, <1>2 DEF Leaf, Bad, Null

\* The hash of two is made of what they are made of.
LEMMA EncryptParts ==
    ASSUME NEW l \in Seq(Int), NEW r \in Seq(Int)
    PROVE  /\ EncryptLR(l, r) \in Seq(Int)
           /\ Parts(l) \cup Parts(r) \subseteq Parts(EncryptLR(l, r))
           /\ Parts(EncryptLR(l, r)) \subseteq Parts(l) \cup Parts(r) \cup {-1, -2}
<1> DEFINE bytes(h) == IF h = Null THEN <<-2>> ELSE h
           a == bytes(l)
           b == bytes(r)
<1>1. ASSUME NEW h \in Seq(Int)
      PROVE  /\ bytes(h) \in Seq(Int) /\ Parts(h) \subseteq Parts(bytes(h))
             /\ Parts(bytes(h)) \subseteq Parts(h) \cup {-2}
  <2>1. CASE h = Null
    BY <2>1, LeafParts
  <2>2. CASE h # Null
    BY <1>1, <2>2
  <2> QED
    BY <2>1, <2>2
<1>2. CASE l = Null /\ r = Null
  BY <1>2, LeafParts DEF EncryptLR
<1>3. CASE ~(l = Null /\ r = Null)
  <2>1. EncryptLR(l, r) = <<-1>> \o a \o b
    BY <1>3 DEF EncryptLR
  <2>2. /\ a \in Seq(Int) /\ Parts(l) \subseteq Parts(a)
        /\ Parts(a) \subseteq Parts(l) \cup {-2}
        /\ b \in Seq(Int) /\ Parts(r) \subseteq Parts(b)
        /\ Parts(b) \subseteq Parts(r) \cup {-2}
    BY <1>1
  <2> HIDE DEF a, b
  <2> DEFINE one == <<-1>>
  <2>3. one \in Seq(Int) /\ Parts(one) = {-1}
    BY LeafParts
  <2>4. EncryptLR(l, r) = one \o a \o b
    BY <2>1
  <2> HIDE DEF one
  <2>5. one \o a \in Seq(Int) /\ Parts(one \o a) = {-1} \cup Parts(a)
    BY <2>2, <2>3, ConcatParts
  <2>6. /\ (one \o a) \o b \in Seq(Int)
        /\ Parts((one \o a) \o b) = {-1} \cup Parts(a) \cup Parts(b)
    BY <2>2, <2>5, ConcatParts
  <2> QED
    BY <2>2, <2>4, <2>6
<1> QED
  BY <1>2, <1>3

-----------------------------------------------------------------------------
(* Recursion over the levels *)

\* The two computations that go up level by level: along the way from chunk x.i
\* with the siblings x.sib, and through the whole tree of x.n chunks.
Rise(x, k, low) ==
    IF x.kind = "way"
    THEN IF SiblingOf(x.i, k - 1).Start > NodeOf(x.i, k - 1).Start
         THEN EncryptLR(low, x.sib[k - 1])
         ELSE EncryptLR(x.sib[k - 1], low)
    ELSE [b \in 0..(2^(Depth(x.n) - k) - 1) |-> EncryptLR(low[2 * b], low[2 * b + 1])]

Rising(x, base, from, to, f) ==
    f = [k \in from..to |-> IF k = from THEN base ELSE Rise(x, k, f[k - 1])]

\* They have values.
LEMMA RisingExists ==
    ASSUME NEW x, NEW base, NEW from \in Nat, NEW to \in Nat, from <= to
    PROVE  \E f : Rising(x, base, from, to, f)
<1> DEFINE Good(m) == \E f : Rising(x, base, from, m, f)
           Wrong == {m \in from..to : ~Good(m)}
<1>1. Good(from)
  <2> DEFINE f == [k \in from..from |-> base]
  <2>1. \A k \in from..from : k = from
    OBVIOUS
  <2>2. f = [k \in from..from |-> IF k = from THEN base ELSE Rise(x, k, f[k - 1])]
    BY <2>1
  <2> QED
    BY <2>2 DEF Rising
<1>2. ASSUME NEW m \in from..to, Good(m) PROVE Good(m + 1)
  <2>1. PICK f : Rising(x, base, from, m, f)
    BY <1>2
  <2> DEFINE value(g, k) == IF k = from THEN base ELSE Rise(x, k, g[k - 1])
             g == [k \in from..(m + 1) |-> IF k \in from..m THEN f[k]
                                           ELSE value(f, k)]
  <2>2. \A k \in from..m : f[k] = value(f, k)
    BY <2>1 DEF Rising
  <2>3. ASSUME NEW k \in from..(m + 1) PROVE g[k] = value(g, k)
    <3>1. k = from \/ (k - 1 \in from..m /\ k - 1 \in from..(m + 1))
      BY <1>2, <2>3
    <3>2. k = from \/ g[k - 1] = f[k - 1]
      BY <3>1
    <3>3. g[k] = value(f, k)
      BY <2>2, <2>3
    <3> HIDE DEF g
    <3> QED
      BY <3>2, <3>3
  <2>4. g = [k \in from..(m + 1) |-> g[k]]
    OBVIOUS
  <2> HIDE DEF g
  <2>5. g = [k \in from..(m + 1) |-> value(g, k)]
    BY <2>3, <2>4
  <2> QED
    BY <2>5 DEF Rising
<1> HIDE DEF Good
<1>3. Wrong = {}
  <2> SUFFICES ASSUME Wrong # {} PROVE FALSE
    OBVIOUS
  <2>1. Wrong \in SUBSET Nat
    OBVIOUS
  <2> DEFINE w == Min(Wrong)
  <2> HIDE DEF Wrong
  <2>2. w \in Wrong /\ \A y \in Wrong : w <= y
    BY <2>1, MinInSet
  <2> HIDE DEF w
  <2>3. w \in from..to /\ ~Good(w)
    BY <2>2 DEF Wrong
  <2>4. w - 1 \in from..to /\ (w - 1) + 1 = w /\ w - 1 \notin Wrong
    BY <1>1, <2>2, <2>3
  <2>5. Good(w - 1)
    BY <2>4 DEF Wrong
  <2> QED
    BY <1>2, <2>3, <2>4, <2>5
<1>4. Good(to)
  <2>1. to \in from..to
    OBVIOUS
  <2> QED
    BY <1>3, <2>1
<1> QED
  BY <1>4 DEF Good

\* The hashes on a way up.
Climbs(up, i, h, from, to, sib) ==
    /\ up[from] = h
    /\ \A k \in (from + 1)..to :
          up[k] = IF SiblingOf(i, k - 1).Start > NodeOf(i, k - 1).Start
                  THEN EncryptLR(up[k - 1], sib[k - 1])
                  ELSE EncryptLR(sib[k - 1], up[k - 1])

\* HashUp goes up step by step.
LEMMA HashUpValues ==
    ASSUME NEW i, NEW h, NEW from \in Nat, NEW to \in Nat, from <= to, NEW sib
    PROVE  \E up : Climbs(up, i, h, from, to, sib) /\ HashUp(i, h, from, to, sib) = up[to]
<1> DEFINE x == [kind |-> "way", i |-> i, sib |-> sib]
           step(g, k) == IF SiblingOf(i, k - 1).Start > NodeOf(i, k - 1).Start
                         THEN EncryptLR(g[k - 1], sib[k - 1])
                         ELSE EncryptLR(sib[k - 1], g[k - 1])
           Is(g) == g = [k \in from..to |->
                            IF k = from THEN h
                            ELSE IF SiblingOf(i, k - 1).Start > NodeOf(i, k - 1).Start
                                 THEN EncryptLR(g[k - 1], sib[k - 1])
                                 ELSE EncryptLR(sib[k - 1], g[k - 1])]
           up == CHOOSE g : Is(g)
<1>1. \E g : Rising(x, h, from, to, g)
  BY RisingExists
<1>2. \A g : Rising(x, h, from, to, g) <=> Is(g)
  BY DEF Rising, Rise
<1>3. HashUp(i, h, from, to, sib) = up[to]
  BY DEF HashUp
<1>4. Is(up)
  BY <1>1, <1>2
<1> HIDE DEF up
<1>5. \A k \in from..to : up[k] = IF k = from THEN h ELSE step(up, k)
  BY <1>4
<1> HIDE DEF step
<1>6. up[from] = h /\ \A k \in (from + 1)..to : up[k] = step(up, k)
  <2>1. from \in from..to /\ \A k \in (from + 1)..to : k \in from..to /\ k # from
    OBVIOUS
  <2> QED
    BY <1>5, <2>1
<1> QED
  BY <1>3, <1>6 DEF step, Climbs

\* Make does, from the leaves up.
LEMMA MakeHashValues ==
    ASSUME NEW n, Depth(n) \in Nat
    PROVE  LET level == MakeHash(n)
               last(k) == 2^(Depth(n) - k) - 1
           IN  /\ \A b \in 0..last(0) :
                     level[0][b] = IF b < n THEN Leaf(b) ELSE Null
               /\ \A k \in 1..Depth(n) : \A b \in 0..last(k) :
                     level[k][b] = EncryptLR(level[k - 1][2 * b],
                                             level[k - 1][2 * b + 1])
<1> DEFINE d == Depth(n)
           last(k) == 2^(Depth(n) - k) - 1
           x == [kind |-> "tree", n |-> n]
           base == [b \in 0..last(0) |-> IF b < n THEN Leaf(b) ELSE Null]
           Is(g) == g = [k \in 0..Depth(n) |->
                           [b \in 0..(2^(Depth(n) - k) - 1) |->
                              IF k = 0 THEN IF b < n THEN Leaf(b) ELSE Null
                              ELSE EncryptLR(g[k - 1][2 * b], g[k - 1][2 * b + 1])]]
           level == CHOOSE g : Is(g)
<1>1. \E g : Rising(x, base, 0, d, g)
  <2>1. d \in Nat /\ 0 \in Nat /\ 0 <= d
    OBVIOUS
  <2> HIDE DEF d, x, base
  <2> QED
    BY <2>1, RisingExists
<1>2. ASSUME NEW g, Rising(x, base, 0, d, g) PROVE Is(g)
  <2>1. g = [k \in 0..d |-> IF k = 0 THEN base ELSE Rise(x, k, g[k - 1])]
    BY <1>2 DEF Rising
  <2>2. ASSUME NEW k \in 0..d
        PROVE  (IF k = 0 THEN base ELSE Rise(x, k, g[k - 1])) =
                  [b \in 0..(2^(Depth(n) - k) - 1) |->
                     IF k = 0 THEN IF b < n THEN Leaf(b) ELSE Null
                     ELSE EncryptLR(g[k - 1][2 * b], g[k - 1][2 * b + 1])]
    <3>1. CASE k = 0
      BY <3>1
    <3>2. CASE k # 0
      BY <3>2 DEF Rise
    <3> QED
      BY <3>1, <3>2
  <2> QED
    BY <2>1, <2>2
<1>3. MakeHash(n) = level
  BY DEF MakeHash
<1>4. Is(level)
  BY <1>1, <1>2
<1> HIDE DEF level
<1>5. \A k \in 0..d : level[k] =
            [b \in 0..last(k) |->
               IF k = 0 THEN IF b < n THEN Leaf(b) ELSE Null
               ELSE EncryptLR(level[k - 1][2 * b], level[k - 1][2 * b + 1])]
  BY <1>4
<1>6. \A b \in 0..last(0) : level[0][b] = IF b < n THEN Leaf(b) ELSE Null
  <2>1. 0 \in 0..d
    OBVIOUS
  <2> QED
    BY <1>5, <2>1
<1>7. ASSUME NEW k \in 1..d, NEW b \in 0..last(k)
      PROVE  level[k][b] = EncryptLR(level[k - 1][2 * b], level[k - 1][2 * b + 1])
  <2>1. k \in 0..d /\ k # 0
    OBVIOUS
  <2> QED
    BY <1>5, <2>1
<1> QED
  BY <1>3, <1>6, <1>7

\* Induction over the levels, for the set of those that something holds of.
LEMMA LevelInduction ==
    ASSUME NEW from \in Nat, NEW to \in Nat, NEW good, from \in good,
           \A m \in from..(to - 1) : m \in good => m + 1 \in good
    PROVE  \A m \in from..to : m \in good
<1> DEFINE Wrong == {m \in from..to : m \notin good}
<1>1. SUFFICES ASSUME Wrong # {} PROVE FALSE
  OBVIOUS
<1>2. Wrong \in SUBSET Nat
  OBVIOUS
<1> DEFINE w == Min(Wrong)
<1> HIDE DEF Wrong
<1>3. w \in Wrong /\ \A y \in Wrong : w <= y
  BY <1>1, <1>2, MinInSet
<1> HIDE DEF w
<1>4. w \in from..to /\ w \notin good
  BY <1>3 DEF Wrong
<1>5. w - 1 \in from..(to - 1) /\ w - 1 \in from..to /\ (w - 1) + 1 = w
  BY <1>4
<1>6. w - 1 \notin Wrong
  BY <1>3, <1>5
<1> QED
  BY <1>4, <1>5, <1>6 DEF Wrong

\* The symbols of the hashes on a way up.
PathParts(h, sib, from, to) ==
    Parts(h) \cup UNION {Parts(sib[k]) : k \in from..(to - 1)}

\* What HashUp computes is made of the hash it starts from and those of the
\* siblings.
LEMMA HashUpParts ==
    ASSUME NEW i, NEW h \in Seq(Int), NEW from \in Nat, NEW to \in Nat, from <= to,
           NEW sib, \A k \in from..(to - 1) : sib[k] \in Seq(Int)
    PROVE  LET top == HashUp(i, h, from, to, sib)
           IN  /\ top \in Seq(Int)
               /\ PathParts(h, sib, from, to) \subseteq Parts(top)
               /\ Parts(top) \subseteq PathParts(h, sib, from, to) \cup {-1, -2}
<1>0. PICK up : Climbs(up, i, h, from, to, sib) /\ HashUp(i, h, from, to, sib) = up[to]
  BY HashUpValues
<1>1. /\ up[from] = h
      /\ \A k \in (from + 1)..to :
            up[k] = IF SiblingOf(i, k - 1).Start > NodeOf(i, k - 1).Start
                    THEN EncryptLR(up[k - 1], sib[k - 1])
                    ELSE EncryptLR(sib[k - 1], up[k - 1])
      /\ HashUp(i, h, from, to, sib) = up[to]
  BY <1>0 DEF Climbs
<1> DEFINE Good(m) ==
             /\ up[m] \in Seq(Int) /\ Parts(h) \subseteq Parts(up[m])
             /\ \A k \in from..(m - 1) : Parts(sib[k]) \subseteq Parts(up[m])
             /\ \A s \in Parts(up[m]) : \/ s \in Parts(h) \cup {-1, -2}
                                        \/ \E k \in from..(m - 1) : s \in Parts(sib[k])
<1>2. Good(from)
  <2>1. from..(from - 1) = {}
    OBVIOUS
  <2> QED
    BY <1>1, <2>1
<1>3. ASSUME NEW m \in from..(to - 1), Good(m) PROVE Good(m + 1)
  <2> DEFINE low == up[m]
             side == sib[m]
             high == up[m + 1]
  <2>1. m + 1 \in (from + 1)..to /\ (m + 1) - 1 = m
    OBVIOUS
  <2>2. high = EncryptLR(low, side) \/ high = EncryptLR(side, low)
    BY <1>1, <2>1
  <2>3. low \in Seq(Int) /\ side \in Seq(Int)
    BY <1>3
  <2> HIDE DEF low, side, high
  <2>4. /\ high \in Seq(Int) /\ Parts(low) \cup Parts(side) \subseteq Parts(high)
        /\ Parts(high) \subseteq Parts(low) \cup Parts(side) \cup {-1, -2}
    BY <2>2, <2>3, EncryptParts
  <2>5. /\ m \in from..m /\ from..(m - 1) \subseteq from..m
        /\ \A k \in from..m : k = m \/ k \in from..(m - 1)
    OBVIOUS
  <2>6. /\ Parts(h) \subseteq Parts(low)
        /\ \A k \in from..(m - 1) : Parts(sib[k]) \subseteq Parts(low)
        /\ \A s \in Parts(low) : \/ s \in Parts(h) \cup {-1, -2}
                                 \/ \E k \in from..(m - 1) : s \in Parts(sib[k])
    BY <1>3 DEF low
  <2>7. side = sib[m]
    BY DEF side
  <2>8. /\ \A k \in from..m : Parts(sib[k]) \subseteq Parts(high)
        /\ \A s \in Parts(high) : \/ s \in Parts(h) \cup {-1, -2}
                                  \/ \E k \in from..m : s \in Parts(sib[k])
    BY <2>4, <2>5, <2>6, <2>7
  <2>9. (m + 1) - 1 = m /\ up[m + 1] = high
    BY DEF high
  <2> QED
    BY <2>4, <2>6, <2>8, <2>9
<1> DEFINE good == {m \in from..to : Good(m)}
<1>4. \A m \in from..to : m \in good
  <2>1. from \in good
    BY <1>2
  <2>2. \A m \in from..(to - 1) : m \in good => m + 1 \in good
    <3> HIDE DEF Good
    <3> QED
      BY <1>3
  <2> HIDE DEF good
  <2> QED
    BY <2>1, <2>2, LevelInduction
<1>5. Good(to)
  <2>1. to \in from..to
    OBVIOUS
  <2> HIDE DEF Good
  <2> QED
    BY <1>4, <2>1
<1>6. /\ PathParts(h, sib, from, to) \subseteq Parts(up[to])
      /\ Parts(up[to]) \subseteq PathParts(h, sib, from, to) \cup {-1, -2}
  <2> DEFINE top == up[to]
  <2>1. /\ Parts(h) \subseteq Parts(top)
        /\ \A k \in from..(to - 1) : Parts(sib[k]) \subseteq Parts(top)
        /\ \A s \in Parts(top) : \/ s \in Parts(h) \cup {-1, -2}
                                 \/ \E k \in from..(to - 1) : s \in Parts(sib[k])
    BY <1>5
  <2> HIDE DEF top
  <2> QED
    BY <2>1 DEF PathParts, top
<1> QED
  BY <1>1, <1>5, <1>6

\* The leaves below the node b of level k: w is the width of that level.
LEMMA ChildLeaves ==
    ASSUME NEW w \in Nat, NEW b \in Nat, NEW j \in Int
    PROVE  /\ (2 * w) * b = w * (2 * b) /\ w * (2 * b + 1) = w * (2 * b) + w
           /\ w * (2 * b) \in Nat
           /\ (2 * w) * b <= j /\ j < (2 * w) * b + 2 * w <=>
                 \/ w * (2 * b) <= j /\ j < w * (2 * b) + w
                 \/ w * (2 * b + 1) <= j /\ j < w * (2 * b + 1) + w
<1>1. (2 * w) * b = w * (2 * b) /\ w * (2 * b + 1) = w * (2 * b) + w /\ w * (2 * b) \in Nat
  OBVIOUS
<1> DEFINE x == w * (2 * b)
           y == (2 * w) * b
           z == w * (2 * b + 1)
<1> HIDE DEF x, y, z
<1>2. y = x /\ z = x + w /\ x \in Nat
  BY <1>1 DEF x, y, z
<1>3. y <= j /\ j < y + 2 * w <=> (x <= j /\ j < x + w) \/ (z <= j /\ j < z + w)
  BY <1>2
<1> QED
  BY <1>1, <1>3 DEF x, y, z

\* The hash of a node of the tree is made of the chunks below it, all of them,
\* and of nothing else.
LEMMA MakeHashParts ==
    ASSUME NEW n \in Nat, Doubling(n), Depth(n) \in 0..n,
           NEW k \in 0..Depth(n), NEW b \in 0..(Width(Depth(n) - k) - 1)
    PROVE  LET h == MakeHash(n)[k][b]
           IN  /\ h \in Seq(Int)
               /\ \A s \in Parts(h) : s \in {-1, -2} \cup 0..(n - 1)
               /\ \A j \in 0..(n - 1) :
                     j \in Parts(h) <=> /\ Width(k) * b <= j
                                        /\ j < Width(k) * b + Width(k)
<1> DEFINE d == Depth(n)
           level == MakeHash(n)
           last(l) == 2^(Depth(n) - l) - 1
           Fine(l, c) ==
               /\ level[l][c] \in Seq(Int)
               /\ \A s \in Parts(level[l][c]) : s \in {-1, -2} \cup 0..(n - 1)
               /\ \A j \in 0..(n - 1) :
                     j \in Parts(level[l][c]) <=> /\ Width(l) * c <= j
                                                  /\ j < Width(l) * c + Width(l)
           Good(l) == \A c \in 0..last(l) : Fine(l, c)
<1>0. d \in Nat /\ \A l \in 0..d : last(l) = Width(d - l) - 1 /\ Width(d - l) \in Nat \ {0}
  <2>1. \A l \in 0..d : d - l \in 0..(n + 1)
    OBVIOUS
  <2>2. \A l \in 0..d : Width(d - l) \in Nat \ {0}
    BY <2>1, PowerPositive
  <2> QED
    BY <2>2 DEF Width
<1>1. /\ \A c \in 0..last(0) : level[0][c] = IF c < n THEN Leaf(c) ELSE Null
      /\ \A l \in 1..d : \A c \in 0..last(l) :
            level[l][c] = EncryptLR(level[l - 1][2 * c], level[l - 1][2 * c + 1])
  BY <1>0, MakeHashValues
<1> HIDE DEF d, level, last
<1>2. Good(0)
  <2>1. SUFFICES ASSUME NEW c \in 0..last(0) PROVE Fine(0, c)
    OBVIOUS
  <2>2. last(0) \in Nat /\ c \in Nat /\ c \in Int
    BY <1>0, <2>1
  <2>3. Width(0) = 1
    BY DEF Doubling
  <2>4. level[0][c] = IF c < n THEN Leaf(c) ELSE Null
    BY <1>1
  <2>5. \A j \in Int : Width(0) * c <= j /\ j < Width(0) * c + Width(0) <=> j = c
    BY <2>2, <2>3
  <2>6. CASE c < n
    <3>1. level[0][c] \in Seq(Int) /\ Parts(level[0][c]) = {c} /\ c \in 0..(n - 1)
      BY <2>2, <2>4, <2>6, LeafParts
    <3> QED
      BY <2>5, <3>1
  <2>7. CASE ~(c < n)
    <3>1. level[0][c] \in Seq(Int) /\ Parts(level[0][c]) = {} /\ c \notin 0..(n - 1)
      BY <2>2, <2>4, <2>7, LeafParts
    <3> QED
      BY <2>5, <3>1
  <2> QED
    BY <2>6, <2>7
<1>3. ASSUME NEW l \in 0..(d - 1), Good(l) PROVE Good(l + 1)
  <2>1. SUFFICES ASSUME NEW c \in 0..last(l + 1) PROVE Fine(l + 1, c)
    OBVIOUS
  <2> DEFINE w == Width(l)
             left == level[l][2 * c]
             right == level[l][2 * c + 1]
             high == level[l + 1][c]
  <2>2. /\ l \in 0..d /\ l + 1 \in 0..d /\ l + 1 \in 1..d /\ (l + 1) - 1 = l
        /\ l \in 0..n /\ l \in 0..(n + 1) /\ d - (l + 1) \in 0..n
        /\ (d - (l + 1)) + 1 = d - l
    BY <1>0 DEF d
  <2>3. Width(l + 1) = 2 * w /\ w \in Nat
    BY <2>2 DEF Doubling
  <2>4. Width(d - l) = 2 * Width(d - (l + 1))
    BY <2>2 DEF Doubling
  <2>5. 2 * c \in 0..last(l) /\ 2 * c + 1 \in 0..last(l) /\ c \in Nat
    BY <1>0, <2>1, <2>2, <2>4
  <2>6. Fine(l, 2 * c) /\ Fine(l, 2 * c + 1)
    BY <1>3, <2>5
  <2>7. high = EncryptLR(left, right)
    BY <1>1, <2>1, <2>2
  <2>8. left \in Seq(Int) /\ right \in Seq(Int)
    BY <2>6
  <2>9. \A j \in 0..(n - 1) :
          /\ j \in Parts(left) <=> w * (2 * c) <= j /\ j < w * (2 * c) + w
          /\ j \in Parts(right) <=> w * (2 * c + 1) <= j /\ j < w * (2 * c + 1) + w
    BY <2>6
  <2>10. \A s \in Parts(left) \cup Parts(right) : s \in {-1, -2} \cup 0..(n - 1)
    BY <2>6
  <2> HIDE DEF left, right, high, w
  <2>11. /\ high \in Seq(Int) /\ Parts(left) \cup Parts(right) \subseteq Parts(high)
         /\ Parts(high) \subseteq Parts(left) \cup Parts(right) \cup {-1, -2}
    BY <2>7, <2>8, EncryptParts
  <2>12. \A s \in Parts(high) : s \in {-1, -2} \cup 0..(n - 1)
    BY <2>10, <2>11
  <2>13. ASSUME NEW j \in 0..(n - 1)
         PROVE  j \in Parts(high) <=> /\ Width(l + 1) * c <= j
                                      /\ j < Width(l + 1) * c + Width(l + 1)
    <3>1. j \in Parts(high) <=> j \in Parts(left) \/ j \in Parts(right)
      BY <2>11
    <3>2. j \in Parts(high) <=> \/ w * (2 * c) <= j /\ j < w * (2 * c) + w
                                \/ w * (2 * c + 1) <= j /\ j < w * (2 * c + 1) + w
      BY <2>9, <3>1
    <3>3. j \in Int
      OBVIOUS
    <3>4. (2 * w) * c <= j /\ j < (2 * w) * c + 2 * w <=>
                 \/ w * (2 * c) <= j /\ j < w * (2 * c) + w
                 \/ w * (2 * c + 1) <= j /\ j < w * (2 * c + 1) + w
      BY <2>3, <2>5, <3>3, ChildLeaves
    <3> QED
      BY <2>3, <3>2, <3>4
  <2> QED
    BY <2>11, <2>12, <2>13 DEF high
<1> DEFINE good == {l \in 0..d : Good(l)}
<1>4. \A l \in 0..d : l \in good
  <2>1. 0 \in good
    BY <1>0, <1>2
  <2>2. \A l \in 0..(d - 1) : l \in good => l + 1 \in good
    <3> HIDE DEF Good
    <3> QED
      BY <1>0, <1>3
  <2> HIDE DEF good
  <2> QED
    BY <1>0, <2>1, <2>2, LevelInduction
<1>5. Good(k)
  <2>1. k \in 0..d
    BY DEF d
  <2> QED
    BY <1>4, <2>1
<1>6. b \in 0..last(k)
  BY <1>0 DEF d
<1> QED
  BY <1>5, <1>6 DEF level

\* Two nodes of a level are the same or apart.
LEMMA NodesApart ==
    ASSUME NEW n \in Nat, Doubling(n), NEW i \in Nat, NEW j \in Nat,
           NEW k \in 0..(n + 1)
    PROVE  \/ NodeOf(i, k) = NodeOf(j, k)
           \/ NodeOf(i, k).End < NodeOf(j, k).Start
           \/ NodeOf(j, k).End < NodeOf(i, k).Start
<1> DEFINE a == NodeOf(i, k)
           b == NodeOf(j, k)
<1>1. /\ a.Start \in Nat /\ a.End \in Nat /\ a.Start <= a.End
      /\ b.Start \in Nat /\ b.End \in Nat /\ b.Start <= b.End
  <2>1. /\ a.Start \in Nat /\ a.End \in Nat /\ a.Start <= i /\ i <= a.End
        /\ b.Start \in Nat /\ b.End \in Nat /\ b.Start <= j /\ j <= b.End
    BY NodeFacts
  <2> HIDE DEF a, b
  <2> QED
    BY <2>1
<1>2. \A x \in Nat : a.Start <= x /\ x <= a.End => NodeOf(x, k) = a
  BY NodeSame
<1>3. \A x \in Nat : b.Start <= x /\ x <= b.End => NodeOf(x, k) = b
  BY NodeSame
<1> HIDE DEF a, b
<1>4. CASE a.Start <= b.Start /\ b.Start <= a.End
  <2>1. NodeOf(b.Start, k) = a
    BY <1>1, <1>2, <1>4
  <2>2. NodeOf(b.Start, k) = b
    BY <1>1, <1>3
  <2> QED
    BY <2>1, <2>2 DEF a, b
<1>5. CASE b.Start <= a.Start /\ a.Start <= b.End
  <2>1. NodeOf(a.Start, k) = b
    BY <1>1, <1>3, <1>5
  <2>2. NodeOf(a.Start, k) = a
    BY <1>1, <1>2
  <2> QED
    BY <2>1, <2>2 DEF a, b
<1>6. a.End < b.Start \/ b.End < a.Start \/ (a.Start <= b.Start /\ b.Start <= a.End)
         \/ (b.Start <= a.Start /\ a.Start <= b.End)
  BY <1>1
<1> QED
  BY <1>4, <1>5, <1>6 DEF a, b

\* The index of a node is its own: it is twice the middle of the node.
LEMMA LowerIndex ==
    ASSUME NEW n \in Nat, Doubling(n), NEW i \in Nat, NEW j \in Nat,
           NEW k \in 0..n, NEW l \in 0..n, k <= l,
           TreeIndex(NodeOf(i, k)) = TreeIndex(NodeOf(j, l))
    PROVE  NodeOf(i, k) = NodeOf(j, l)
<1> DEFINE a == NodeOf(i, k)
           b == NodeOf(j, l)
           c == NodeOf(i, l)
<1>0. k \in 0..(n + 1) /\ l \in 0..(n + 1)
  OBVIOUS
<1>1. /\ a.Start \in Nat /\ a.End \in Nat /\ a.Start <= a.End
      /\ b.Start \in Nat /\ b.End \in Nat /\ b.Start <= b.End
      /\ c.Start <= a.Start /\ a.End <= c.End /\ c.Start \in Nat /\ c.End \in Nat
      /\ c = b \/ c.End < b.Start \/ b.End < c.Start
  <2>1. /\ a.Start \in Nat /\ a.End \in Nat /\ a.Start <= i /\ i <= a.End
        /\ b.Start \in Nat /\ b.End \in Nat /\ b.Start <= j /\ j <= b.End
        /\ c.Start \in Nat /\ c.End \in Nat
    BY <1>0, NodeFacts
  <2>2. c.Start <= a.Start /\ a.End <= c.End
    BY <1>0, Nested
  <2>3. c = b \/ c.End < b.Start \/ b.End < c.Start
    BY <1>0, NodesApart
  <2> HIDE DEF a, b, c
  <2> QED
    BY <2>1, <2>2, <2>3
<1>2. a.Start + a.End = b.Start + b.End
  BY DEF TreeIndex
<1>3. CASE c = b /\ k # l
  <2> DEFINE q == NodeOf(i, l - 1)
             s == SiblingOf(i, l - 1)
  <2>1. l - 1 \in 0..n /\ l - 1 \in 0..(n + 1) /\ k <= l - 1 /\ (l - 1) + 1 = l
    BY <1>3
  <2>2. /\ s.Start \in Nat /\ s.End = s.Start + Width(l - 1) - 1
        /\ \/ s.Start = q.End + 1 /\ c.Start = q.Start /\ c.End = s.End
           \/ s.End = q.Start - 1 /\ c.Start = s.Start /\ c.End = q.End
    BY <2>1, Halves
  <2>3. q.Start <= a.Start /\ a.End <= q.End
    BY <1>0, <2>1, Nested
  <2>4. q.Start \in Nat /\ q.End \in Nat /\ q.End = q.Start + Width(l - 1) - 1
    BY <2>1, NodeFacts
  <2>5. Width(l - 1) \in Nat
    BY <2>1, PowerPositive
  <2> DEFINE w == Width(l - 1)
  <2> HIDE DEF a, b, c, q, s, w
  <2> QED
    BY <1>1, <1>2, <1>3, <2>2, <2>3, <2>4, <2>5 DEF w
<1>4. CASE c = b /\ k = l
  BY <1>4
<1>5. CASE c # b
  <2> HIDE DEF a, b, c
  <2> QED
    BY <1>1, <1>2, <1>5
<1> QED
  BY <1>3, <1>4, <1>5

\* No two nodes of the tree have the same index.
LEMMA IndexUnique ==
    ASSUME NEW n \in Nat, Doubling(n), NEW i \in Nat, NEW j \in Nat,
           NEW k \in 0..n, NEW l \in 0..n,
           TreeIndex(NodeOf(i, k)) = TreeIndex(NodeOf(j, l))
    PROVE  NodeOf(i, k) = NodeOf(j, l)
<1>1. CASE k <= l
  BY <1>1, LowerIndex
<1>2. CASE l <= k
  BY <1>2, LowerIndex
<1> QED
  BY <1>1, <1>2

\* The widths of a level and of the rest of the tree above it.
LEMMA WidthProduct ==
    ASSUME NEW n \in Nat, Doubling(n), NEW d \in 0..n, NEW k \in 0..d
    PROVE  Width(k) * Width(d - k) = Width(d)
<1> DEFINE good == {l \in 0..d : Width(l) * Width(d - l) = Width(d)}
<1>1. 0 \in good
  <2>1. Width(0) = 1 /\ Width(d) \in Nat /\ d - 0 = d
    BY DEF Doubling
  <2> QED
    BY <2>1
<1>2. ASSUME NEW l \in 0..(d - 1), l \in good PROVE l + 1 \in good
  <2> DEFINE v == Width(l)
             w == Width(d - (l + 1))
             t == Width(d)
  <2>1. l \in 0..n /\ d - (l + 1) \in 0..n /\ (d - (l + 1)) + 1 = d - l /\ l + 1 \in 0..d
    OBVIOUS
  <2>2. v \in Nat /\ w \in Nat /\ Width(l + 1) = 2 * v /\ Width(d - l) = 2 * w
    BY <2>1 DEF Doubling
  <2>3. v * (2 * w) = t
    BY <1>2, <2>2
  <2> HIDE DEF v, w, t
  <2>4. (2 * v) * w = t
    BY <2>2, <2>3
  <2> QED
    BY <2>1, <2>2, <2>4 DEF w, t
<1> HIDE DEF good
<1>3. k \in good
  <2>1. d \in Nat /\ 0 \in Nat
    OBVIOUS
  <2>2. \A m \in 0..d : m \in good
    BY <1>1, <1>2, <2>1, LevelInduction
  <2> QED
    BY <2>2
<1> QED
  BY <1>3 DEF good

\* The nodes that Make makes: nodes of the tree, each with a hash that is made
\* of the chunks below it.
LEMMA MadeNode ==
    ASSUME NEW n \in Nat, Doubling(n), Depth(n) \in 0..n, NEW m \in Make(n)
    PROVE  /\ m = [Start |-> m.Start, End |-> m.End, Hash |-> m.Hash]
           /\ \E i \in 0..(Width(Depth(n)) - 1), k \in 0..Depth(n) :
                 m.Start = NodeOf(i, k).Start /\ m.End = NodeOf(i, k).End
           /\ m.Hash \in Seq(Int)
           /\ \A s \in Parts(m.Hash) : s \in {-1, -2} \cup 0..(n - 1)
           /\ \A j \in 0..(n - 1) : j \in Parts(m.Hash) <=> m.Start <= j /\ j <= m.End
<1> DEFINE d == Depth(n)
<1>1. PICK i \in 0..(Width(d) - 1), k \in 0..d :
         m = Node(NodeOf(i, k), MakeHash(n)[k][i \div 2^k])
  BY DEF Make, Width
<1> DEFINE b == i \div Width(k)
           h == MakeHash(n)[k][b]
           w == Width(k)
           v == Width(d - k)
           r == NodeOf(i, k)
<1>2. m = [Start |-> r.Start, End |-> r.End, Hash |-> h]
  BY <1>1 DEF Node, Width
<1>3. /\ w \in Nat \ {0} /\ v \in Nat \ {0} /\ w * v = Width(d)
      /\ k \in 0..(n + 1) /\ i \in Nat
  <2>1. d - k \in 0..(n + 1) /\ k \in 0..(n + 1)
    OBVIOUS
  <2> QED
    BY <2>1, PowerPositive, WidthProduct
<1>4. r.Start = w * b /\ r.End = w * b + w - 1
  BY DEF NodeOf, Width
<1>5. b \in Nat /\ w * b <= i
  <2> HIDE DEF w
  <2> QED
    BY <1>3, Division DEF w
<1>6. b < v
  <2>1. i < w * v
    BY <1>1, <1>3
  <2> HIDE DEF b, w, v
  <2>2. SUFFICES ASSUME v <= b PROVE FALSE
    BY <1>3, <1>5
  <2>3. w * v <= w * b
    BY <1>3, <1>5, <2>2
  <2>4. w * v \in Int /\ w * b \in Int
    BY <1>3, <1>5
  <2> QED
    BY <1>3, <1>5, <2>1, <2>3, <2>4
<1>7. /\ h \in Seq(Int)
      /\ \A s \in Parts(h) : s \in {-1, -2} \cup 0..(n - 1)
      /\ \A j \in 0..(n - 1) : j \in Parts(h) <=> w * b <= j /\ j < w * b + w
  <2>1. b \in 0..(Width(d - k) - 1)
    BY <1>3, <1>5, <1>6
  <2> QED
    BY <2>1, MakeHashParts
<1>8. ASSUME NEW j \in 0..(n - 1)
      PROVE  j \in Parts(h) <=> r.Start <= j /\ j <= r.End
  <2>1. j \in Parts(h) <=> w * b <= j /\ j < w * b + w
    BY <1>7
  <2>2. w * b \in Nat
    BY <1>3, <1>5
  <2> DEFINE x == w * b
  <2> HIDE DEF w, b, h, r, x
  <2> QED
    BY <1>3, <1>4, <2>1, <2>2 DEF x
<1> HIDE DEF h, r, b, w
<1>9. m.Start = r.Start /\ m.End = r.End /\ m.Hash = h
  BY <1>2
<1> QED
  BY <1>2, <1>7, <1>8, <1>9 DEF r

\* The tree of n chunks is just high enough for them.
LEMMA TreeHeight ==
    ASSUME NEW n \in Nat, n >= 2, Doubling(n)
    PROVE  /\ Depth(n) \in 1..n
           /\ Width(Depth(n)) \in Nat /\ n <= Width(Depth(n))
           /\ Width(Depth(n) - 1) \in Nat /\ Width(Depth(n) - 1) < n
           /\ Width(Depth(n)) = 2 * Width(Depth(n) - 1)
<1> DEFINE h == Depth(n)
<1>1. Width(n) >= n /\ Width(n) \in Nat
  <2>1. n \in 0..(n + 1)
    OBVIOUS
  <2> QED
    BY <2>1, PowerBeyond, PowerPositive
<1>2. /\ h \in 0..n /\ Width(h) >= n
      /\ \A k \in 0..n : k < h => Width(k) < n
  <2>1. n \in 0..(n + 1)
    OBVIOUS
  <2> QED
    BY <1>1, <2>1, DepthFacts
<1>3. h # 0
  BY <1>2 DEF Doubling
<1>4. h - 1 \in 0..n /\ h = (h - 1) + 1
  BY <1>2, <1>3
<1>5. Width(h - 1) \in Nat /\ Width(h - 1) < n
  BY <1>2, <1>4 DEF Doubling
<1>6. Width(h) = 2 * Width(h - 1)
  BY <1>4 DEF Doubling
<1> QED
  BY <1>2, <1>3, <1>5, <1>6

\* The number of leaves that CheckPeakHash computes from the end of the node it
\* starts from is that of a tree no larger.
LEMMA LeafCountBound ==
    ASSUME NEW n \in Nat, Doubling(n), NEW h \in 1..n, NEW end \in 0..(Width(h) - 1)
    PROVE  /\ PeakLeafCount(end) \in 0..Width(h)
           /\ LastIndex(PeakLeafCount(end)) \in Int
           /\ LastIndex(PeakLeafCount(end)) <= 2 * (Width(h) - 1)
<1> DEFINE idx == IF end % 2 # 0 THEN end + 1 ELSE end
           count == PeakLeafCount(end)
           all == Width(h)
<1>0. /\ h \in 0..(n + 1) /\ h \in Nat /\ all \in Nat /\ all >= 2
      /\ all = 2 * Width(h - 1) /\ Width(h - 1) \in Nat
  <2>1. h \in 0..(n + 1) /\ h - 1 \in 0..n /\ (h - 1) + 1 = h /\ h - 1 \in 0..(n + 1)
    OBVIOUS
  <2>2. Width(h - 1) \in Nat \ {0} /\ Width(h) = 2 * Width(h - 1)
    BY <2>1, PowerPositive DEF Doubling
  <2> QED
    BY <2>1, <2>2
<1>1. idx \in Nat /\ idx <= all
  BY <1>0
<1> HIDE DEF idx
<1>2. Depth(idx) \in 0..h
  BY <1>0, <1>1, DepthFacts
<1>3. Width(Depth(idx)) \in Nat /\ Width(Depth(idx)) <= all
  <2>1. Depth(idx) \in 0..(n + 1)
    BY <1>0, <1>2
  <2>2. Width(Depth(idx)) \in Nat \ {0}
    BY <1>0, <2>1, PowerPositive
  <2>3. CASE Depth(idx) = h
    <3>1. Width(Depth(idx)) = all
      BY <2>3
    <3>2. all \in Nat /\ all <= all
      BY <1>0
    <3> QED
      BY <3>1, <3>2
  <2>4. CASE Depth(idx) # h
    <3>1. Depth(idx) < h
      BY <1>0, <1>2, <2>4
    <3>2. 2 * Width(Depth(idx)) <= Width(h)
      BY <1>0, <2>1, <3>1, PowersGrow
    <3> QED
      BY <1>0, <2>2, <3>2
  <2> QED
    BY <2>3, <2>4
<1>4. count = IF idx = 0 THEN 0 ELSE Width(Depth(idx))
  BY DEF PeakLeafCount, Width, idx
<1> HIDE DEF count, all
<1>5. count \in 0..all
  BY <1>0, <1>3, <1>4
<1>6. LastIndex(count) \in Int /\ LastIndex(count) <= 2 * (all - 1)
  BY <1>0, <1>5 DEF LastIndex
<1> QED
  BY <1>5, <1>6 DEF count, all
-----------------------------------------------------------------------------
(* The tree of the content *)

\* The tree is just high enough for its chunks.
LEMMA TreeFacts ==
    /\ NumChunks \in Nat /\ NumChunks >= 2
    /\ Doubling(NumChunks)
    /\ Height \in 1..NumChunks /\ Levels = 0..Height
    /\ Leaves = Width(Height) /\ Leaves \in Nat /\ NumChunks <= Leaves
    /\ Width(Height - 1) \in Nat /\ Width(Height - 1) < NumChunks
    /\ Leaves = 2 * Width(Height - 1)
<1>1. NumChunks \in Nat /\ NumChunks >= 2
  BY NumChunksAssumption
<1>2. Doubling(NumChunks)
  BY PowersAssumption DEF Doubling, Width
<1>3. Leaves = Width(Height) /\ Levels = 0..Height
  BY DEF Leaves, Levels, Height, Width
<1> QED
  BY <1>1, <1>2, <1>3, TreeHeight DEF Height

\* Nodes of the tree lie on its leaves.
LEMMA RangeFacts ==
    ASSUME NEW r \in Ranges
    PROVE  /\ r.Start \in Nat /\ r.End \in Nat /\ r.Start <= r.End
           /\ r.End <= Leaves - 1
<1>1. PICK i \in 0..(Leaves - 1), k \in Levels : r = NodeOf(i, k)
  BY DEF Ranges
<1>2. i \in Nat /\ k \in 0..(NumChunks + 1) /\ k <= Height /\ i \in 0..(Width(Height) - 1)
      /\ Height \in 0..(NumChunks + 1)
  BY TreeFacts
<1>3. r.Start \in Nat /\ r.End \in Nat /\ r.Start <= i /\ i <= r.End
  BY <1>1, <1>2, TreeFacts, NodeFacts
<1>4. r.End <= NodeOf(i, Height).End
  BY <1>1, <1>2, TreeFacts, Nested
<1>5. NodeOf(i, Height).End = Leaves - 1
  <2>1. NodeOf(i, Height) = [Start |-> 0, End |-> Width(Height) - 1]
    BY <1>2, TreeFacts, RootNode
  <2> QED
    BY <2>1, TreeFacts
<1> QED
  BY <1>3, <1>4, <1>5, TreeFacts

\* A node lies around its leaf.
LEMMA NodeInTree ==
    ASSUME NEW i \in 0..(Leaves - 1), NEW k \in Levels
    PROVE  LET r == NodeOf(i, k)
           IN  /\ r.Start \in Nat /\ r.End \in Nat /\ r.Start <= i /\ i <= r.End
               /\ r.End <= Leaves - 1 /\ r \in Ranges
<1>1. NodeOf(i, k) \in Ranges
  BY DEF Ranges
<1>2. i \in Nat /\ k \in 0..(NumChunks + 1)
  BY TreeFacts
<1>3. NodeOf(i, k).Start <= i /\ i <= NodeOf(i, k).End
  BY <1>2, TreeFacts, NodeFacts
<1> QED
  BY <1>1, <1>3, RangeFacts

\* The root lies on all leaves, its sibling behind them.
LEMMA RootInTree ==
    ASSUME NEW i \in 0..(Leaves - 1)
    PROVE  /\ NodeOf(i, Height) = [Start |-> 0, End |-> Leaves - 1]
           /\ SiblingOf(i, Height).Start = Leaves
           /\ SiblingOf(i, Height).End = 2 * Leaves - 1
<1>1. /\ i \in 0..(Width(Height) - 1) /\ Height \in 0..NumChunks
      /\ Height \in 0..(NumChunks + 1)
  BY TreeFacts
<1>2. NodeOf(i, Height) = [Start |-> 0, End |-> Width(Height) - 1]
  BY <1>1, TreeFacts, RootNode
<1>3. /\ SiblingOf(i, Height).Start = Width(Height)
      /\ SiblingOf(i, Height).End = 2 * Width(Height) - 1
  BY <1>1, TreeFacts, SiblingOfRoot
<1> QED
  BY <1>2, <1>3, TreeFacts

\* A node is within those above it, which all its leaves share.
LEMMA AboveInTree ==
    ASSUME NEW i \in 0..(Leaves - 1), NEW k \in Levels, NEW l \in k..Height
    PROVE  /\ NodeOf(i, l).Start <= NodeOf(i, k).Start
           /\ NodeOf(i, k).End <= NodeOf(i, l).End
           /\ \A j \in 0..(Leaves - 1) :
                 NodeOf(i, k).Start <= j /\ j <= NodeOf(i, k).End =>
                    NodeOf(j, l) = NodeOf(i, l) /\ SiblingOf(j, l) = SiblingOf(i, l)
<1>1. /\ i \in Nat /\ k \in 0..(NumChunks + 1) /\ l \in 0..(NumChunks + 1) /\ k <= l
      /\ l \in k..(NumChunks + 1)
  BY TreeFacts
<1>2. ASSUME NEW j \in 0..(Leaves - 1),
             NodeOf(i, k).Start <= j /\ j <= NodeOf(i, k).End
      PROVE  NodeOf(j, l) = NodeOf(i, l) /\ SiblingOf(j, l) = SiblingOf(i, l)
  <2>1. j \in Nat
    BY TreeFacts
  <2>2. NodeOf(j, k) = NodeOf(i, k)
    BY <1>1, <1>2, <2>1, TreeFacts, NodeSame
  <2> QED
    BY <1>1, <2>1, <2>2, TreeFacts, AboveSame
<1>3. /\ NodeOf(i, l).Start <= NodeOf(i, k).Start
      /\ NodeOf(i, k).End <= NodeOf(i, l).End
  BY <1>1, TreeFacts, Nested
<1> QED
  BY <1>2, <1>3

\* Below the root, siblings are the two halves of a node, each the sibling of
\* the other.
LEMMA HalvesInTree ==
    ASSUME NEW i \in 0..(Leaves - 1), NEW k \in 0..(Height - 1)
    PROVE  LET r == NodeOf(i, k)
               s == SiblingOf(i, k)
               p == NodeOf(i, k + 1)
           IN  /\ s.Start \in 0..(Leaves - 1) /\ s.End \in 0..(Leaves - 1)
               /\ s.Start <= s.End /\ s.End - s.Start = r.End - r.Start
               /\ \/ s.Start = r.End + 1 /\ p.Start = r.Start /\ p.End = s.End
                  \/ s.End = r.Start - 1 /\ p.Start = s.Start /\ p.End = r.End
               /\ NodeOf(s.Start, k) = s /\ SiblingOf(s.Start, k) = r
<1>1. /\ i \in 0..(Width(Height) - 1) /\ i \in Nat /\ k \in 0..NumChunks /\ k \in Levels
      /\ Height \in 0..(NumChunks + 1)
  BY TreeFacts
<1> DEFINE s == SiblingOf(i, k)
<1>2. s.Start \in Nat /\ s.End \in Nat /\ s.Start <= s.End /\ s.End <= Width(Height) - 1
  BY <1>1, TreeFacts, SiblingWithin
<1>3. NodeOf(s.Start, k) = s /\ SiblingOf(s.Start, k) = NodeOf(i, k)
  BY <1>1, TreeFacts, SiblingOfSibling
<1>4. LET r == NodeOf(i, k)
          p == NodeOf(i, k + 1)
      IN  \/ s.Start = r.End + 1 /\ p.Start = r.Start /\ p.End = s.End
          \/ s.End = r.Start - 1 /\ p.Start = s.Start /\ p.End = r.End
  BY <1>1, TreeFacts, Halves
<1>6. s.End - s.Start = NodeOf(i, k).End - NodeOf(i, k).Start
  <2>0. k \in 0..(NumChunks + 1) /\ NumChunks \in Nat /\ Doubling(NumChunks)
    BY TreeFacts
  <2>1. /\ NodeOf(i, k).End = NodeOf(i, k).Start + Width(k) - 1
        /\ NodeOf(i, k).Start \in Nat
    BY <1>1, <2>0, NodeFacts
  <2>2. s.End = s.Start + Width(k) - 1 /\ s.Start \in Nat
    BY <1>1, <2>0, Halves
  <2>3. Width(k) \in Nat
    BY <2>0, PowerPositive
  <2> HIDE DEF s
  <2> QED
    BY <2>1, <2>2, <2>3
<1> HIDE DEF s
<1>5. s.Start \in 0..(Leaves - 1) /\ s.End \in 0..(Leaves - 1)
  BY <1>2, TreeFacts
<1> QED
  BY <1>2, <1>3, <1>4, <1>5, <1>6 DEF s

\* A node has one level.
LEMMA LevelInTree ==
    ASSUME NEW i \in 0..(Leaves - 1), NEW j \in 0..(Leaves - 1),
           NEW k \in Levels, NEW l \in Levels, NodeOf(i, k) = NodeOf(j, l)
    PROVE  k = l
<1>1. i \in Nat /\ j \in Nat /\ k \in 0..(NumChunks + 1) /\ l \in 0..(NumChunks + 1)
  BY TreeFacts
<1> QED
  BY <1>1, TreeFacts, LevelUnique

\* The siblings above a leaf, but for that of the root, are nodes of the tree.
LEMMA SiblingInTree ==
    ASSUME NEW i \in 0..(Leaves - 1), NEW k \in 0..(Height - 1)
    PROVE  SiblingOf(i, k) \in Ranges
<1>1. i \in 0..(Width(Height) - 1) /\ i \in Nat /\ k \in 0..NumChunks /\ k \in Levels
      /\ Height \in 0..(NumChunks + 1)
  BY TreeFacts
<1> DEFINE s == SiblingOf(i, k)
<1>2. s.Start \in Nat /\ s.End \in Nat /\ s.Start <= s.End /\ s.End <= Leaves - 1
  BY <1>1, TreeFacts, SiblingWithin
<1>3. NodeOf(s.Start, k) = s
  BY <1>1, TreeFacts, SiblingOfSibling
<1> HIDE DEF s
<1>4. s.Start \in 0..(Leaves - 1)
  BY <1>2, TreeFacts
<1> QED
  BY <1>1, <1>3, <1>4 DEF s, Ranges

\* That of the root is not.
LEMMA SiblingBeyond ==
    ASSUME NEW i \in 0..(Leaves - 1)
    PROVE  SiblingOf(i, Height) \notin Ranges
<1>1. i \in 0..(Width(Height) - 1) /\ Height \in 0..NumChunks
  BY TreeFacts
<1>2. SiblingOf(i, Height).End = 2 * Leaves - 1
  BY <1>1, TreeFacts, SiblingOfRoot
<1> QED
  BY <1>2, RangeFacts, TreeFacts

\* The siblings of a way up that ends at the root at the latest.
LEMMA SiblingsInTree ==
    ASSUME NEW i \in 0..(Leaves - 1), NEW k \in Levels, NEW top \in Int, top <= Height
    PROVE  Siblings(i, k, top) \subseteq Ranges
BY SiblingInTree, TreeFacts DEF Siblings

\* With the index of the last leaf for a bound, the way up ends at the root.
LEMMA TopOfTree ==
    ASSUME NEW i \in 0..(Leaves - 1), NEW k \in Levels
    PROVE  Top(i, k, 2 * (Leaves - 1)) = Height
<1> DEFINE Beyond == {j \in k..(Height + 1) :
                          TreeIndex(SiblingOf(i, j)) > 2 * (Leaves - 1)}
<1>1. i \in 0..(Width(Height) - 1) /\ Height \in 0..NumChunks /\ Height \in 0..(NumChunks + 1)
  BY TreeFacts
<1>2. Height \in Beyond
  <2>1. TreeIndex(SiblingOf(i, Height)) > 2 * (Width(Height) - 1)
    BY <1>1, TreeFacts, SiblingOfRoot
  <2> QED
    BY <2>1, TreeFacts
<1>3. \A j \in Beyond : j >= Height
  <2>1. SUFFICES ASSUME NEW j \in 0..(Height - 1)
                 PROVE  ~(TreeIndex(SiblingOf(i, j)) > 2 * (Leaves - 1))
    BY TreeFacts
  <2>2. /\ TreeIndex(SiblingOf(i, j)) <= 2 * (Leaves - 1)
        /\ SiblingOf(i, j).Start \in Nat /\ SiblingOf(i, j).End \in Nat
    BY <1>1, TreeFacts, SiblingWithin
  <2> QED
    BY <2>2, TreeFacts DEF TreeIndex
<1>4. Beyond \in SUBSET Nat
  BY TreeFacts
<1> HIDE DEF Beyond
<1>5. Min(Beyond) \in Beyond /\ \A j \in Beyond : Min(Beyond) <= j
  BY <1>2, <1>4, MinInSet
<1>6. Min(Beyond) = Height
  <2>1. Min(Beyond) \in Nat /\ Min(Beyond) >= Height /\ Min(Beyond) <= Height
    BY <1>2, <1>3, <1>4, <1>5
  <2> QED
    BY <2>1, TreeFacts
<1> QED
  BY <1>6 DEF Beyond, Top

-----------------------------------------------------------------------------
(* The peaks *)

LastChunk == NumChunks - 1

\* Contents that fill their tree are those of a power of two chunks.
LEMMA FullTree == IsPowerOfTwo(NumChunks) <=> NumChunks = Leaves
<1>1. ASSUME NumChunks = Leaves PROVE IsPowerOfTwo(NumChunks)
  BY <1>1, TreeFacts DEF IsPowerOfTwo, Width
<1>2. ASSUME IsPowerOfTwo(NumChunks), NumChunks < Leaves PROVE FALSE
  <2>1. PICK k \in 0..NumChunks : NumChunks = Width(k)
    BY <1>2 DEF IsPowerOfTwo, Width
  <2>2. k \in 0..(NumChunks + 1) /\ Height - 1 \in 0..(NumChunks + 1)
        /\ Height \in 0..(NumChunks + 1)
    BY TreeFacts
  <2>3. ~(Height - 1 < k)
    <3>1. ASSUME Height - 1 < k PROVE FALSE
      <4>1. CASE k = Height
        BY <1>2, <2>1, <4>1, TreeFacts
      <4>2. CASE k # Height
        <5>1. Height < k
          BY <2>2, <3>1, <4>2, TreeFacts
        <5>2. 2 * Width(Height) <= Width(k)
          BY <2>2, <5>1, TreeFacts, PowersGrow
        <5> QED
          BY <1>2, <2>1, <5>2, TreeFacts
      <4> QED
        BY <4>1, <4>2
    <3> QED
      BY <3>1
  <2>4. k = Height - 1 \/ 2 * Width(k) <= Width(Height - 1)
    BY <2>2, <2>3, TreeFacts, PowersGrow
  <2> QED
    BY <2>1, <2>4, TreeFacts
<1> QED
  BY <1>1, <1>2, TreeFacts

\* Seen from the last chunk: a peak is a complete node above it whose sibling
\* is not complete, or the complete sibling of one that is not.
PeakAt(p, l) ==
    LET r == NodeOf(LastChunk, l)
        s == SiblingOf(LastChunk, l)
    IN  \/ p = r /\ r.End = LastChunk /\ s.End > LastChunk
        \/ p = s /\ s.End <= LastChunk /\ r.End > LastChunk

\* These are the peaks of a content that does not fill its tree.
LEMMA PeakShape ==
    ASSUME NEW p
    PROVE  p \in ContentPeaks <=>
               /\ ~IsPowerOfTwo(NumChunks)
               /\ \E l \in 0..(Height - 1) : PeakAt(p, l)
<1> DEFINE c == LastChunk
<1>0. /\ c \in 0..(Leaves - 1) /\ c = NumChunks - 1 /\ c \in Nat /\ NumChunks \in Nat
      /\ Chunks \subseteq 0..(Leaves - 1) /\ Leaves \in Nat /\ Height \in Nat
  BY TreeFacts DEF Chunks, LastChunk
<1> HIDE DEF c
<1>1. ASSUME p \in ContentPeaks
      PROVE  ~IsPowerOfTwo(NumChunks) /\ \E l \in 0..(Height - 1) : PeakAt(p, l)
  <2>1. PICK l \in Levels : /\ p = NodeOf(p.Start, l)
                            /\ SiblingOf(p.Start, l).End >= NumChunks
    BY <1>1 DEF ContentPeaks
  <2>2. /\ ~IsPowerOfTwo(NumChunks) /\ p \in Ranges
        /\ p.End < NumChunks
    BY <1>0, <1>1 DEF ContentPeaks, Ranges
  <2>3. /\ p.Start \in Nat /\ p.End \in Nat /\ p.Start <= p.End
        /\ p.Start \in 0..(Leaves - 1)
    BY <2>2, RangeFacts, <1>0
  <2>4. l # Height
    <3>1. NumChunks # Leaves
      BY <2>2, FullTree
    <3>2. SUFFICES ASSUME l = Height PROVE FALSE
      OBVIOUS
    <3>3. p.End = Leaves - 1
      BY <2>1, <2>3, <3>2, RootInTree
    <3> QED
      BY <1>0, <2>2, <3>1, <3>3, TreeFacts
  <2>5. l \in 0..(Height - 1)
    BY <2>4, TreeFacts
  <2> DEFINE s == SiblingOf(p.Start, l)
             q == NodeOf(p.Start, l + 1)
  <2>6. /\ s.Start \in 0..(Leaves - 1) /\ s.End \in 0..(Leaves - 1) /\ s.Start <= s.End
        /\ \/ s.Start = p.End + 1 \/ s.End = p.Start - 1
        /\ NodeOf(s.Start, l) = s /\ SiblingOf(s.Start, l) = p
    BY <2>1, <2>3, <2>5, HalvesInTree
  <2>7. s.End >= NumChunks
    BY <2>1
  <2> HIDE DEF s
  <2>8. s.Start = p.End + 1 /\ s.End > c /\ p.End <= c
    BY <1>0, <2>2, <2>3, <2>6, <2>7
  <2>9. CASE p.End = c
    <3>1. p.Start <= c /\ c <= p.End
      BY <2>3, <2>9
    <3>2. NodeOf(c, l) = p /\ SiblingOf(c, l) = s
      <4>1. l \in l..Height
        BY <2>5, TreeFacts
      <4>2. NodeOf(p.Start, l).Start <= c /\ c <= NodeOf(p.Start, l).End
        BY <2>1, <3>1
      <4>3. /\ NodeOf(c, l) = NodeOf(p.Start, l)
            /\ SiblingOf(c, l) = SiblingOf(p.Start, l)
        BY <1>0, <2>1, <2>3, <4>1, <4>2, AboveInTree
      <4> QED
        BY <2>1, <4>3 DEF s
    <3>3. PeakAt(p, l)
      BY <2>8, <2>9, <3>2 DEF PeakAt, c
    <3> QED
      BY <2>2, <2>5, <3>3
  <2>10. CASE p.End # c
    <3>1. s.Start <= c /\ c <= s.End
      BY <1>0, <2>3, <2>6, <2>8, <2>10
    <3>2. NodeOf(c, l) = s /\ SiblingOf(c, l) = p
      <4>1. l \in l..Height
        BY <2>5, TreeFacts
      <4>2. NodeOf(s.Start, l).Start <= c /\ c <= NodeOf(s.Start, l).End
        BY <2>6, <3>1
      <4>3. /\ NodeOf(c, l) = NodeOf(s.Start, l)
            /\ SiblingOf(c, l) = SiblingOf(s.Start, l)
        BY <1>0, <2>1, <2>6, <4>1, <4>2, AboveInTree
      <4> QED
        BY <2>6, <4>3
    <3>3. PeakAt(p, l)
      BY <2>8, <3>2 DEF PeakAt, c
    <3> QED
      BY <2>2, <2>5, <3>3
  <2> QED
    BY <2>9, <2>10
<1>2. ASSUME ~IsPowerOfTwo(NumChunks), NEW l \in 0..(Height - 1), PeakAt(p, l)
      PROVE  p \in ContentPeaks
  <2> DEFINE r == NodeOf(c, l)
             s == SiblingOf(c, l)
  <2>0. l \in Levels /\ l \in l..Height
    BY TreeFacts
  <2>1. /\ s.Start \in 0..(Leaves - 1) /\ s.End \in 0..(Leaves - 1) /\ s.Start <= s.End
        /\ NodeOf(s.Start, l) = s /\ SiblingOf(s.Start, l) = r
    BY <1>0, HalvesInTree
  <2>2. /\ r.Start \in Nat /\ r.End \in Nat /\ r.Start <= c /\ c <= r.End
        /\ r.End <= Leaves - 1
    BY <1>0, <2>0, NodeInTree
  <2>3. /\ r.Start \in 0..(Leaves - 1)
        /\ NodeOf(r.Start, l) = r /\ SiblingOf(r.Start, l) = s
    <3>1. r.Start \in 0..(Leaves - 1) /\ r.Start <= r.End
      BY <1>0, <2>2
    <3> QED
      BY <1>0, <2>0, <3>1, AboveInTree
  <2>4. ASSUME NEW o, o.Start \in 0..(Leaves - 1), o.Start < NumChunks,
               o.End < NumChunks, o = NodeOf(o.Start, l),
               SiblingOf(o.Start, l).End >= NumChunks
        PROVE  o \in ContentPeaks
    <3>1. o.Start \in Chunks
      BY <2>4, TreeFacts DEF Chunks
    <3> QED
      BY <1>2, <2>0, <2>4, <3>1 DEF ContentPeaks
  <2>5. CASE p = r /\ r.End = c /\ s.End > c
    <3> HIDE DEF r, s
    <3>1. /\ r.Start < NumChunks /\ r.End < NumChunks /\ s.End >= NumChunks
      BY <1>0, <2>1, <2>2, <2>5
    <3> QED
      BY <2>3, <2>4, <2>5, <3>1
  <2>6. CASE p = s /\ s.End <= c /\ r.End > c
    <3> HIDE DEF r, s
    <3>1. /\ s.Start < NumChunks /\ s.End < NumChunks /\ r.End >= NumChunks
      BY <1>0, <2>1, <2>2, <2>6
    <3> QED
      BY <2>1, <2>4, <2>6, <3>1
  <2> QED
    BY <1>2, <2>5, <2>6 DEF PeakAt, c
<1> QED
  BY <1>1, <1>2

\* One of them ends with the last chunk, and so does one that is a leaf.
LEMMA PeakEnds ==
    /\ ~IsPowerOfTwo(NumChunks) => \E p \in ContentPeaks : p.End = LastChunk
    /\ \A p \in ContentPeaks : p.Start = p.End => p.End = LastChunk
<1> DEFINE c == LastChunk
<1>0. /\ c \in 0..(Leaves - 1) /\ c = NumChunks - 1 /\ c \in Nat /\ NumChunks \in Nat
      /\ Leaves \in Nat /\ Height \in Nat /\ Height > 0 /\ NumChunks <= Leaves
      /\ Levels = 0..Height
  BY TreeFacts DEF LastChunk
<1> HIDE DEF c
<1>1. ASSUME ~IsPowerOfTwo(NumChunks)
      PROVE  \E p \in ContentPeaks : p.End = c
  <2> DEFINE Open == {k \in Levels : NodeOf(c, k).End > c}
  <2>1. Height \in Open
    <3>1. NumChunks # Leaves
      BY <1>1, FullTree
    <3>2. NodeOf(c, Height) = [Start |-> 0, End |-> Leaves - 1]
      BY <1>0, RootInTree
    <3> QED
      BY <1>0, <3>1, <3>2
  <2>2. Open \in SUBSET Nat
    BY <1>0
  <2>3. Min(Open) \in Open /\ \A k \in Open : Min(Open) <= k
    <3> HIDE DEF Open
    <3> QED
      BY <2>1, <2>2, MinInSet
  <2>4. 0 \notin Open
    <3>1. 0 \in 0..(NumChunks + 1) /\ Doubling(NumChunks) /\ Width(0) = 1
      BY TreeFacts DEF Doubling
    <3>2. NodeOf(c, 0).End = NodeOf(c, 0).Start + 1 - 1 /\ NodeOf(c, 0).Start <= c
          /\ NodeOf(c, 0).Start \in Nat
      BY <1>0, <3>1, NodeFacts
    <3> QED
      BY <1>0, <3>2
  <2> DEFINE l == Min(Open) - 1
  <2>5. l \in 0..(Height - 1) /\ l \in Levels /\ l \notin Open /\ l + 1 \in Open
    <3>1. Min(Open) # 0 /\ Min(Open) \in 0..Height
      BY <1>0, <2>3, <2>4
    <3>2. l \in 0..(Height - 1) /\ l \in Levels /\ l + 1 = Min(Open) /\ ~(Min(Open) <= l)
      <4> HIDE DEF Open
      <4> QED
        BY <1>0, <3>1
    <3> HIDE DEF Open
    <3> QED
      BY <2>3, <3>2
  <2> HIDE DEF l
  <2> DEFINE r == NodeOf(c, l)
             s == SiblingOf(c, l)
  <2>6. r.Start \in Nat /\ r.End \in Nat /\ c <= r.End /\ r.Start <= c
    BY <1>0, <2>5, NodeInTree
  <2>7. r.End = c /\ NodeOf(c, l + 1).End > c
    BY <1>0, <2>5, <2>6
  <2>8. \/ s.Start = r.End + 1 /\ NodeOf(c, l + 1).End = s.End
        \/ s.End = r.Start - 1 /\ NodeOf(c, l + 1).End = r.End
    BY <1>0, <2>5, HalvesInTree
  <2>9. PeakAt(r, l)
    BY <1>0, <2>7, <2>8 DEF PeakAt, c
  <2>10. r \in ContentPeaks
    <3> HIDE DEF r
    <3> QED
      BY <1>1, <2>5, <2>9, PeakShape
  <2> QED
    BY <2>7, <2>10
<1>2. ASSUME NEW p \in ContentPeaks, p.Start = p.End
      PROVE  p.End = c
  <2>1. PICK l \in 0..(Height - 1) : PeakAt(p, l)
    BY PeakShape
  <2> DEFINE r == NodeOf(c, l)
             s == SiblingOf(c, l)
  <2>2. l \in Levels
    BY <1>0
  <2>3. r.Start \in Nat /\ r.End \in Nat /\ r.Start <= c
    BY <1>0, <2>2, NodeInTree
  <2>4. s.End - s.Start = r.End - r.Start /\ s.Start \in 0..(Leaves - 1) /\ s.End \in 0..(Leaves - 1)
    BY <1>0, HalvesInTree
  <2>5. \/ p = r /\ r.End = c
        \/ p = s /\ r.End > c
    BY <2>1 DEF PeakAt, c
  <2> HIDE DEF r, s
  <2>6. CASE p = r /\ r.End = c
    BY <2>6
  <2>7. CASE p = s /\ r.End > c
    BY <1>0, <1>2, <2>3, <2>4, <2>7
  <2> QED
    BY <2>5, <2>6, <2>7
<1> QED
  BY <1>1, <1>2 DEF c

\* The siblings above the first chunk. They are all content, and no peaks.
FirstSiblings == Siblings(0, 0, Height)

\* The nodes and the siblings on the way up from the first chunk.
LEMMA FirstNodes ==
    ASSUME NEW j \in 0..(Height - 1)
    PROVE  LET r == NodeOf(0, j)
               s == SiblingOf(0, j)
           IN  /\ r.Start = 0 /\ r.End = Width(j) - 1 /\ r.End < LastChunk
               /\ s.Start = Width(j) /\ s.End = Width(j + 1) - 1
               /\ Width(j) \in Nat \ {0} /\ Width(j + 1) = 2 * Width(j)
               /\ ~Padding(s) /\ r \notin FirstSiblings
<1>0. /\ NumChunks \in Nat /\ Doubling(NumChunks) /\ j \in 0..NumChunks
      /\ j \in 0..(NumChunks + 1) /\ Height - 1 \in 0..(NumChunks + 1) /\ 0 \in Nat
      /\ 0 \in 0..(Leaves - 1) /\ LastChunk = NumChunks - 1
      /\ Width(Height - 1) \in Nat /\ Width(Height - 1) < NumChunks
      /\ Leaves \in Nat /\ Height \in Nat
  BY TreeFacts DEF LastChunk
<1>1. ASSUME NEW l \in 0..(Height - 1)
      PROVE  /\ NodeOf(0, l) = [Start |-> 0, End |-> Width(l) - 1]
             /\ SiblingOf(0, l).Start = Width(l) /\ SiblingOf(0, l).End = Width(l) + Width(l) - 1
             /\ Width(l) \in Nat \ {0}
  <2>0. l \in 0..(NumChunks + 1) /\ l \in 0..NumChunks
    BY TreeFacts
  <2>1. Width(l) \in Nat \ {0}
    BY <1>0, <2>0, PowerPositive
  <2>2. 0 \in 0..(Width(l) - 1)
    BY <2>1
  <2>3. NodeOf(0, l) = [Start |-> 0, End |-> Width(l) - 1]
    BY <1>0, <2>0, <2>2, RootNode
  <2>4. /\ SiblingOf(0, l).Start = Width(l) /\ SiblingOf(0, l).End = 2 * Width(l) - 1
    BY <1>0, <2>0, <2>2, SiblingOfRoot
  <2> QED
    BY <2>1, <2>3, <2>4
<1>2. Width(j + 1) = 2 * Width(j) /\ Width(j) \in Nat \ {0}
  BY <1>0, <1>1 DEF Doubling
<1>3. Width(j) <= Width(Height - 1)
  <2>1. CASE j = Height - 1
    BY <1>0, <2>1
  <2>2. CASE j # Height - 1
    <3>1. j < Height - 1
      BY <1>0, <2>2
    <3>2. 2 * Width(j) <= Width(Height - 1)
      BY <1>0, <3>1, PowersGrow
    <3> QED
      BY <1>0, <1>2, <3>2
  <2> QED
    BY <2>1, <2>2
<1>4. NodeOf(0, j).Start = 0 /\ NodeOf(0, j).End = Width(j) - 1
  BY <1>1
<1>5. NodeOf(0, j) \notin FirstSiblings
  <2>1. ASSUME NEW l \in 0..(Height - 1) PROVE NodeOf(0, j) # SiblingOf(0, l)
    BY <1>1, <1>4
  <2> QED
    BY <2>1 DEF FirstSiblings, Siblings
<1> QED
  BY <1>0, <1>1, <1>2, <1>3, <1>4, <1>5 DEF Padding

\* A peak lies before a padding, no sibling above the first chunk does.
LEMMA FirstNoPeaks == FirstSiblings \cap ContentPeaks = {}
<1>0. 0 \in 0..(Leaves - 1) /\ Height \in Nat /\ NumChunks \in Nat /\ LastChunk = NumChunks - 1
  BY TreeFacts DEF LastChunk
<1>1. SUFFICES ASSUME NEW j \in 0..(Height - 1), SiblingOf(0, j) \in ContentPeaks
               PROVE  FALSE
  BY DEF FirstSiblings, Siblings
<1> DEFINE s == SiblingOf(0, j)
<1>2. PICK k \in Levels : s = NodeOf(s.Start, k) /\ SiblingOf(s.Start, k).End >= NumChunks
  BY <1>1 DEF ContentPeaks
<1>3. /\ s.Start \in 0..(Leaves - 1)
      /\ NodeOf(s.Start, j) = s /\ SiblingOf(s.Start, j) = NodeOf(0, j)
  BY <1>0, HalvesInTree
<1>4. j \in Levels
  BY <1>0, TreeFacts
<1>5. k = j
  BY <1>2, <1>3, <1>4, LevelInTree
<1>6. NodeOf(0, j).End >= NumChunks
  BY <1>2, <1>3, <1>5
<1>7. NodeOf(0, j).End < LastChunk /\ NodeOf(0, j).End = Width(j) - 1 /\ Width(j) \in Nat \ {0}
  BY FirstNodes
<1> QED
  BY <1>0, <1>6, <1>7

\* The nodes that GetPeakHashes collects on the way up from the last chunk.
LEMMA PeaksOfTree ==
    ASSUME ~IsPowerOfTwo(NumChunks)
    PROVE  LET node(k) == NodeOf(LastChunk, k)
               sibling(k) == SiblingOf(LastChunk, k)
               complete(r) == r.End <= LastChunk
           IN  ContentPeaks =
                  {node(k) : k \in {j \in Levels :
                                complete(node(j)) /\ ~complete(sibling(j))}} \cup
                  {sibling(k) : k \in {j \in Levels :
                                complete(sibling(j)) /\ ~complete(node(j))}}
<1> DEFINE c == LastChunk
           Nodes == {NodeOf(c, k) : k \in {j \in Levels :
                        NodeOf(c, j).End <= c /\ ~(SiblingOf(c, j).End <= c)}}
           Others == {SiblingOf(c, k) : k \in {j \in Levels :
                        SiblingOf(c, j).End <= c /\ ~(NodeOf(c, j).End <= c)}}
<1>0. /\ c \in 0..(Leaves - 1) /\ c = NumChunks - 1 /\ c \in Nat /\ NumChunks \in Nat
      /\ Leaves \in Nat /\ Height \in Nat /\ Height > 0 /\ NumChunks <= Leaves
      /\ Levels = 0..Height
  BY TreeFacts DEF LastChunk
<1>1. NumChunks # Leaves
  BY FullTree
<1>2. /\ NodeOf(c, Height).End = Leaves - 1
      /\ SiblingOf(c, Height).End = 2 * Leaves - 1
  BY <1>0, RootInTree
<1>3. ASSUME NEW k \in Levels
      PROVE  /\ NodeOf(c, k).End \in Nat /\ c <= NodeOf(c, k).End
             /\ SiblingOf(c, k).End \in Nat
  <2>1. NodeOf(c, k).End \in Nat /\ c <= NodeOf(c, k).End
    BY <1>0, NodeInTree
  <2>2. CASE k = Height
    BY <1>0, <1>2, <2>1, <2>2
  <2>3. CASE k # Height
    <3>1. k \in 0..(Height - 1)
      BY <1>0, <2>3
    <3>2. SiblingOf(c, k).End \in 0..(Leaves - 1)
      BY <1>0, <3>1, HalvesInTree
    <3> QED
      BY <2>1, <3>2
  <2> QED
    BY <2>2, <2>3
<1> HIDE DEF c
<1>4. ASSUME NEW p \in ContentPeaks PROVE p \in Nodes \cup Others
  <2>1. PICK l \in 0..(Height - 1) : PeakAt(p, l)
    BY PeakShape
  <2>2. l \in Levels
    BY <1>0
  <2>3. \/ p = NodeOf(c, l) /\ NodeOf(c, l).End <= c /\ ~(SiblingOf(c, l).End <= c)
        \/ p = SiblingOf(c, l) /\ SiblingOf(c, l).End <= c /\ ~(NodeOf(c, l).End <= c)
    BY <1>0, <1>3, <2>1, <2>2 DEF PeakAt, c
  <2> QED
    BY <2>2, <2>3
<1>5. ASSUME NEW p \in Nodes \cup Others PROVE p \in ContentPeaks
  <2>1. PICK l \in Levels :
           \/ p = NodeOf(c, l) /\ NodeOf(c, l).End <= c /\ ~(SiblingOf(c, l).End <= c)
           \/ p = SiblingOf(c, l) /\ SiblingOf(c, l).End <= c /\ ~(NodeOf(c, l).End <= c)
    BY <1>5
  <2>2. l # Height
    BY <1>0, <1>1, <1>2, <2>1
  <2>3. l \in 0..(Height - 1)
    BY <1>0, <2>2
  <2>4. PeakAt(p, l)
    BY <1>0, <1>3, <2>1 DEF PeakAt, c
  <2> QED
    BY <2>3, <2>4, PeakShape
<1>6. ContentPeaks = Nodes \cup Others
  BY <1>4, <1>5
<1> QED
  BY <1>6 DEF c

\* On the way up, Top is the first level whose sibling has a higher index.
LEMMA TopFacts ==
    ASSUME NEW i \in 0..(Leaves - 1), NEW k \in Levels,
           NEW last \in Int, last <= 2 * (Leaves - 1)
    PROVE  /\ Top(i, k, last) \in k..Height
           /\ TreeIndex(SiblingOf(i, Top(i, k, last))) > last
<1> DEFINE Beyond == {j \in k..(Height + 1) : TreeIndex(SiblingOf(i, j)) > last}
<1>1. /\ Height \in k..(Height + 1) /\ k \in Nat /\ Height \in Nat /\ Leaves \in Nat
  BY TreeFacts
<1>2. TreeIndex(SiblingOf(i, Height)) = 3 * Leaves - 1
  BY <1>1, RootInTree DEF TreeIndex
<1>3. Height \in Beyond
  BY <1>1, <1>2
<1>4. Beyond \in SUBSET Nat
  BY <1>1
<1>5. Top(i, k, last) = Min(Beyond)
  BY DEF Top
<1>6. Min(Beyond) \in Beyond /\ Min(Beyond) <= Height
  <2> HIDE DEF Beyond
  <2> QED
    BY <1>3, <1>4, MinInSet
<1> QED
  BY <1>1, <1>5, <1>6

\* The number of leaves that CheckPeakHash computes from the end of the node it
\* starts from is that of a tree no larger.
LEMMA LeafCountFacts ==
    ASSUME NEW end \in 0..(Leaves - 1)
    PROVE  /\ PeakLeafCount(end) \in 0..Leaves
           /\ LastIndex(PeakLeafCount(end)) \in Int
           /\ LastIndex(PeakLeafCount(end)) <= 2 * (Leaves - 1)
<1>1. Height \in 1..NumChunks /\ end \in 0..(Width(Height) - 1)
  BY TreeFacts
<1> QED
  BY <1>1, TreeFacts, LeafCountBound

\* It is the number for the first node and its sibling, if that is the start.
LEMMA LeafCountFirst ==
    ASSUME NEW j \in 0..(Height - 1)
    PROVE  PeakLeafCount(Width(j + 1) - 1) = Width(j + 1)
<1>0. /\ NumChunks \in Nat /\ Doubling(NumChunks)
      /\ j \in 0..(NumChunks + 1) /\ j + 1 \in 0..(NumChunks + 1) /\ j = (j + 1) - 1
  BY TreeFacts
<1>1. Width(j) \in Nat \ {0} /\ Width(j + 1) = 2 * Width(j)
  BY FirstNodes
<1>2. /\ (Width(j + 1) - 1) % 2 # 0
      /\ Width(j + 1) - 1 + 1 = Width(j + 1) /\ Width(j + 1) \in Nat \ {0}
      /\ Width(j) < Width(j + 1)
  <2> DEFINE w == Width(j)
  <2>1. w \in Nat \ {0} /\ Width(j + 1) = 2 * w
    BY <1>1
  <2> HIDE DEF w
  <2>2. (2 * w - 1) % 2 # 0
    BY <2>1
  <2> QED
    BY <2>1, <2>2 DEF w
<1>3. Depth(Width(j + 1)) = j + 1
  <2> DEFINE h == j + 1
             m == Width(h)
  <2>1. h \in 0..(NumChunks + 1) /\ m \in Nat /\ m <= Width(h) /\ Width(h - 1) < m
    BY <1>0, <1>2
  <2> HIDE DEF h, m
  <2>2. Depth(m) = h
    BY <1>0, <2>1, DepthIs
  <2> QED
    BY <2>2 DEF h, m
<1> QED
  BY <1>2, <1>3 DEF PeakLeafCount, Width

\* The contents whose peak hashes CheckPeakHash can check: those without a last
\* chunk that is alone behind a power of two, of which it computes half a tree.
PeaksCheckable == \A k \in 1..NumChunks : NumChunks # 2^k + 1

\* For them it is the number of leaves of the tree, if it starts from a peak at
\* the end.
LEMMA LeafCountLast ==
    ASSUME PeaksCheckable, ~IsPowerOfTwo(NumChunks)
    PROVE  PeakLeafCount(LastChunk) = Leaves
<1> DEFINE idx == IF LastChunk % 2 # 0 THEN LastChunk + 1 ELSE LastChunk
           w == Width(Height - 1)
<1>0. /\ NumChunks \in Nat /\ NumChunks >= 2 /\ Doubling(NumChunks)
      /\ Height \in 0..(NumChunks + 1) /\ Height \in 1..NumChunks
      /\ Leaves = Width(Height) /\ Leaves \in Nat /\ NumChunks <= Leaves
      /\ Leaves = 2 * w /\ w \in Nat /\ w < NumChunks
      /\ LastChunk = NumChunks - 1
  BY TreeFacts DEF LastChunk
<1>1. NumChunks # Leaves
  BY FullTree
<1>2. w + 1 # NumChunks \/ Height = 1
  <2>1. Height - 1 \in 1..NumChunks \/ Height = 1
    BY <1>0
  <2> QED
    BY <1>0, <2>1 DEF PeaksCheckable, Width
<1>3. Height # 1
  <2>1. SUFFICES ASSUME Height = 1 PROVE FALSE
    OBVIOUS
  <2>2. w = 1
    BY <1>0, <2>1 DEF Doubling
  <2> QED
    BY <1>0, <1>1, <2>2
<1>4. idx \in Nat \ {0} /\ idx <= Leaves /\ w < idx
  <2> HIDE DEF w
  <2>1. idx = NumChunks \/ idx = NumChunks - 1
    BY <1>0
  <2> QED
    BY <1>0, <1>1, <1>2, <1>3, <2>1
<1> HIDE DEF idx
<1>5. Depth(idx) = Height
  <2>1. idx <= Width(Height) /\ Width(Height - 1) < idx
    BY <1>0, <1>4
  <2>2. idx \in Nat
    BY <1>4
  <2> HIDE DEF w
  <2> QED
    BY <1>0, <2>1, <2>2, DepthIs
<1> QED
  BY <1>0, <1>4, <1>5 DEF PeakLeafCount, Width, idx

-----------------------------------------------------------------------------
(* The check of the peak hashes *)

\* The peak with the last chunk, its level, and the siblings above it: those to
\* the left are the other peaks, those to the right padding.
LEMMA LastPeak ==
    ASSUME NEW m \in ContentPeaks, m.End = LastChunk
    PROVE  \E k \in 0..(Height - 1) :
              /\ m = NodeOf(LastChunk, k)
              /\ \A l \in k..(Height - 1) :
                    LET s == SiblingOf(LastChunk, l)
                    IN  \/ s \in ContentPeaks /\ s.End < LastChunk
                        \/ s.Start > LastChunk
              /\ \A p \in ContentPeaks : \/ p = m
                                        \/ \E l \in k..(Height - 1) :
                                              /\ p = SiblingOf(LastChunk, l)
                                              /\ p.End < LastChunk
<1> DEFINE c == LastChunk
           R(l) == NodeOf(c, l)
           S(l) == SiblingOf(c, l)
<1>0. /\ c \in 0..(Leaves - 1) /\ c \in Nat /\ Leaves \in Nat /\ Height \in Nat
      /\ Levels = 0..Height
  BY TreeFacts DEF LastChunk
<1>1. ASSUME NEW l \in 0..(Height - 1)
      PROVE  /\ R(l).Start \in Nat /\ R(l).End \in Nat /\ R(l).Start <= c /\ c <= R(l).End
             /\ S(l).Start \in Nat /\ S(l).End \in Nat /\ S(l).Start <= S(l).End
             /\ \/ S(l).Start = R(l).End + 1 /\ R(l + 1).End = S(l).End
                \/ S(l).End = R(l).Start - 1 /\ R(l + 1).End = R(l).End
  <2>1. l \in Levels
    BY <1>0
  <2>2. /\ R(l).Start \in Nat /\ R(l).End \in Nat /\ R(l).Start <= c /\ c <= R(l).End
    BY <1>0, <2>1, NodeInTree
  <2>3. /\ S(l).Start \in 0..(Leaves - 1) /\ S(l).End \in 0..(Leaves - 1)
        /\ S(l).Start <= S(l).End
        /\ \/ S(l).Start = R(l).End + 1 /\ R(l + 1).End = S(l).End
           \/ S(l).End = R(l).Start - 1 /\ R(l + 1).End = R(l).End
    BY <1>0, HalvesInTree
  <2> HIDE DEF R, S, c
  <2> QED
    BY <1>0, <2>2, <2>3
<1>2. ASSUME NEW l \in 0..Height, NEW k \in l..Height
      PROVE  R(l).End <= R(k).End /\ R(l).End \in Nat /\ R(k).End \in Nat
  <2>1. l \in Levels /\ k \in Levels
    BY <1>0
  <2> QED
    BY <1>0, <2>1, NodeInTree, AboveInTree
<1>3. /\ ~IsPowerOfTwo(NumChunks)
      /\ \A p \in ContentPeaks : \E l \in 0..(Height - 1) :
            \/ p = R(l) /\ R(l).End = c /\ S(l).End > c
            \/ p = S(l) /\ S(l).End <= c /\ R(l).End > c
  BY PeakShape DEF PeakAt
<1>4. ASSUME NEW l \in 0..(Height - 1), S(l).End <= c, R(l).End > c
      PROVE  S(l) \in ContentPeaks
  BY <1>3, <1>4, PeakShape DEF PeakAt
<1>5. m.End = c
  OBVIOUS
<1> HIDE DEF R, S, c
<1>6. PICK k \in 0..(Height - 1) : m = R(k) /\ R(k).End = c /\ S(k).End > c
  <2>1. PICK k \in 0..(Height - 1) :
            \/ m = R(k) /\ R(k).End = c /\ S(k).End > c
            \/ m = S(k) /\ S(k).End <= c /\ R(k).End > c
    BY <1>3
  <2>2. ~(m = S(k) /\ S(k).End <= c /\ R(k).End > c)
    BY <1>0, <1>1, <1>5
  <2> QED
    BY <2>1, <2>2
<1>7. S(k).Start = c + 1 /\ R(k + 1).End > c
  BY <1>0, <1>1, <1>6
<1>8. ASSUME NEW l \in (k + 1)..Height
      PROVE  R(l).End > c /\ R(l).End \in Nat
  <2>1. k + 1 \in 0..Height /\ l \in (k + 1)..Height
    BY <1>0
  <2>2. R(k + 1).End <= R(l).End /\ R(k + 1).End \in Nat /\ R(l).End \in Nat
    BY <2>1, <1>2
  <2> QED
    BY <1>0, <1>7, <2>2
<1>9. ASSUME NEW l \in k..(Height - 1)
      PROVE  \/ S(l) \in ContentPeaks /\ S(l).End < c
             \/ S(l).Start > c
  <2>1. l \in 0..(Height - 1)
    BY <1>0
  <2>2. CASE l = k
    BY <1>0, <1>7, <2>2
  <2>3. CASE l # k
    <3>1. l \in (k + 1)..Height
      BY <1>0, <2>3
    <3>2. R(l).End > c
      BY <1>8, <3>1
    <3>3. CASE S(l).Start = R(l).End + 1
      BY <1>0, <1>1, <2>1, <3>2, <3>3
    <3>4. CASE S(l).End = R(l).Start - 1
      <4>1. S(l).End < c
        BY <1>0, <1>1, <2>1, <3>4
      <4>2. S(l).End <= c
        BY <1>0, <1>1, <2>1, <4>1
      <4> QED
        BY <1>4, <2>1, <3>2, <4>1, <4>2
    <3> QED
      BY <1>1, <2>1, <3>3, <3>4
  <2> QED
    BY <2>2, <2>3
<1>10. ASSUME NEW p \in ContentPeaks
       PROVE  p = m \/ \E l \in k..(Height - 1) : p = S(l) /\ p.End < c
  <2>1. PICK l \in 0..(Height - 1) :
            \/ p = R(l) /\ R(l).End = c /\ S(l).End > c
            \/ p = S(l) /\ S(l).End <= c /\ R(l).End > c
    BY <1>3
  <2>2. CASE p = R(l) /\ R(l).End = c /\ S(l).End > c
    <3>1. ~(l < k)
      <4>1. SUFFICES ASSUME l < k PROVE FALSE
        OBVIOUS
      <4>2. l + 1 \in 0..Height /\ k \in (l + 1)..Height
        BY <1>0, <4>1
      <4>3. R(l + 1).End <= R(k).End /\ R(l + 1).End \in Nat
        BY <1>2, <4>2
      <4>4. R(l + 1).End > c
        BY <1>0, <1>1, <2>2
      <4> QED
        BY <1>0, <1>6, <4>3, <4>4
    <3>2. ~(l > k)
      <4>1. SUFFICES ASSUME l > k PROVE FALSE
        OBVIOUS
      <4>2. l \in (k + 1)..Height
        BY <1>0, <4>1
      <4> QED
        BY <1>0, <1>8, <2>2, <4>2
    <3>3. l = k
      BY <1>0, <3>1, <3>2
    <3> QED
      BY <1>6, <2>2, <3>3
  <2>3. CASE p = S(l) /\ S(l).End <= c /\ R(l).End > c
    <3>1. l > k
      <4>1. SUFFICES ASSUME ~(l > k) PROVE FALSE
        OBVIOUS
      <4>2. l \in 0..Height /\ k \in l..Height
        BY <1>0, <4>1
      <4>3. R(l).End <= R(k).End /\ R(l).End \in Nat
        BY <1>2, <4>2
      <4> QED
        BY <1>0, <1>6, <2>3, <4>3
    <3>2. l \in k..(Height - 1)
      BY <1>0, <3>1
    <3>3. S(l).End < c
      <4>1. ~(S(l).Start > c)
        BY <1>0, <1>1, <2>3
      <4> QED
        BY <1>9, <3>2, <4>1
    <3> QED
      BY <2>3, <3>2, <3>3
  <2> QED
    BY <2>1, <2>2, <2>3
<1>11. /\ m = R(k)
       /\ \A l \in k..(Height - 1) : \/ S(l) \in ContentPeaks /\ S(l).End < c
                                   \/ S(l).Start > c
       /\ \A p \in ContentPeaks : \/ p = m
                                 \/ \E l \in k..(Height - 1) : p = S(l) /\ p.End < c
  BY <1>6, <1>9, <1>10
<1> QED
  BY <1>11 DEF R, S, c

\* If the check starts from a peak, that is the one with the last chunk: then
\* it goes up to the root, and what it needs on the way are the other peaks.
LEMMA WayFromPeak ==
    ASSUME PeaksCheckable, NEW received, ContentPeaks \subseteq received,
           NEW m \in ContentPeaks, NEW k \in Levels, m = NodeOf(m.Start, k),
           IsStart(m, received)
    PROVE  LET map == received \ {m}
               top == Top(m.Start, k, LastIndex(PeakLeafCount(m.End)))
               needed == {r \in Siblings(m.Start, k, top) : TreeIndex(r) <= 2 * m.End}
           IN  /\ m.End = LastChunk /\ top = Height
               /\ needed \subseteq map /\ needed \cup {m} = ContentPeaks
               /\ \A r \in Siblings(m.Start, k, top) : r \in needed \/ Padding(r)
<1> DEFINE c == LastChunk
           top == Top(m.Start, k, LastIndex(PeakLeafCount(m.End)))
           above == {SiblingOf(c, l) : l \in k..(Height - 1)}
           needed == {r \in above : TreeIndex(r) <= 2 * c}
           map == received \ {m}
<1>0. /\ c \in 0..(Leaves - 1) /\ c = NumChunks - 1 /\ NumChunks \in Nat /\ NumChunks >= 2
      /\ Leaves \in Nat /\ NumChunks <= Leaves /\ Height \in Nat /\ Levels = 0..Height
  BY TreeFacts DEF LastChunk
<1>1. ~IsPowerOfTwo(NumChunks) /\ m.End < NumChunks
  BY DEF ContentPeaks
<1>2. m \in Ranges
  <2>1. Chunks \subseteq 0..(Leaves - 1)
    BY <1>0 DEF Chunks
  <2> QED
    BY <2>1 DEF ContentPeaks, Ranges
<1>3. /\ m.Start \in Nat /\ m.End \in Nat /\ m.Start <= m.End /\ m.Start \in 0..(Leaves - 1)
  BY <1>0, <1>2, RangeFacts
<1>4. m.End = c
  <2>1. CASE \E p \in received : p.Start = p.End
    <3>1. m.Start = m.End
      BY <2>1 DEF IsStart
    <3> QED
      BY <3>1, PeakEnds
  <2>2. CASE ~\E p \in received : p.Start = p.End
    <3>1. \A p \in received : p.End <= m.End
      BY <2>2 DEF IsStart
    <3>2. PICK p \in ContentPeaks : p.End = c
      BY <1>1, PeakEnds
    <3>3. c <= m.End
      BY <3>1, <3>2
    <3> QED
      BY <1>0, <1>1, <1>3, <3>3
  <2> QED
    BY <2>1, <2>2
<1>5. \A l \in k..Height : /\ NodeOf(c, l) = NodeOf(m.Start, l)
                           /\ SiblingOf(c, l) = SiblingOf(m.Start, l)
  <2>1. NodeOf(m.Start, k).Start <= c /\ c <= NodeOf(m.Start, k).End
    BY <1>0, <1>3, <1>4
  <2> QED
    BY <1>0, <1>3, <2>1, AboveInTree
<1>6. top = Height
  <2>1. PeakLeafCount(m.End) = Leaves
    BY <1>1, <1>4, LeafCountLast
  <2>2. LastIndex(Leaves) = 2 * (Leaves - 1)
    BY <1>0 DEF LastIndex
  <2>3. Top(m.Start, k, 2 * (Leaves - 1)) = Height
    BY <1>3, TopOfTree
  <2> QED
    BY <2>1, <2>2, <2>3
<1>7. Siblings(m.Start, k, Height) = above
  <2>1. \A l \in k..(Height - 1) : SiblingOf(c, l) = SiblingOf(m.Start, l)
    BY <1>0, <1>5
  <2> QED
    BY <2>1 DEF Siblings
<1>8. PICK k0 \in 0..(Height - 1) :
              /\ m = NodeOf(c, k0)
              /\ \A l \in k0..(Height - 1) :
                    \/ SiblingOf(c, l) \in ContentPeaks /\ SiblingOf(c, l).End < c
                    \/ SiblingOf(c, l).Start > c
              /\ \A p \in ContentPeaks : \/ p = m
                                        \/ \E l \in k0..(Height - 1) :
                                              p = SiblingOf(c, l) /\ p.End < c
  BY <1>4, LastPeak
<1>9. k0 = k
  <2>1. k0 \in Levels /\ NodeOf(c, k) = NodeOf(c, k0)
    <3>1. k \in k..Height
      BY <1>0
    <3> QED
      BY <1>0, <1>5, <1>8, <3>1
  <2> QED
    BY <1>0, <2>1, LevelInTree
<1>10. ASSUME NEW r \in above
       PROVE  \/ r \in ContentPeaks /\ r.End < c /\ TreeIndex(r) <= 2 * c
              \/ r.Start >= NumChunks /\ ~(TreeIndex(r) <= 2 * c)
  <2>1. PICK l \in k..(Height - 1) : r = SiblingOf(c, l)
    OBVIOUS
  <2>2. r.Start \in 0..(Leaves - 1) /\ r.End \in 0..(Leaves - 1) /\ r.Start <= r.End
    <3>1. l \in 0..(Height - 1)
      BY <1>0
    <3> QED
      BY <1>0, <2>1, <3>1, HalvesInTree
  <2>3. (r \in ContentPeaks /\ r.End < c) \/ r.Start > c
    BY <1>8, <1>9, <2>1
  <2> HIDE DEF above, c
  <2> QED
    BY <1>0, <2>2, <2>3 DEF TreeIndex
<1>11. needed \subseteq map
  BY <1>10, <1>4, <1>0
<1>12. \A r \in above : r \in needed \/ Padding(r)
  BY <1>10 DEF Padding
<1>13. needed \cup {m} = ContentPeaks
  <2>1. needed \subseteq ContentPeaks
    BY <1>0, <1>10
  <2>2. ASSUME NEW p \in ContentPeaks PROVE p = m \/ p \in needed
    <3>1. p = m \/ (p \in above /\ p.End < c)
      BY <1>8, <1>9
    <3>2. SUFFICES ASSUME p \in above, p.End < c PROVE p \in needed
      BY <3>1
    <3>3. ~(p.Start >= NumChunks /\ ~(TreeIndex(p) <= 2 * c))
      <4>1. PICK l \in k..(Height - 1) : p = SiblingOf(c, l)
        BY <3>2
      <4>2. p.Start \in 0..(Leaves - 1) /\ p.End \in 0..(Leaves - 1) /\ p.Start <= p.End
        <5>1. l \in 0..(Height - 1)
          BY <1>0
        <5> QED
          BY <1>0, <4>1, <5>1, HalvesInTree
      <4> QED
        BY <1>0, <3>2, <4>2
    <3> QED
      BY <1>10, <3>2, <3>3
  <2> QED
    BY <2>1, <2>2
<1> QED
  BY <1>4, <1>6, <1>7, <1>11, <1>12, <1>13

-----------------------------------------------------------------------------
(* The siblings of a chunk *)

\* The hashes that prove a chunk: those of the siblings that are content.
Needed(i) == {r \in Siblings(i, 0, Height) : ~Padding(r)}

\* For the first chunk, these are all of them.
LEMMA NeededFirst == Needed(0) = FirstSiblings /\ FirstSiblings # {}
<1>1. 0 \in 0..(Height - 1)
  BY TreeFacts
<1>2. SiblingOf(0, 0) \in FirstSiblings
  BY <1>1 DEF FirstSiblings, Siblings
<1>3. \A r \in FirstSiblings : ~Padding(r)
  BY FirstNodes DEF FirstSiblings, Siblings
<1> QED
  BY <1>2, <1>3 DEF Needed, FirstSiblings

\* On the way up from a chunk, the siblings behind the first one that is padding
\* are padding, or peaks.
LEMMA AbovePadding ==
    ASSUME NEW i \in Chunks, NEW a \in 0..(Height - 1), Padding(SiblingOf(i, a)),
           NEW k \in a..(Height - 1), ~Padding(SiblingOf(i, k))
    PROVE  SiblingOf(i, k) \in ContentPeaks
<1> DEFINE r == NodeOf(i, k)
           s == SiblingOf(i, k)
<1>0. /\ i \in 0..(Leaves - 1) /\ i \in Nat /\ i < NumChunks /\ NumChunks \in Nat
      /\ Leaves \in Nat /\ NumChunks <= Leaves
      /\ a \in Levels /\ a + 1 \in Levels /\ k \in Levels /\ k \in 0..(Height - 1)
      /\ Height \in Nat
  BY TreeFacts DEF Chunks
<1>1. k \in (a + 1)..Height
  <2>1. k # a
    OBVIOUS
  <2> QED
    BY <1>0, <2>1
<1>2. SiblingOf(i, a).Start >= NumChunks
  BY DEF Padding
<1>3. /\ NodeOf(i, a).Start <= i /\ NodeOf(i, a).Start \in Nat
      /\ r.Start <= i /\ r.Start \in Nat /\ r.End \in Nat /\ r.End <= Leaves - 1
      /\ NodeOf(i, a + 1).End \in Nat
  BY <1>0, NodeInTree
<1>4. NodeOf(i, a + 1).End >= NumChunks
  <2> DEFINE b == SiblingOf(i, a)
  <2>1. /\ b.Start \in 0..(Leaves - 1) /\ b.End \in 0..(Leaves - 1) /\ b.Start <= b.End
        /\ \/ NodeOf(i, a + 1).End = b.End
           \/ b.End = NodeOf(i, a).Start - 1
    BY <1>0, HalvesInTree
  <2> HIDE DEF b
  <2>2. b.Start >= NumChunks
    BY <1>2 DEF b
  <2> QED
    BY <1>0, <1>3, <2>1, <2>2
<1>5. r.End >= NumChunks
  <2>1. NodeOf(i, a + 1).End <= NodeOf(i, k).End
    BY <1>0, <1>1, AboveInTree
  <2> QED
    BY <1>0, <1>3, <1>4, <2>1
<1>6. /\ s.Start \in 0..(Leaves - 1) /\ s.End \in 0..(Leaves - 1) /\ s.Start <= s.End
      /\ s.Start = r.End + 1 \/ s.End = r.Start - 1
      /\ NodeOf(s.Start, k) = s /\ SiblingOf(s.Start, k) = r
  BY <1>0, HalvesInTree
<1>7. s.Start < NumChunks
  <2>1. ~(s.Start >= NumChunks)
    BY DEF Padding
  <2> QED
    BY <1>0, <1>6, <2>1
<1>8. ~IsPowerOfTwo(NumChunks)
  BY <1>0, <1>3, <1>5, FullTree
<1> HIDE DEF r, s
<1>9. s.End < NumChunks
  BY <1>0, <1>3, <1>5, <1>6, <1>7
<1>10. s.Start \in Chunks
  BY <1>0, <1>6, <1>7 DEF Chunks
<1>11. s \in ContentPeaks
  BY <1>0, <1>5, <1>6, <1>8, <1>9, <1>10 DEF ContentPeaks
<1> QED
  BY <1>11 DEF s

\* The nodes in question are all nodes of the tree.
LEMMA ChunkNodes ==
    /\ Chunks \subseteq 0..(Leaves - 1) /\ 0 \in Chunks /\ Chunks \in SUBSET Nat
    /\ ContentPeaks \subseteq Ranges
    /\ \A i \in 0..(Leaves - 1) : Siblings(i, 0, Height) \subseteq Ranges
    /\ \A i \in 0..(Leaves - 1) : Needed(i) \subseteq Ranges
<1>1. Chunks \subseteq 0..(Leaves - 1) /\ 0 \in Chunks /\ Chunks \in SUBSET Nat
  BY TreeFacts DEF Chunks
<1>2. ContentPeaks \subseteq Ranges
  BY <1>1 DEF ContentPeaks, Ranges
<1>3. ASSUME NEW i \in 0..(Leaves - 1) PROVE Siblings(i, 0, Height) \subseteq Ranges
  BY TreeFacts, SiblingsInTree
<1> QED
  BY <1>1, <1>2, <1>3 DEF Needed
=============================================================================
