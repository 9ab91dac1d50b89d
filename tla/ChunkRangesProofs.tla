------------------------- MODULE ChunkRangesProofs --------------------------
(* Proofs about the operators of ChunkRanges: what SetHave makes of a list   *)
(* of ranges when it takes in one chunk, what GetRequestData may answer,     *)
(* which range a handshake announces, and what CheckFinish puts together.    *)
EXTENDS ChunkRanges, TLAPS, WellFoundedInduction, SequenceTheorems

-----------------------------------------------------------------------------
(* Positions and sequences *)

\* Min, used for every loop that stops at its first hit, is a member of a
\* nonempty set of naturals.
LEMMA MinInSet ==
    ASSUME NEW S \in SUBSET Nat, S # {}
    PROVE  Min(S) \in S /\ \A y \in S : Min(S) <= y
<1>1. \E x \in S : \A y \in S : ~(<<y, x>> \in OpToRel(<, Nat))
  BY NatLessThanWellFounded, WFMin
<1>2. PICK x \in S : \A y \in S : ~(<<y, x>> \in OpToRel(<, Nat))
  BY <1>1
<1>3. \A y \in S : x <= y
  <2>1. TAKE y \in S
  <2>2. ~(<<y, x>> \in OpToRel(<, Nat))
    BY <1>2
  <2>3. ~(y < x)
    BY <2>2 DEF OpToRel
  <2> QED
    BY <2>3
<1> QED
  BY <1>3 DEF Min

\* First finds a member of the set of positions, or 0 when there is none.
LEMMA FirstHit ==
    ASSUME NEW S \in SUBSET (Nat \ {0})
    PROVE  IF S = {} THEN First(S) = 0 ELSE First(S) \in S
BY MinInSet DEF First

\* Erasing position k of a list shifts the positions after it.
LEMMA RemoveAtElements ==
    ASSUME NEW X, NEW list \in Seq(X), NEW k \in DOMAIN list
    PROVE  /\ RemoveAt(list, k) \in Seq(X)
           /\ Len(RemoveAt(list, k)) = Len(list) - 1
           /\ \A m \in 1..(Len(list) - 1) :
                RemoveAt(list, k)[m] = IF m < k THEN list[m] ELSE list[m + 1]
<1>1. k \in 1..Len(list) /\ Len(list) \in Nat
  OBVIOUS
<1>2. /\ SubSeq(list, 1, k - 1) \in Seq(X)
      /\ Len(SubSeq(list, 1, k - 1)) = k - 1
      /\ \A m \in 1..(k - 1) : SubSeq(list, 1, k - 1)[m] = list[m]
  BY <1>1
<1>3. /\ SubSeq(list, k + 1, Len(list)) \in Seq(X)
      /\ Len(SubSeq(list, k + 1, Len(list))) = Len(list) - k
      /\ \A m \in 1..(Len(list) - k) :
            SubSeq(list, k + 1, Len(list))[m] = list[k + m]
  BY <1>1
<1> DEFINE a == SubSeq(list, 1, k - 1)
           b == SubSeq(list, k + 1, Len(list))
<1> HIDE DEF a, b
<1>4. /\ a \o b \in Seq(X)
      /\ Len(a \o b) = Len(list) - 1
      /\ \A m \in 1..(Len(list) - 1) :
            (a \o b)[m] = IF m < k THEN a[m] ELSE b[m - (k - 1)]
  <2>1. a \in Seq(X) /\ b \in Seq(X) /\ Len(a) = k - 1 /\ Len(b) = Len(list) - k
    BY <1>2, <1>3 DEF a, b
  <2> QED
    BY <1>1, <2>1, ConcatProperties
<1>5. \A m \in 1..(Len(list) - 1) :
            (a \o b)[m] = IF m < k THEN list[m] ELSE list[m + 1]
  <2>1. TAKE m \in 1..(Len(list) - 1)
  <2>2. CASE m < k
    BY <1>1, <1>2, <1>4, <2>2 DEF a
  <2>3. CASE ~(m < k)
    <3>1. m - (k - 1) \in 1..(Len(list) - k) /\ k + (m - (k - 1)) = m + 1
      BY <1>1, <2>3
    <3>2. b[m - (k - 1)] = list[m + 1]
      BY <1>3, <3>1 DEF b
    <3> QED
      BY <1>4, <2>3, <3>2
  <2> QED
    BY <2>2, <2>3
<1> QED
  BY <1>4, <1>5 DEF RemoveAt, a, b

-----------------------------------------------------------------------------
(* Adding one chunk to a list of separated ranges *)

\* The bounds of every range of a list are naturals.
LEMMA RangeBounds ==
    ASSUME NEW list \in Seq(ChunkRangeSt), NEW k \in DOMAIN list
    PROVE  list[k].Start \in Nat /\ list[k].End \in Nat
<1>1. list[k] \in ChunkRangeSt
  OBVIOUS
<1> QED
  BY <1>1 DEF ChunkRangeSt

\* Membership in the chunks a list covers.
LEMMA CoveredMember ==
    ASSUME NEW list \in Seq(ChunkRangeSt), NEW i
    PROVE  i \in Covered(list) <=>
              \E k \in DOMAIN list : /\ i \in Int
                                     /\ list[k].Start <= i /\ i <= list[k].End
<1>1. \A k \in DOMAIN list : list[k].Start \in Int /\ list[k].End \in Int
  BY RangeBounds
<1>2. i \in Covered(list) <=>
            \E k \in DOMAIN list : i \in list[k].Start .. list[k].End
  BY DEF Covered
<1> QED
  BY <1>1, <1>2

\* The chunk after a range of a separated list is missing.
LEMMA GapAfterRange ==
    ASSUME NEW list \in Seq(ChunkRangeSt), Separated(list), NEW k \in DOMAIN list
    PROVE  list[k].End + 1 \notin Covered(list)
<1> SUFFICES ASSUME list[k].End + 1 \in Covered(list) PROVE FALSE
  OBVIOUS
<1>1. PICK m \in DOMAIN list : /\ list[m].Start <= list[k].End + 1
                               /\ list[k].End + 1 <= list[m].End
  BY CoveredMember
<1>2. /\ list[k].Start \in Nat /\ list[k].End \in Nat
      /\ list[m].Start \in Nat /\ list[m].End \in Nat
  BY RangeBounds
<1>3. m # k
  BY <1>1, <1>2
<1>4. \/ list[k].End + 1 < list[m].Start
      \/ list[m].End + 1 < list[k].Start
  BY <1>3 DEF Separated
<1>5. list[k].Start <= list[k].End
  BY DEF Separated
<1> QED
  BY <1>1, <1>2, <1>4, <1>5

\* CP, seen from a list of separated ranges: the end of the one that starts at
\* 0, or no such range has more than one chunk.
PrefixRange(list, cp) ==
    IF cp >= 0
    THEN \E k \in DOMAIN list : list[k].Start = 0 /\ list[k].End = cp
    ELSE \A k \in DOMAIN list : list[k].Start = 0 => list[k].End = 0

\* What SetHave of one chunk must achieve, in terms of the ranges.
TakesIn(list, cp, c, new, newcp) ==
    /\ new \in Seq(ChunkRangeSt)
    /\ Separated(new)
    /\ Covered(new) = Covered(list) \cup {c}
    /\ newcp \in Int /\ (newcp >= 0 \/ newcp = cp)
    /\ PrefixRange(new, newcp)

\* push_back: no range meets the chunk.
LEMMA AppendTakesIn ==
    ASSUME NEW list \in Seq(ChunkRangeSt), Separated(list),
           NEW cp \in Int, PrefixRange(list, cp), NEW c \in Nat,
           \A m \in DOMAIN list : ~Meets(list[m], c, c)
    PROVE  TakesIn(list, cp, c, Append(list, [Start |-> c, End |-> c]), cp)
<1> DEFINE e == [Start |-> c, End |-> c]
           new == Append(list, e)
<1>1. e \in ChunkRangeSt /\ e.Start = c /\ e.End = c
  BY DEF ChunkRangeSt
<1>2. /\ new \in Seq(ChunkRangeSt)
      /\ DOMAIN new = DOMAIN list \cup {Len(list) + 1}
      /\ \A m \in DOMAIN list : new[m] = list[m]
      /\ new[Len(list) + 1] = e
      /\ Len(list) + 1 \notin DOMAIN list
  BY <1>1
<1> HIDE DEF new
<1>3. \A m \in DOMAIN list : /\ list[m].Start \in Nat /\ list[m].End \in Nat
                             /\ list[m].Start <= list[m].End
                             /\ \/ list[m].End + 1 < c
                                \/ c + 1 < list[m].Start
  BY RangeBounds DEF Separated, Meets
<1>4. Separated(new)
  <2>1. \A m \in DOMAIN new : new[m].Start <= new[m].End
    BY <1>1, <1>2, <1>3
  <2>2. ASSUME NEW m \in DOMAIN new, NEW n \in DOMAIN new, m # n
        PROVE  \/ new[m].End + 1 < new[n].Start
               \/ new[n].End + 1 < new[m].Start
    <3>1. CASE m \in DOMAIN list /\ n \in DOMAIN list
      BY <1>2, <2>2, <3>1 DEF Separated
    <3>2. CASE m = Len(list) + 1 /\ n \in DOMAIN list
      BY <1>1, <1>2, <1>3, <3>2
    <3>3. CASE n = Len(list) + 1 /\ m \in DOMAIN list
      BY <1>1, <1>2, <1>3, <3>3
    <3> QED
      BY <1>2, <2>2, <3>1, <3>2, <3>3
  <2> QED
    BY <2>1, <2>2 DEF Separated
<1>5. Covered(new) = Covered(list) \cup {c}
  <2>1. ASSUME NEW i
        PROVE  i \in Covered(new) <=> i \in Covered(list) \/ i = c
    <3>1. i \in Covered(new) <=>
              \E k \in DOMAIN new : i \in Int /\ new[k].Start <= i /\ i <= new[k].End
      BY <1>2, CoveredMember
    <3>2. i \in Covered(list) <=>
              \E k \in DOMAIN list : i \in Int /\ list[k].Start <= i /\ i <= list[k].End
      BY CoveredMember
    <3> QED
      BY <1>1, <1>2, <3>1, <3>2
  <2> QED
    BY <2>1
<1>6. PrefixRange(new, cp)
  BY <1>1, <1>2, <1>3 DEF PrefixRange
<1> QED
  BY <1>2, <1>4, <1>5, <1>6 DEF TakesIn, new

\* A range that grows by the chunk next to it and meets no other range.
LEMMA GrowTakesIn ==
    ASSUME NEW list \in Seq(ChunkRangeSt), Separated(list),
           NEW cp \in Int, PrefixRange(list, cp), NEW c \in Nat,
           NEW k \in DOMAIN list, NEW ch \in ChunkRangeSt,
           \/ c = list[k].End + 1 /\ ch.Start = list[k].Start /\ ch.End = c
           \/ c + 1 = list[k].Start /\ ch.Start = c /\ ch.End = list[k].End,
           \A m \in DOMAIN list \ {k} :
                ~ExtendsUp(list[m], ch) /\ ~ExtendsDown(list[m], ch)
    PROVE  TakesIn(list, cp, c, [list EXCEPT ![k] = ch],
                   IF ch.Start = 0 THEN ch.End ELSE cp)
<1> DEFINE new == [list EXCEPT ![k] = ch]
           newcp == IF ch.Start = 0 THEN ch.End ELSE cp
<1>1. /\ new \in Seq(ChunkRangeSt)
      /\ DOMAIN new = DOMAIN list
      /\ \A m \in DOMAIN list : new[m] = IF m = k THEN ch ELSE list[m]
  OBVIOUS
<1>2. newcp = IF ch.Start = 0 THEN ch.End ELSE cp
  OBVIOUS
<1> HIDE DEF new, newcp
<1>3. \A m \in DOMAIN list : /\ list[m].Start \in Nat /\ list[m].End \in Nat
                             /\ list[m].Start <= list[m].End
  BY RangeBounds DEF Separated
<1>4. ch.Start \in Nat /\ ch.End \in Nat /\ ch.Start <= ch.End
  BY <1>3 DEF ChunkRangeSt
<1>5. \A m \in DOMAIN list \ {k} : \/ list[m].End + 1 < ch.Start
                                   \/ ch.End + 1 < list[m].Start
  <2>1. TAKE m \in DOMAIN list \ {k}
  <2>2. \/ list[m].End + 1 < list[k].Start
        \/ list[k].End + 1 < list[m].Start
    BY DEF Separated
  <2>3. ~ExtendsUp(list[m], ch) /\ ~ExtendsDown(list[m], ch)
    OBVIOUS
  <2> DEFINE a == list[m].Start  b == list[m].End
             p == list[k].Start  q == list[k].End
  <2>4. a \in Nat /\ b \in Nat /\ p \in Nat /\ q \in Nat /\ a <= b /\ p <= q
    BY <1>3
  <2>5. /\ b + 1 < p \/ q + 1 < a
        /\ ~(b + 1 >= ch.Start /\ b < ch.End)
        /\ ~(a - 1 <= ch.End /\ a > ch.End)
        /\ \/ c = q + 1 /\ ch.Start = p /\ ch.End = c
           \/ c + 1 = p /\ ch.Start = c /\ ch.End = q
    BY <2>2, <2>3 DEF ExtendsUp, ExtendsDown
  <2> HIDE DEF a, b, p, q
  <2>6. b + 1 < ch.Start \/ ch.End + 1 < a
    BY <1>4, <2>4, <2>5
  <2> QED
    BY <2>6 DEF a, b
<1>6. Separated(new)
  BY <1>1, <1>4, <1>5 DEF Separated
<1>7. Covered(new) = Covered(list) \cup {c}
  <2>1. ASSUME NEW i
        PROVE  i \in Covered(new) <=> i \in Covered(list) \/ i = c
    <3>1. i \in Covered(new) <=>
              \E m \in DOMAIN new : i \in Int /\ new[m].Start <= i /\ i <= new[m].End
      BY <1>1, CoveredMember
    <3>2. i \in Covered(list) <=>
              \E m \in DOMAIN list : i \in Int /\ list[m].Start <= i /\ i <= list[m].End
      BY CoveredMember
    <3>3. i \in Int => (ch.Start <= i /\ i <= ch.End <=>
                          \/ list[k].Start <= i /\ i <= list[k].End
                          \/ i = c)
      BY <1>3, <1>4
    <3> QED
      BY <1>1, <3>1, <3>2, <3>3
  <2> QED
    BY <2>1
<1>8. PrefixRange(new, newcp)
  <2>1. CASE ch.Start = 0
    BY <1>1, <1>2, <1>4, <2>1 DEF PrefixRange
  <2>2. CASE ch.Start # 0
    <3>1. list[k].Start # 0
      BY <1>3, <2>2
    <3> QED
      BY <1>1, <1>2, <2>2, <3>1 DEF PrefixRange
  <2> QED
    BY <2>1, <2>2
<1>9. newcp \in Int /\ (newcp >= 0 \/ newcp = cp)
  BY <1>2, <1>4
<1> QED
  BY <1>1, <1>6, <1>7, <1>8, <1>9 DEF TakesIn, new, newcp

\* The grown range closes the gap to a second one, which takes it over; the
\* grown range is then erased.
LEMMA MergeTakesIn ==
    ASSUME NEW list \in Seq(ChunkRangeSt), Separated(list),
           NEW cp \in Int, PrefixRange(list, cp), NEW c \in Nat,
           NEW k \in DOMAIN list, NEW ch \in ChunkRangeSt,
           NEW j \in DOMAIN list, j # k,
           \/ c = list[k].End + 1 /\ ch.Start = list[k].Start /\ ch.End = c
           \/ c + 1 = list[k].Start /\ ch.Start = c /\ ch.End = list[k].End,
           ExtendsUp(list[j], ch) \/ ExtendsDown(list[j], ch)
    PROVE  LET r   == Absorbed(list[j], ch)
               cp1 == IF ch.Start = 0 THEN ch.End ELSE cp
           IN  TakesIn(list, cp, c,
                       RemoveAt([[list EXCEPT ![k] = ch] EXCEPT ![j] = r], k),
                       IF r.Start = 0 /\ cp1 < r.End THEN r.End ELSE cp1)
<1> DEFINE r     == Absorbed(list[j], ch)
           cp1   == IF ch.Start = 0 THEN ch.End ELSE cp
           mid   == [[list EXCEPT ![k] = ch] EXCEPT ![j] = r]
           new   == RemoveAt(mid, k)
           newcp == IF r.Start = 0 /\ cp1 < r.End THEN r.End ELSE cp1
           old(m) == IF m < k THEN m ELSE m + 1
<1>1. \A m \in DOMAIN list : /\ list[m].Start \in Nat /\ list[m].End \in Nat
                             /\ list[m].Start <= list[m].End
  BY RangeBounds DEF Separated
<1> DEFINE a == list[j].Start  b == list[j].End
           p == list[k].Start  q == list[k].End
<1>2. ch.Start \in Nat /\ ch.End \in Nat /\ ch.Start <= ch.End
  <2>1. ch.Start \in Nat /\ ch.End \in Nat
    BY DEF ChunkRangeSt
  <2>2. p \in Nat /\ q \in Nat /\ p <= q
    BY <1>1
  <2> QED
    BY <2>1, <2>2
<1>3. \/ list[j].End + 1 < list[k].Start
      \/ list[k].End + 1 < list[j].Start
  BY DEF Separated
<1>4. \/ /\ list[k].End + 1 = c /\ c + 1 = list[j].Start
         /\ ch.Start = list[k].Start /\ ch.End = c
         /\ r = [Start |-> list[k].Start, End |-> list[j].End]
      \/ /\ list[j].End + 1 = c /\ c + 1 = list[k].Start
         /\ ch.Start = c /\ ch.End = list[k].End
         /\ r = [Start |-> list[j].Start, End |-> list[k].End]
  <2>1. a \in Nat /\ b \in Nat /\ p \in Nat /\ q \in Nat /\ a <= b /\ p <= q
    BY <1>1
  <2>2. /\ b + 1 < p \/ q + 1 < a
        /\ \/ c = q + 1 /\ ch.Start = p /\ ch.End = c
           \/ c + 1 = p /\ ch.Start = c /\ ch.End = q
    BY <1>3
  <2>3. /\ \/ b + 1 >= ch.Start /\ b < ch.End
           \/ a - 1 <= ch.End /\ a > ch.End
        /\ r = IF b + 1 >= ch.Start /\ b < ch.End
               THEN [Start |-> a, End |-> ch.End]
               ELSE [Start |-> ch.Start, End |-> b]
    BY DEF Absorbed, ExtendsUp, ExtendsDown
  <2> HIDE DEF a, b, p, q, r
  <2>4. \/ /\ q + 1 = c /\ c + 1 = a /\ ch.Start = p /\ ch.End = c
           /\ ~(b + 1 >= ch.Start /\ b < ch.End)
        \/ /\ b + 1 = c /\ c + 1 = p /\ ch.Start = c /\ ch.End = q
           /\ b + 1 >= ch.Start /\ b < ch.End
    <3>1. CASE c = q + 1 /\ ch.Start = p /\ ch.End = c
      <4>1. /\ \/ b + 1 >= p /\ b < c
               \/ a - 1 <= c /\ a > c
            /\ b + 1 < p \/ c < a
        BY <2>2, <2>3, <3>1
      <4>2. c + 1 = a /\ ~(b + 1 >= p /\ b < c)
        BY <2>1, <4>1
      <4> QED
        BY <3>1, <4>2
    <3>2. CASE c + 1 = p /\ ch.Start = c /\ ch.End = q
      <4>1. /\ \/ b + 1 >= c /\ b < q
               \/ a - 1 <= q /\ a > q
            /\ b < c \/ q + 1 < a
        BY <2>1, <2>2, <2>3, <3>2
      <4>2. b + 1 = c /\ b + 1 >= c /\ b < q
        BY <2>1, <3>2, <4>1
      <4> QED
        BY <3>2, <4>2
    <3> QED
      BY <2>2, <3>1, <3>2
  <2>5. \/ /\ q + 1 = c /\ c + 1 = a /\ ch.Start = p /\ ch.End = c
           /\ r = [Start |-> p, End |-> b]
        \/ /\ b + 1 = c /\ c + 1 = p /\ ch.Start = c /\ ch.End = q
           /\ r = [Start |-> a, End |-> q]
    BY <2>3, <2>4
  <2> QED
    BY <2>5 DEF a, b, p, q
<1>5. /\ r \in ChunkRangeSt
      /\ r.Start \in Nat /\ r.End \in Nat /\ r.Start <= r.End
      /\ \A i \in Int : r.Start <= i /\ i <= r.End <=>
              \/ list[k].Start <= i /\ i <= list[k].End
              \/ list[j].Start <= i /\ i <= list[j].End
              \/ i = c
  <2>1. a \in Nat /\ b \in Nat /\ p \in Nat /\ q \in Nat /\ a <= b /\ p <= q
    BY <1>1
  <2>2. \/ q + 1 = c /\ c + 1 = a /\ r = [Start |-> p, End |-> b]
        \/ b + 1 = c /\ c + 1 = p /\ r = [Start |-> a, End |-> q]
    BY <1>4
  <2> HIDE DEF a, b, p, q, r
  <2>3. r \in ChunkRangeSt
    <3>1. /\ [Start |-> p, End |-> b] \in ChunkRangeSt
          /\ [Start |-> a, End |-> q] \in ChunkRangeSt
      BY <2>1 DEF ChunkRangeSt
    <3> QED
      BY <2>2, <3>1
  <2>4. \/ q + 1 = c /\ c + 1 = a /\ r.Start = p /\ r.End = b
        \/ b + 1 = c /\ c + 1 = p /\ r.Start = a /\ r.End = q
    BY <2>2
  <2>5. r.Start \in Nat /\ r.End \in Nat /\ r.Start <= r.End
    BY <2>1, <2>4
  <2>6. \A i \in Int : r.Start <= i /\ i <= r.End <=>
              \/ p <= i /\ i <= q
              \/ a <= i /\ i <= b
              \/ i = c
    BY <2>1, <2>4
  <2> QED
    BY <2>3, <2>5, <2>6 DEF a, b, p, q
<1>6. r.Start \in {list[k].Start, list[j].Start}
  BY <1>4
<1>7. \A m \in DOMAIN list \ {j, k} : \/ list[m].End + 1 < r.Start
                                      \/ r.End + 1 < list[m].Start
  <2>1. TAKE m \in DOMAIN list \ {j, k}
  <2>2. /\ \/ list[m].End + 1 < list[k].Start
           \/ list[k].End + 1 < list[m].Start
        /\ \/ list[m].End + 1 < list[j].Start
           \/ list[j].End + 1 < list[m].Start
    BY DEF Separated
  <2> DEFINE x == list[m].Start  y == list[m].End
  <2>3. /\ a \in Nat /\ b \in Nat /\ p \in Nat /\ q \in Nat /\ x \in Nat /\ y \in Nat
        /\ a <= b /\ p <= q /\ x <= y
    BY <1>1
  <2>4. /\ y + 1 < p \/ q + 1 < x
        /\ y + 1 < a \/ b + 1 < x
    BY <2>2
  <2>5. \/ q + 1 = c /\ c + 1 = a /\ r.Start = p /\ r.End = b
        \/ b + 1 = c /\ c + 1 = p /\ r.Start = a /\ r.End = q
    BY <1>4
  <2> HIDE DEF a, b, p, q, r, x, y
  <2>6. y + 1 < r.Start \/ r.End + 1 < x
    <3>1. CASE q + 1 = c /\ c + 1 = a /\ r.Start = p /\ r.End = b
      <4>1. y + 1 < p \/ b + 1 < x
        BY <2>3, <2>4, <3>1
      <4> QED
        BY <3>1, <4>1
    <3>2. CASE b + 1 = c /\ c + 1 = p /\ r.Start = a /\ r.End = q
      <4>1. y + 1 < a \/ q + 1 < x
        BY <2>3, <2>4, <3>2
      <4> QED
        BY <3>2, <4>1
    <3> QED
      BY <2>5, <3>1, <3>2
  <2> QED
    BY <2>6 DEF x, y
<1>8. /\ mid \in Seq(ChunkRangeSt)
      /\ DOMAIN mid = DOMAIN list /\ Len(mid) = Len(list)
      /\ \A m \in DOMAIN list :
            mid[m] = IF m = j THEN r ELSE IF m = k THEN ch ELSE list[m]
  BY <1>5
<1> HIDE DEF r, mid
<1>9. /\ new \in Seq(ChunkRangeSt)
      /\ DOMAIN new = 1..(Len(list) - 1)
      /\ \A m \in 1..(Len(list) - 1) : new[m] = mid[old(m)]
  <2>1. /\ new \in Seq(ChunkRangeSt)
        /\ Len(new) = Len(mid) - 1
        /\ \A m \in 1..(Len(mid) - 1) :
              new[m] = IF m < k THEN mid[m] ELSE mid[m + 1]
    BY <1>8, RemoveAtElements
  <2> QED
    BY <1>8, <2>1
<1>10. DOMAIN list = 1..Len(list) /\ Len(list) \in Nat
  OBVIOUS
<1> HIDE DEF new
<1>11. \A m \in DOMAIN new :
          /\ old(m) \in DOMAIN list \ {k}
          /\ new[m] = IF old(m) = j THEN r ELSE list[old(m)]
  BY <1>8, <1>9, <1>10
<1>12. \A n \in DOMAIN list \ {k} : \E m \in DOMAIN new : old(m) = n
  <2>1. TAKE n \in DOMAIN list \ {k}
  <2>2. CASE n < k
    BY <1>9, <1>10, <2>2
  <2>3. CASE n > k
    <3>1. n - 1 \in DOMAIN new /\ old(n - 1) = n
      BY <1>9, <1>10, <2>3
    <3> QED
      BY <3>1
  <2> QED
    BY <1>10, <2>2, <2>3
<1>13. \A m, n \in DOMAIN new : m # n => old(m) # old(n)
  BY <1>9, <1>10
<1> HIDE DEF old
<1>14. Separated(new)
  <2>1. \A m \in DOMAIN new : new[m].Start <= new[m].End
    BY <1>1, <1>5, <1>11
  <2>2. ASSUME NEW m \in DOMAIN new, NEW n \in DOMAIN new, m # n
        PROVE  \/ new[m].End + 1 < new[n].Start
               \/ new[n].End + 1 < new[m].Start
    <3>1. old(m) # old(n)
      BY <1>13, <2>2
    <3>2. CASE old(m) # j /\ old(n) # j
      BY <1>11, <3>1, <3>2 DEF Separated
    <3>3. CASE old(m) = j
      BY <1>7, <1>11, <3>1, <3>3
    <3>4. CASE old(n) = j
      BY <1>7, <1>11, <3>1, <3>4
    <3> QED
      BY <3>2, <3>3, <3>4
  <2> QED
    BY <2>1, <2>2 DEF Separated
<1>15. Covered(new) = Covered(list) \cup {c}
  <2>1. ASSUME NEW i
        PROVE  i \in Covered(new) <=> i \in Covered(list) \/ i = c
    <3>1. i \in Covered(new) <=>
              \E m \in DOMAIN new : i \in Int /\ new[m].Start <= i /\ i <= new[m].End
      BY <1>9, CoveredMember
    <3>2. i \in Covered(list) <=>
              \E m \in DOMAIN list : i \in Int /\ list[m].Start <= i /\ i <= list[m].End
      BY CoveredMember
    <3>3. ASSUME i \in Covered(new)
          PROVE  i \in Covered(list) \/ i = c
      <4>1. PICK m \in DOMAIN new : i \in Int /\ new[m].Start <= i /\ i <= new[m].End
        BY <3>1, <3>3
      <4> QED
        BY <1>5, <1>11, <3>2, <4>1
    <3>4. ASSUME i \in Covered(list) \/ i = c
          PROVE  i \in Covered(new)
      <4>1. CASE i \in Int /\ r.Start <= i /\ i <= r.End
        <5>1. PICK m \in DOMAIN new : old(m) = j
          BY <1>12
        <5>2. new[m] = r
          BY <1>11, <5>1
        <5> QED
          BY <3>1, <4>1, <5>2
      <4>2. CASE ~(i \in Int /\ r.Start <= i /\ i <= r.End)
        <5>1. i \in Covered(list) /\ i \in Int
          BY <1>5, <3>2, <3>4, <4>2
        <5>2. PICK n \in DOMAIN list : list[n].Start <= i /\ i <= list[n].End
          BY <3>2, <5>1
        <5>3. n # k /\ n # j
          BY <1>5, <4>2, <5>1, <5>2
        <5>4. PICK m \in DOMAIN new : old(m) = n
          BY <1>12, <5>3
        <5>5. new[m] = list[n]
          BY <1>11, <5>3, <5>4
        <5> QED
          BY <3>1, <5>1, <5>2, <5>5
      <4> QED
        BY <4>1, <4>2
    <3> QED
      BY <3>3, <3>4
  <2> QED
    BY <2>1
<1>16. PrefixRange(new, newcp)
  <2>1. CASE r.Start = 0
    <3>1. newcp = r.End
      <4>1. CASE ch.Start = 0
        BY <1>1, <1>2, <1>4, <2>1, <4>1
      <4>2. CASE ch.Start # 0
        <5>1. list[j].Start = 0 /\ r.End = list[k].End /\ list[j].End < list[k].End
          BY <1>1, <1>4, <2>1, <4>2
        <5>2. cp < r.End
          <6>1. CASE cp < 0
            BY <1>5, <6>1
          <6>2. CASE cp >= 0
            <7>1. PICK n \in DOMAIN list : list[n].Start = 0 /\ list[n].End = cp
              BY <6>2 DEF PrefixRange
            <7>2. n = j
              BY <1>1, <5>1, <7>1 DEF Separated
            <7> QED
              BY <1>1, <5>1, <7>1, <7>2
          <6> QED
            BY <6>1, <6>2
        <5> QED
          BY <2>1, <4>2, <5>2
      <4> QED
        BY <4>1, <4>2
    <3>2. PICK m \in DOMAIN new : old(m) = j
      BY <1>12
    <3>3. new[m] = r
      BY <1>11, <3>2
    <3> QED
      BY <1>5, <2>1, <3>1, <3>3 DEF PrefixRange
  <2>2. CASE r.Start # 0
    <3>1. list[k].Start # 0 /\ list[j].Start # 0 /\ ch.Start # 0
      BY <1>1, <1>4, <2>2
    <3>2. newcp = cp
      BY <2>2, <3>1
    <3>3. CASE cp >= 0
      <4>1. PICK n \in DOMAIN list : list[n].Start = 0 /\ list[n].End = cp
        BY <3>3 DEF PrefixRange
      <4>2. n # k /\ n # j
        BY <3>1, <4>1
      <4>3. PICK m \in DOMAIN new : old(m) = n
        BY <1>12, <4>2
      <4>4. new[m] = list[n]
        BY <1>11, <4>2, <4>3
      <4> QED
        BY <3>2, <3>3, <4>1, <4>4 DEF PrefixRange
    <3>4. CASE cp < 0
      <4>1. \A m \in DOMAIN new : new[m].Start = 0 => new[m].End = 0
        BY <1>11, <2>2, <3>4 DEF PrefixRange
      <4> QED
        BY <3>2, <3>4, <4>1 DEF PrefixRange
    <3> QED
      BY <3>3, <3>4
  <2> QED
    BY <2>1, <2>2
<1>17. newcp \in Int /\ (newcp >= 0 \/ newcp = cp)
  BY <1>2, <1>5
<1>18. TakesIn(list, cp, c, new, newcp)
  BY <1>9, <1>14, <1>15, <1>16, <1>17 DEF TakesIn
<1> QED
  BY <1>18 DEF new, mid, r

\* SetHave of one chunk, on a list of separated ranges.
THEOREM SetHaveOne ==
    ASSUME NEW list \in Seq(ChunkRangeSt), Separated(list),
           NEW cp \in Int, PrefixRange(list, cp), NEW c \in Nat
    PROVE  TakesIn(list, cp, c, AfterSetHave(list, cp, c, c).list,
                   AfterSetHave(list, cp, c, c).CP)
<1> DEFINE hits == {m \in DOMAIN list : Meets(list[m], c, c)}
           k    == First(hits)
           ch   == Grown(list[k], c, c)
           grown == [list EXCEPT ![k] = ch]
           cp1  == IF ch.Start = 0 THEN ch.End ELSE cp
           takers == {m \in DOMAIN grown : \/ ExtendsUp(grown[m], grown[k])
                                           \/ ExtendsDown(grown[m], grown[k])}
           j    == First(takers)
           after == AfterSetHave(list, cp, c, c)
<1>0. DOMAIN list \subseteq Nat \ {0}
  OBVIOUS
<1>1. IF hits = {} THEN k = 0 ELSE k \in hits
  BY <1>0, FirstHit
<1>2. CASE k = 0
  <2>1. after = [list |-> Append(list, [Start |-> c, End |-> c]), CP |-> cp]
    BY <1>2 DEF AfterSetHave
  <2>2. \A m \in DOMAIN list : ~Meets(list[m], c, c)
    BY <1>0, <1>1, <1>2
  <2> QED
    BY <2>1, <2>2, AppendTakesIn
<1>3. CASE k # 0 /\ Encloses(list[k], c, c)
  <2>1. after = [list |-> list, CP |-> cp]
    BY <1>3 DEF AfterSetHave
  <2>2. k \in DOMAIN list
    BY <1>1, <1>3
  <2>3. c \in Covered(list)
    BY <1>3, <2>2, CoveredMember DEF Encloses
  <2> QED
    BY <2>1, <2>3 DEF TakesIn
<1>4. CASE k # 0 /\ ~Encloses(list[k], c, c)
  <2>1. k \in DOMAIN list /\ Meets(list[k], c, c)
    BY <1>1, <1>4
  <2>2. after = MergeChanged(grown, k, cp1)
    BY <1>4 DEF AfterSetHave
  <2>3. list[k].Start \in Nat /\ list[k].End \in Nat /\ list[k].Start <= list[k].End
    BY <2>1, RangeBounds DEF Separated
  <2>4. /\ ch \in ChunkRangeSt
        /\ \/ c = list[k].End + 1 /\ ch.Start = list[k].Start /\ ch.End = c
           \/ c + 1 = list[k].Start /\ ch.Start = c /\ ch.End = list[k].End
    <3> DEFINE p == list[k].Start  q == list[k].End
    <3>1. /\ q + 1 >= c /\ p - 1 <= c /\ ~(p <= c /\ q >= c)
          /\ ch = [Start |-> IF p <= c THEN p ELSE c, End |-> IF q >= c THEN q ELSE c]
      BY <1>4, <2>1 DEF Meets, Encloses, Grown
    <3>2. p \in Nat /\ q \in Nat /\ p <= q
      BY <2>3
    <3> HIDE DEF p, q, ch, k
    <3>3. \/ c = q + 1 /\ ch = [Start |-> p, End |-> c]
          \/ c + 1 = p /\ ch = [Start |-> c, End |-> q]
      BY <3>1, <3>2
    <3>4. \/ c = q + 1 /\ ch.Start = p /\ ch.End = c
          \/ c + 1 = p /\ ch.Start = c /\ ch.End = q
      BY <3>3
    <3>5. ch \in ChunkRangeSt
      BY <3>2, <3>3 DEF ChunkRangeSt
    <3> QED
      BY <3>4, <3>5 DEF p, q
  <2>5. /\ DOMAIN grown = DOMAIN list /\ grown[k] = ch
        /\ \A m \in DOMAIN list \ {k} : grown[m] = list[m]
    BY <2>1
  <2>6. IF takers = {} THEN j = 0 ELSE j \in takers
    BY <1>0, <2>5, FirstHit
  <2>7. ch.Start \in Nat /\ ch.End \in Nat /\ ch.Start <= ch.End
    BY <2>3, <2>4 DEF ChunkRangeSt
  <2>8. CASE j = 0
    <3>1. after = [list |-> grown, CP |-> cp1]
      BY <2>2, <2>8 DEF MergeChanged
    <3>2. takers = {}
      BY <1>0, <2>5, <2>6, <2>8
    <3>3. \A m \in DOMAIN list \ {k} :
              ~ExtendsUp(list[m], ch) /\ ~ExtendsDown(list[m], ch)
      BY <2>5, <3>2
    <3> HIDE DEF k, ch
    <3>4. TakesIn(list, cp, c, grown, cp1)
      BY <2>1, <2>4, <3>3, GrowTakesIn
    <3> QED
      BY <3>1, <3>4
  <2>9. CASE j # 0
    <3> DEFINE r == Absorbed(grown[j], grown[k])
    <3>1. after = [list |-> RemoveAt([grown EXCEPT ![j] = r], k),
                   CP   |-> IF r.Start = 0 /\ cp1 < r.End THEN r.End ELSE cp1]
      BY <2>2, <2>9 DEF MergeChanged
    <3>2. j \in DOMAIN list /\ (ExtendsUp(grown[j], ch) \/ ExtendsDown(grown[j], ch))
      BY <2>5, <2>6, <2>9
    <3>3. j # k
      <4>1. ~ExtendsUp(ch, ch) /\ ~ExtendsDown(ch, ch)
        <5> HIDE DEF ch
        <5> QED
          BY <2>7 DEF ExtendsUp, ExtendsDown
      <4> QED
        BY <2>5, <3>2, <4>1
    <3>4. grown[j] = list[j] /\ r = Absorbed(list[j], ch)
      BY <2>5, <3>2, <3>3
    <3> HIDE DEF k, ch, j
    <3>5. TakesIn(list, cp, c, RemoveAt([grown EXCEPT ![j] = r], k),
                  IF r.Start = 0 /\ cp1 < r.End THEN r.End ELSE cp1)
      BY <2>1, <2>4, <3>2, <3>3, <3>4, MergeTakesIn
    <3> QED
      BY <3>1, <3>5
  <2> QED
    BY <2>8, <2>9
<1> QED
  BY <1>2, <1>3, <1>4

-----------------------------------------------------------------------------
(* Choosing a chunk *)

\* GetRequestData answers -1 or a chunk of the peer that is neither in the list
\* nor, as IsHaveData sees it, requested.
LEMMA RequestIndexWanted ==
    ASSUME NEW list \in Seq(ChunkRangeSt), NEW requested, NEW cp \in Int,
           NEW last \in Int, NEW peer \in Seq(ChunkRangeSt)
    PROVE  LET i == RequestIndex(list, requested, cp, last, peer)
           IN  \/ i = -1
               \/ /\ i \in Covered(peer) /\ i \notin Covered(list)
                  /\ ~IsHaveData(list, requested, i)
<1> DEFINE wanted(S) == {i \in S : ~IsHaveData(list, requested, i)}
           ahead == wanted(((cp + 1)..last) \cap Covered(peer))
           hits == {m \in DOMAIN peer :
                       wanted(peer[m].Start .. peer[m].End) # {}}
           k == First(hits)
<1>1. \A m \in DOMAIN peer : peer[m].Start \in Nat /\ peer[m].End \in Nat
  BY RangeBounds
<1>2. Covered(peer) \subseteq Nat
  BY <1>1, CoveredMember
<1>3. ASSUME NEW i \in Int, ~IsHaveData(list, requested, i)
      PROVE  i \notin Covered(list)
  BY <1>3, CoveredMember DEF IsHaveData
<1>4. CASE cp >= 0 /\ ahead # {}
  <2>1. RequestIndex(list, requested, cp, last, peer) = Min(ahead)
    BY <1>4 DEF RequestIndex
  <2>2. ahead \in SUBSET Nat
    BY <1>2
  <2>3. Min(ahead) \in ahead
    BY <1>4, <2>2, MinInSet
  <2> QED
    BY <1>2, <1>3, <2>1, <2>3
<1>5. CASE cp < 0 /\ k # 0
  <2> DEFINE S == wanted(peer[k].Start .. peer[k].End)
  <2>1. RequestIndex(list, requested, cp, last, peer) = Min(S)
    BY <1>5 DEF RequestIndex
  <2>2. hits \in SUBSET (Nat \ {0})
    OBVIOUS
  <2>3. k \in hits
    BY <1>5, <2>2, FirstHit
  <2>4. /\ k \in DOMAIN peer /\ S # {}
        /\ peer[k].Start \in Nat /\ peer[k].End \in Nat
    BY <1>1, <2>3
  <2> HIDE DEF k
  <2>5. S \in SUBSET Nat
    BY <2>4
  <2>6. Min(S) \in S
    BY <2>4, <2>5, MinInSet
  <2> DEFINE i == Min(S)
  <2>7. /\ i \in Nat /\ ~IsHaveData(list, requested, i)
        /\ peer[k].Start <= i /\ i <= peer[k].End
    BY <2>4, <2>6
  <2> HIDE DEF i
  <2>8. i \in Covered(peer) /\ i \notin Covered(list)
    BY <1>3, <2>4, <2>7, CoveredMember
  <2> QED
    BY <2>1, <2>7, <2>8 DEF i
<1>6. CASE ~(cp >= 0 /\ ahead # {}) /\ ~(cp < 0 /\ k # 0)
  BY <1>6 DEF RequestIndex
<1> QED
  BY <1>4, <1>5, <1>6

\* With an empty list, and CP unknown, GetRequestData answers the first chunk
\* the peer has.
LEMMA RequestIndexFirst ==
    ASSUME NEW requested, NEW cp \in Int, cp < 0, NEW last,
           NEW r \in ChunkRangeSt, r.Start <= r.End
    PROVE  RequestIndex(<<>>, requested, cp, last, <<r>>) = r.Start
<1> DEFINE peer == <<r>>
           wanted(S) == {i \in S : ~IsHaveData(<<>>, requested, i)}
           hits == {m \in DOMAIN peer :
                       wanted(peer[m].Start .. peer[m].End) # {}}
           k == First(hits)
           S1 == r.Start .. r.End
<1>1. r.Start \in Nat /\ r.End \in Nat /\ r.Start \in S1 /\ S1 \in SUBSET Nat
  BY DEF ChunkRangeSt
<1>2. \A S : wanted(S) = S
  BY DEF IsHaveData
<1>3. DOMAIN peer = {1} /\ peer[1] = r
  OBVIOUS
<1> HIDE DEF peer, wanted
<1>4. hits = {1}
  BY <1>1, <1>2, <1>3
<1>5. hits \in SUBSET (Nat \ {0}) /\ hits # {}
  <2> HIDE DEF hits
  <2> QED
    BY <1>4
<1>6. k \in hits
  BY <1>5, FirstHit
<1>7. k = 1
  BY <1>4, <1>6
<1> HIDE DEF k
<1>8. RequestIndex(<<>>, requested, cp, last, peer) = Min(wanted(peer[k].Start .. peer[k].End))
  BY <1>7 DEF RequestIndex, wanted, k
<1>9. wanted(peer[k].Start .. peer[k].End) = S1
  BY <1>2, <1>3, <1>7
<1>10. Min(S1) \in S1 /\ \A y \in S1 : Min(S1) <= y
  BY <1>1, MinInSet
<1>11. Min(S1) = r.Start
  <2> DEFINE w == Min(S1)
  <2>1. w \in S1 /\ w <= r.Start
    BY <1>1, <1>10
  <2> HIDE DEF w
  <2>2. w = r.Start
    BY <1>1, <2>1
  <2> QED
    BY <2>2 DEF w
<1> QED
  BY <1>8, <1>9, <1>11 DEF peer

\* When it answers -1 there is nothing to ask the peer for, as far as it looks:
\* with a CP of 0 or more that is from CP + 1 to the last chunk.
LEMMA RequestIndexNone ==
    ASSUME NEW list \in Seq(ChunkRangeSt), NEW requested, NEW cp \in Int,
           NEW last \in Int, NEW peer \in Seq(ChunkRangeSt),
           RequestIndex(list, requested, cp, last, peer) = -1,
           NEW i \in Covered(peer), cp >= 0 => cp < i /\ i <= last
    PROVE  i \in Covered(list) \cup requested
<1> DEFINE wanted(S) == {j \in S : ~IsHaveData(list, requested, j)}
           ahead == wanted(((cp + 1)..last) \cap Covered(peer))
           hits == {m \in DOMAIN peer :
                       wanted(peer[m].Start .. peer[m].End) # {}}
           k == First(hits)
<1>1. \A m \in DOMAIN peer : peer[m].Start \in Nat /\ peer[m].End \in Nat
  BY RangeBounds
<1>2. Covered(peer) \subseteq Nat /\ i \in Int
  BY <1>1, CoveredMember
<1>3. IsHaveData(list, requested, i) => i \in Covered(list) \cup requested
  BY <1>2, CoveredMember DEF IsHaveData
<1>4. CASE cp >= 0
  <2>1. CASE ahead # {}
    <3>1. RequestIndex(list, requested, cp, last, peer) = Min(ahead)
      BY <1>4, <2>1 DEF RequestIndex
    <3>2. ahead \in SUBSET Nat
      BY <1>2
    <3>3. Min(ahead) \in ahead
      BY <2>1, <3>2, MinInSet
    <3>4. Min(ahead) \in Nat
      BY <3>2, <3>3
    <3> HIDE DEF ahead
    <3> QED
      BY <3>1, <3>4
  <2>2. CASE ahead = {}
    <3>1. i \in (cp + 1)..last
      BY <1>2, <1>4
    <3> QED
      BY <1>3, <2>2, <3>1
  <2> QED
    BY <2>1, <2>2
<1>5. CASE cp < 0
  <2>1. hits \in SUBSET (Nat \ {0})
    OBVIOUS
  <2>2. CASE hits # {}
    <3> DEFINE S == wanted(peer[k].Start .. peer[k].End)
    <3>1. k \in hits
      BY <2>1, <2>2, FirstHit
    <3>2. k # 0 /\ k \in DOMAIN peer /\ S # {}
      <4> HIDE DEF k, wanted
      <4>1. k \in DOMAIN peer /\ S # {}
        BY <3>1
      <4>2. k # 0
        BY <2>1, <3>1
      <4> QED
        BY <4>1, <4>2
    <3>3. RequestIndex(list, requested, cp, last, peer) = Min(S)
      BY <1>5, <3>2 DEF RequestIndex
    <3> HIDE DEF k
    <3>4. S \in SUBSET Nat
      BY <1>1, <3>2
    <3>5. Min(S) \in S
      BY <3>2, <3>4, MinInSet
    <3>6. Min(S) \in Nat
      BY <3>4, <3>5
    <3> HIDE DEF S
    <3> QED
      BY <3>3, <3>6
  <2>3. CASE hits = {}
    <3>1. PICK m \in DOMAIN peer : i \in peer[m].Start .. peer[m].End
      BY <1>1, <1>2, CoveredMember
    <3>2. wanted(peer[m].Start .. peer[m].End) = {}
      BY <2>3
    <3> QED
      BY <1>3, <3>1, <3>2
  <2> QED
    BY <2>2, <2>3
<1> QED
  BY <1>4, <1>5

-----------------------------------------------------------------------------
(* The announced range *)

\* What a handshake announces: nothing for a list without ranges, or one of
\* the ranges, and no run of chunks of the list is longer.
THEOREM BiggestRange ==
    ASSUME NEW list \in Seq(ChunkRangeSt), Separated(list),
           NEW last \in Nat, Covered(list) \subseteq 0..last
    PROVE  LET r == BiggestHavedChunkRange(list)
           IN  IF Covered(list) = {} THEN r.Start = -1
               ELSE /\ r.Start .. r.End \subseteq Covered(list)
                    /\ \A a, b \in Nat : a..b \subseteq Covered(list) =>
                                            b - a <= r.End - r.Start
<1> DEFINE gap(k) == list[k].End - list[k].Start + 1
           Longest == {k \in DOMAIN list : \A m \in DOMAIN list : gap(m) <= gap(k)}
           r == BiggestHavedChunkRange(list)
<1>1. r = IF First(Longest) = 0 THEN [Start |-> -1, End |-> -1] ELSE list[First(Longest)]
  BY DEF BiggestHavedChunkRange
<1>2. \A k \in DOMAIN list : /\ list[k].Start \in Nat /\ list[k].End \in Nat
                             /\ list[k].Start <= list[k].End
  BY RangeBounds DEF Separated
<1>3. \A k \in DOMAIN list : /\ list[k].Start \in Covered(list)
                             /\ list[k].End \in Covered(list)
                             /\ list[k].Start .. list[k].End \subseteq Covered(list)
  BY <1>2, CoveredMember
<1>4. \A k \in DOMAIN list : gap(k) \in Nat /\ last + 1 - gap(k) \in Nat
  <2>1. SUFFICES ASSUME NEW k \in DOMAIN list
                 PROVE  gap(k) \in Nat /\ last + 1 - gap(k) \in Nat
    OBVIOUS
  <2>2. list[k].End <= last
    BY <1>2, <1>3
  <2> QED
    BY <1>2, <2>2
<1>5. Longest \in SUBSET (Nat \ {0})
  OBVIOUS
<1> HIDE DEF r
<1>6. CASE Covered(list) = {}
  <2>1. DOMAIN list = {}
    BY <1>3, <1>6
  <2>2. Longest = {}
    BY <2>1
  <2> HIDE DEF Longest
  <2>3. First(Longest) = 0
    BY <1>5, <2>2, FirstHit
  <2>4. r.Start = -1
    BY <1>1, <2>3
  <2> QED
    BY <1>6, <2>4 DEF r
<1>7. CASE Covered(list) # {}
  <2>1. PICK k0 \in DOMAIN list : TRUE
    BY <1>7, CoveredMember
  <2> DEFINE Short == {last + 1 - gap(k) : k \in DOMAIN list}
  <2>2. Short \in SUBSET Nat /\ Short # {}
    BY <1>4, <2>1
  <2>3. PICK k1 \in DOMAIN list : \A m \in DOMAIN list : last + 1 - gap(k1) <= last + 1 - gap(m)
    <3> DEFINE w == Min(Short)
    <3>1. w \in Short /\ \A y \in Short : w <= y
      <4> HIDE DEF Short
      <4> QED
        BY <2>2, MinInSet
    <3> HIDE DEF w
    <3>2. PICK k \in DOMAIN list : w = last + 1 - gap(k)
      BY <3>1
    <3> QED
      BY <3>1, <3>2
  <2>4. \A m \in DOMAIN list : gap(m) <= gap(k1)
    BY <1>4, <2>3
  <2>5. Longest # {}
    BY <2>4
  <2>6. First(Longest) \in Longest
    <3> HIDE DEF Longest
    <3> QED
      BY <1>5, <2>5, FirstHit
  <2>7. PICK k \in DOMAIN list : r = list[k] /\ \A m \in DOMAIN list : gap(m) <= gap(k)
    <3>1. First(Longest) \in DOMAIN list /\ First(Longest) # 0
      BY <2>6
    <3>2. \A m \in DOMAIN list : gap(m) <= gap(First(Longest))
      BY <2>6
    <3> HIDE DEF Longest
    <3> QED
      BY <1>1, <3>1, <3>2
  <2>8. \A m \in DOMAIN list : list[m].End - list[m].Start <= r.End - r.Start
    <3>1. SUFFICES ASSUME NEW m \in DOMAIN list
                   PROVE  list[m].End - list[m].Start <= list[k].End - list[k].Start
      BY <2>7
    <3> QED
      BY <1>2, <2>7
  <2>9. ASSUME NEW a \in Nat, NEW b \in Nat, a..b \subseteq Covered(list)
        PROVE  b - a <= r.End - r.Start
    <3>1. r.Start \in Nat /\ r.End \in Nat /\ r.Start <= r.End
      BY <1>2, <2>7
    <3>2. CASE a > b
      BY <3>1, <3>2
    <3>3. CASE a <= b
      <4>1. a \in Covered(list)
        BY <2>9, <3>3
      <4>2. PICK m \in DOMAIN list : list[m].Start <= a /\ a <= list[m].End
        BY <4>1, CoveredMember
      <4>3. list[m].End + 1 \notin a..b
        BY <2>9, GapAfterRange
      <4>4. b <= list[m].End
        BY <1>2, <4>2, <4>3
      <4>5. list[m].End - list[m].Start <= r.End - r.Start
        BY <2>8
      <4> QED
        BY <1>2, <3>1, <4>2, <4>4, <4>5
    <3> QED
      BY <3>2, <3>3
  <2>10. r.Start .. r.End \subseteq Covered(list)
    BY <1>3, <2>7
  <2> QED
    BY <1>7, <2>9, <2>10 DEF r
<1> QED
  BY <1>6, <1>7

-----------------------------------------------------------------------------
(* The folds of CheckFinish *)

\* The largest of positions 1..n.
LEMMA MaxInSet ==
    ASSUME NEW n \in Nat, NEW S \in SUBSET (1..n), S # {}
    PROVE  Max(S) \in S /\ \A y \in S : Max(S) >= y
<1> DEFINE D == {n - x : x \in S}
<1>1. D \in SUBSET Nat /\ D # {}
  <2>1. \A x \in S : n - x \in Nat
    OBVIOUS
  <2>2. PICK x \in S : TRUE
    OBVIOUS
  <2>3. n - x \in D
    OBVIOUS
  <2> QED
    BY <2>1, <2>3
<1> HIDE DEF D
<1>2. Min(D) \in D /\ \A y \in D : Min(D) <= y
  BY <1>1, MinInSet
<1>3. PICK x \in S : Min(D) = n - x
  BY <1>2 DEF D
<1>4. \A y \in S : x >= y
  <2>1. TAKE y \in S
  <2>2. n - y \in D
    BY DEF D
  <2>3. n - x <= n - y
    BY <1>2, <1>3, <2>2
  <2> QED
    BY <2>3
<1> QED
  BY <1>4 DEF Max


\* One step of a fold over a list: of CheckFinish's rounds, or of a round.
Folded(loop, acc, r) == IF loop = "inner" THEN FinishStep(acc, r) ELSE FinishRound(acc, r)

\* What FoldLeft stands for: the value of each set of positions.
Folding(loop, base, list, m, f) ==
    f = [s \in SUBSET (1..m) |->
            IF s = {} THEN base
            ELSE Folded(loop, f[s \ {Max(s)}], list[Max(s)])]

\* There are such values.
LEMMA FoldExists ==
    ASSUME NEW loop, NEW base, NEW list, NEW n \in Nat
    PROVE  \E f : Folding(loop, base, list, n, f)
<1> DEFINE Good(m) == \E f : Folding(loop, base, list, m, f)
           Wrong == {m \in 0..n : ~Good(m)}
<1>2. Good(0)
  <2> DEFINE f == [s \in SUBSET (1..0) |-> base]
  <2>1. 1..0 = {}
    OBVIOUS
  <2>2. Folding(loop, base, list, 0, f)
    BY <2>1 DEF Folding
  <2> QED
    BY <2>2
<1>3. ASSUME NEW m \in 0..(n - 1), Good(m) PROVE Good(m + 1)
  <2>1. PICK f : Folding(loop, base, list, m, f)
    BY <1>3
  <2> DEFINE g == [s \in SUBSET (1..(m + 1)) |->
                     IF m + 1 \in s THEN Folded(loop, f[s \ {m + 1}], list[m + 1])
                                    ELSE f[s]]
  <2>2. ASSUME NEW s \in SUBSET (1..(m + 1)), s # {}
        PROVE  g[s] = Folded(loop, g[s \ {Max(s)}], list[Max(s)])
    <3>0. /\ m \in Nat /\ Max(s) \in s /\ \A y \in s : Max(s) >= y
          /\ \A y \in s : y \in Nat /\ y <= m + 1 /\ y >= 1
      <4>1. m \in Nat /\ m + 1 \in Nat
        OBVIOUS
      <4>2. Max(s) \in s /\ \A y \in s : Max(s) >= y
        BY <2>2, <4>1, MaxInSet
      <4>3. \A y \in s : y \in Nat /\ y <= m + 1 /\ y >= 1
        BY <4>1
      <4> QED
        BY <4>1, <4>2, <4>3
    <3>1. CASE m + 1 \in s
      <4>1. Max(s) = m + 1
        <5>1. Max(s) >= m + 1 /\ Max(s) <= m + 1 /\ Max(s) \in Nat
          BY <3>0, <3>1
        <5> QED
          BY <3>0, <5>1
      <4>2. m + 1 \notin s \ {m + 1} /\ s \ {m + 1} \in SUBSET (1..(m+1))
        OBVIOUS
      <4> QED
        BY <3>1, <4>1, <4>2
    <3>2. CASE m + 1 \notin s
      <4>1. s \in SUBSET (1..m) /\ s \ {Max(s)} \in SUBSET (1..m) /\ s \ {Max(s)} \in SUBSET (1..(m+1))
        <5>1. \A y \in s : y \in 1..m
          BY <3>0, <3>2
        <5> QED
          BY <3>0, <5>1
      <4>2. f[s] = Folded(loop, f[s \ {Max(s)}], list[Max(s)])
        BY <2>1, <2>2, <4>1 DEF Folding
      <4>3. g[s] = f[s] /\ g[s \ {Max(s)}] = f[s \ {Max(s)}]
        BY <3>2, <4>1
      <4> QED
        BY <4>2, <4>3
    <3> QED
      BY <3>1, <3>2
  <2>3. g[{}] = base
    <3>1. {} \in SUBSET (1..m) /\ {} \in SUBSET (1..(m + 1))
      OBVIOUS
    <3>2. f[{}] = base
      BY <2>1, <3>1 DEF Folding
    <3> QED
      BY <3>1, <3>2
  <2>4. Folding(loop, base, list, m + 1, g)
    <3>1. \A s \in SUBSET (1..(m + 1)) : g[s] = IF s = {} THEN base
            ELSE Folded(loop, g[s \ {Max(s)}], list[Max(s)])
      BY <2>2, <2>3
    <3>2. g = [s \in SUBSET (1..(m + 1)) |-> g[s]]
      OBVIOUS
    <3> HIDE DEF g
    <3> QED
      BY <3>1, <3>2 DEF Folding
  <2> QED
    BY <2>4
<1>4. Wrong = {}
  <2> SUFFICES ASSUME Wrong # {} PROVE FALSE
    OBVIOUS
  <2>1. Wrong \in SUBSET Nat
    OBVIOUS
  <2> DEFINE w == Min(Wrong)
  <2> HIDE DEF Wrong
  <2>2. w \in Wrong /\ \A y \in Wrong : w <= y
    BY <2>1, MinInSet
  <2> HIDE DEF w
  <2>3. w \in 0..n /\ ~Good(w)
    BY <2>2 DEF Wrong
  <2>4. w # 0
    BY <1>2, <2>3
  <2>5. w - 1 \in 0..(n - 1) /\ w - 1 \in 0..n /\ w = (w - 1) + 1 /\ w \in Nat
    BY <2>3, <2>4
  <2>6. w - 1 \notin Wrong
    BY <2>2, <2>5
  <2>7. Good(w - 1)
    BY <2>5, <2>6 DEF Wrong
  <2> HIDE DEF Good
  <2> QED
    BY <1>3, <2>3, <2>5, <2>7
<1>5. Good(n)
  <2>1. n \in 0..n
    OBVIOUS
  <2> HIDE DEF Good
  <2> QED
    BY <1>4, <2>1
<1> QED
  BY <1>5

\* Hence a fold goes from one accumulated value to the next.
LEMMA FoldValues ==
    ASSUME NEW loop, NEW base, NEW list \in Seq(ChunkRangeSt), NEW f,
           Folding(loop, base, list, Len(list), f)
    PROVE  \E h : /\ h[0] = base
                  /\ \A k \in 1..Len(list) : h[k] = Folded(loop, h[k - 1], list[k])
                  /\ h[Len(list)] = f[1..Len(list)]
<1> DEFINE n == Len(list)
           h == [k \in 0..n |-> f[1..k]]
<1>0. n \in Nat
  OBVIOUS
<1> HIDE DEF n
<1>1. h[0] = base
  <2>1. 1..0 = {} /\ {} \in SUBSET (1..n)
    OBVIOUS
  <2>2. f[{}] = base
    BY <2>1 DEF Folding, n
  <2> QED
    BY <1>0, <2>1, <2>2
<1>2. ASSUME NEW k \in 1..n PROVE h[k] = Folded(loop, h[k - 1], list[k])
  <2>1. 1..k \in SUBSET (1..n) /\ 1..k # {} /\ k \in Nat /\ k - 1 \in 0..n /\ k \in 0..n
    BY <1>0
  <2>2. Max(1..k) = k
    <3>1. Max(1..k) \in 1..k /\ \A y \in 1..k : Max(1..k) >= y
      BY <2>1, MaxInSet
    <3>2. Max(1..k) >= k
      BY <2>1, <3>1
    <3> QED
      BY <2>1, <3>1, <3>2
  <2>3. (1..k) \ {k} = 1..(k - 1)
    BY <2>1
  <2>4. f[1..k] = Folded(loop, f[(1..k) \ {Max(1..k)}], list[Max(1..k)])
    BY <2>1 DEF Folding, n
  <2>5. h[k] = f[1..k] /\ h[k - 1] = f[1..(k - 1)]
    BY <2>1
  <2> HIDE DEF h
  <2> QED
    BY <2>2, <2>3, <2>4, <2>5
<1>3. h[n] = f[1..n]
  BY <1>0
<1> HIDE DEF h
<1> QED
  BY <1>1, <1>2, <1>3 DEF n

\* Both folds of CheckFinish go so.
LEMMA FoldSteps ==
    ASSUME NEW loop \in {"inner", "outer"}, NEW base, NEW list \in Seq(ChunkRangeSt)
    PROVE  \E h : /\ h[0] = base
                  /\ \A k \in 1..Len(list) : h[k] = Folded(loop, h[k - 1], list[k])
                  /\ h[Len(list)] = IF loop = "inner" THEN FoldLeft(FinishStep, base, list)
                                             ELSE FoldLeft(FinishRound, base, list)
<1> DEFINE n == Len(list)
<1>0. n \in Nat /\ DOMAIN list = 1..n
  OBVIOUS
<1> HIDE DEF n
<1>1. \E f : Folding(loop, base, list, n, f)
  BY <1>0, FoldExists
<1>2. CASE loop = "inner"
  <2> DEFINE Is(g) == g = [s \in SUBSET (1..n) |->
                             IF s = {} THEN base
                             ELSE FinishStep(g[s \ {Max(s)}], list[Max(s)])]
             c == CHOOSE g : Is(g)
  <2>1. FoldLeft(FinishStep, base, list) = c[1..n]
    BY <1>0 DEF FoldLeft, MapThenFoldSet
  <2>2. \A g : Folding(loop, base, list, n, g) <=> Is(g)
    BY <1>2 DEF Folding, Folded
  <2>3. Folding(loop, base, list, n, c)
    BY <1>1, <2>2
  <2> HIDE DEF c
  <2>4. \E h : /\ h[0] = base
               /\ \A k \in 1..n : h[k] = Folded(loop, h[k - 1], list[k])
               /\ h[n] = c[1..n]
    BY <2>3, FoldValues DEF n
  <2> QED
    BY <1>2, <2>1, <2>4 DEF n
<1>3. CASE loop = "outer"
  <2> DEFINE Is(g) == g = [s \in SUBSET (1..n) |->
                             IF s = {} THEN base
                             ELSE FinishRound(g[s \ {Max(s)}], list[Max(s)])]
             c == CHOOSE g : Is(g)
  <2>1. FoldLeft(FinishRound, base, list) = c[1..n]
    BY <1>0 DEF FoldLeft, MapThenFoldSet
  <2>2. \A g : Folding(loop, base, list, n, g) <=> Is(g)
    BY <1>3 DEF Folding, Folded
  <2>3. Folding(loop, base, list, n, c)
    BY <1>1, <2>2
  <2> HIDE DEF c
  <2>4. \E h : /\ h[0] = base
               /\ \A k \in 1..n : h[k] = Folded(loop, h[k - 1], list[k])
               /\ h[n] = c[1..n]
    BY <2>3, FoldValues DEF n
  <2> QED
    BY <1>3, <2>1, <2>4 DEF n
<1> QED
  BY <1>2, <1>3

-----------------------------------------------------------------------------
(* CheckFinish *)

\* What CheckFinish has put together, and what it has left, are chunks of a set.
Within(C, acc) ==
    /\ acc \in [start : Int, end : Int, rest : Seq(ChunkRangeSt)]
    /\ \A k \in DOMAIN acc.rest : acc.rest[k].Start .. acc.rest[k].End \subseteq C
    /\ acc.start >= 0 => acc.end \in Nat /\ acc.start .. acc.end \subseteq C

\* A step of a round takes the range over, or leaves it.
LEMMA FinishSteps ==
    ASSUME NEW s \in Int, NEW e \in Int, NEW rest \in Seq(ChunkRangeSt),
           NEW r \in ChunkRangeSt
    PROVE  FinishStep([start |-> s, end |-> e, rest |-> rest], r) =
             CASE s < 0 -> [start |-> r.Start, end |-> r.End, rest |-> rest]
               [] s >= 0 /\ r.Start < s /\ r.End <= e /\ r.End >= s - 1 ->
                    [start |-> r.Start, end |-> e, rest |-> rest]
               [] s >= 0 /\ r.Start >= s /\ r.End > e /\ r.Start <= e + 1 ->
                    [start |-> s, end |-> r.End, rest |-> rest]
               [] s >= 0 /\ r.Start <= s /\ r.End >= e ->
                    [start |-> r.Start, end |-> r.End, rest |-> rest]
               [] OTHER -> [start |-> s, end |-> e, rest |-> Append(rest, r)]
<1> DEFINE acc == [start |-> s, end |-> e, rest |-> rest]
<1>1. acc.start = s /\ acc.end = e /\ acc.rest = rest
  OBVIOUS
<1>2. [acc EXCEPT !.start = r.Start, !.end = r.End]
         = [start |-> r.Start, end |-> r.End, rest |-> rest]
  <2> DEFINE first == [acc EXCEPT !.start = r.Start]
  <2>1. [acc EXCEPT !.start = r.Start, !.end = r.End] = [first EXCEPT !.end = r.End]
    OBVIOUS
  <2>2. first = [start |-> r.Start, end |-> e, rest |-> rest]
    OBVIOUS
  <2> HIDE DEF first
  <2>3. [first EXCEPT !.end = r.End] = [start |-> r.Start, end |-> r.End, rest |-> rest]
    BY <2>2
  <2> QED
    BY <2>1, <2>3
<1>3. [acc EXCEPT !.start = r.Start] = [start |-> r.Start, end |-> e, rest |-> rest]
  OBVIOUS
<1>4. [acc EXCEPT !.end = r.End] = [start |-> s, end |-> r.End, rest |-> rest]
  OBVIOUS
<1>5. [acc EXCEPT !.rest = Append(@, r)] = [start |-> s, end |-> e, rest |-> Append(rest, r)]
  OBVIOUS
<1> HIDE DEF acc
<1>6. FinishStep(acc, r) =
             CASE s < 0 -> [start |-> r.Start, end |-> r.End, rest |-> rest]
               [] s >= 0 /\ r.Start < s /\ r.End <= e /\ r.End >= s - 1 ->
                    [start |-> r.Start, end |-> e, rest |-> rest]
               [] s >= 0 /\ r.Start >= s /\ r.End > e /\ r.Start <= e + 1 ->
                    [start |-> s, end |-> r.End, rest |-> rest]
               [] s >= 0 /\ r.Start <= s /\ r.End >= e ->
                    [start |-> r.Start, end |-> r.End, rest |-> rest]
               [] OTHER -> [start |-> s, end |-> e, rest |-> Append(rest, r)]
  BY <1>1, <1>2, <1>3, <1>4, <1>5 DEF FinishStep
<1> QED
  BY <1>6 DEF acc

\* A step of a round keeps to the chunks,
LEMMA FinishStepWithin ==
    ASSUME NEW C, NEW acc, Within(C, acc),
           NEW r \in ChunkRangeSt, r.Start .. r.End \subseteq C
    PROVE  Within(C, FinishStep(acc, r))
<1>1. PICK s \in Int, e \in Int, q \in Seq(ChunkRangeSt) :
          acc = [start |-> s, end |-> e, rest |-> q]
  BY DEF Within
<1>2. /\ \A k \in DOMAIN q : q[k].Start .. q[k].End \subseteq C
      /\ s >= 0 => e \in Nat /\ s..e \subseteq C
  BY <1>1 DEF Within
<1>3. r.Start \in Nat /\ r.End \in Nat
  BY DEF ChunkRangeSt
<1> DEFINE new == FinishStep([start |-> s, end |-> e, rest |-> q], r)
<1>4. new = CASE s < 0 -> [start |-> r.Start, end |-> r.End, rest |-> q]
              [] s >= 0 /\ r.Start < s /\ r.End <= e /\ r.End >= s - 1 ->
                   [start |-> r.Start, end |-> e, rest |-> q]
              [] s >= 0 /\ r.Start >= s /\ r.End > e /\ r.Start <= e + 1 ->
                   [start |-> s, end |-> r.End, rest |-> q]
              [] s >= 0 /\ r.Start <= s /\ r.End >= e ->
                   [start |-> r.Start, end |-> r.End, rest |-> q]
              [] OTHER -> [start |-> s, end |-> e, rest |-> Append(q, r)]
  BY FinishSteps
<1>5a. SUFFICES Within(C, new)
  BY <1>1
<1> HIDE DEF new
<1>5. ASSUME NEW a \in Nat, NEW b \in Nat, a..b \subseteq C,
             new = [start |-> a, end |-> b, rest |-> q]
      PROVE  Within(C, new)
  BY <1>2, <1>5 DEF Within
<1>6. CASE s < 0
  BY <1>3, <1>4, <1>5, <1>6
<1>7. CASE s >= 0 /\ r.Start < s /\ r.End <= e /\ r.End >= s - 1
  <2>1. new = [start |-> r.Start, end |-> e, rest |-> q]
    BY <1>3, <1>4, <1>7
  <2>2. ASSUME NEW i \in r.Start .. e PROVE i \in C
    <3>1. i \in r.Start .. r.End \/ i \in s..e
      BY <1>2, <1>3, <1>7
    <3> QED
      BY <1>2, <1>7, <3>1
  <2> QED
    BY <1>2, <1>3, <1>5, <1>7, <2>1, <2>2
<1>8. CASE s >= 0 /\ r.Start >= s /\ r.End > e /\ r.Start <= e + 1
  <2>1. new = [start |-> s, end |-> r.End, rest |-> q]
    BY <1>3, <1>4, <1>8
  <2>2. ASSUME NEW i \in s .. r.End PROVE i \in C
    <3>1. i \in r.Start .. r.End \/ i \in s..e
      BY <1>2, <1>3, <1>8
    <3> QED
      BY <1>2, <1>8, <3>1
  <2> QED
    BY <1>2, <1>3, <1>5, <1>8, <2>1, <2>2
<1>9. CASE s >= 0 /\ r.Start <= s /\ r.End >= e
           /\ ~(r.Start < s /\ r.End <= e /\ r.End >= s - 1)
           /\ ~(r.Start >= s /\ r.End > e /\ r.Start <= e + 1)
  <2>1. new = [start |-> r.Start, end |-> r.End, rest |-> q]
    BY <1>3, <1>4, <1>9
  <2> QED
    BY <1>3, <1>5, <2>1
<1>10. CASE s >= 0 /\ ~(r.Start <= s /\ r.End >= e)
            /\ ~(r.Start < s /\ r.End <= e /\ r.End >= s - 1)
            /\ ~(r.Start >= s /\ r.End > e /\ r.Start <= e + 1)
  <2> DEFINE more == Append(q, r)
  <2>1. new = [start |-> s, end |-> e, rest |-> more]
    BY <1>3, <1>4, <1>10
  <2>2. /\ more \in Seq(ChunkRangeSt)
        /\ \A k \in DOMAIN more : more[k] = r \/ \E m \in DOMAIN q : more[k] = q[m]
    OBVIOUS
  <2>3. \A k \in DOMAIN more : more[k].Start .. more[k].End \subseteq C
    BY <1>2, <2>2
  <2> HIDE DEF more
  <2> QED
    BY <1>2, <2>1, <2>2, <2>3 DEF Within
<1> QED
  BY <1>1, <1>6, <1>7, <1>8, <1>9, <1>10

\* and so does a fold of such steps or rounds.
LEMMA FoldWithin ==
    ASSUME NEW C, NEW loop \in {"inner", "outer"}, NEW list \in Seq(ChunkRangeSt), NEW h,
           Within(C, h[0]),
           \A k \in 1..Len(list) : h[k] = Folded(loop, h[k - 1], list[k]),
           \A k \in 1..Len(list) : Within(C, h[k - 1]) => Within(C, Folded(loop, h[k - 1], list[k]))
    PROVE  Within(C, h[Len(list)])
<1> DEFINE n == Len(list)
           Wrong == {k \in 0..n : ~Within(C, h[k])}
<1>0. n \in Nat /\ Wrong \in SUBSET Nat
  OBVIOUS
<1>1. SUFFICES ASSUME Wrong # {} PROVE FALSE
  BY <1>0
<1> DEFINE w == Min(Wrong)
<1> HIDE DEF Wrong, n
<1>2. w \in Wrong /\ \A k \in Wrong : w <= k
  BY <1>0, <1>1, MinInSet
<1> HIDE DEF w
<1>3. w \in 0..n /\ ~Within(C, h[w])
  BY <1>2 DEF Wrong
<1>4. w # 0
  BY <1>3
<1>5. w \in 1..n /\ w - 1 \in 0..n /\ w - 1 < w
  BY <1>0, <1>3, <1>4
<1>6. w - 1 \notin Wrong
  BY <1>0, <1>2, <1>5
<1>7. Within(C, h[w - 1])
  BY <1>5, <1>6 DEF Wrong
<1> QED
  BY <1>3, <1>5, <1>7 DEF n

\* So does a whole round of the search.
LEMMA FinishRoundWithin ==
    ASSUME NEW C, NEW acc, Within(C, acc), NEW r
    PROVE  Within(C, FinishRound(acc, r))
<1> DEFINE base == [acc EXCEPT !.rest = <<>>]
           list == acc.rest
<1>0. list \in Seq(ChunkRangeSt) /\ DOMAIN list = 1..Len(list) /\ Within(C, base)
  <2>1. /\ acc.start \in Int /\ acc.end \in Int /\ acc.rest \in Seq(ChunkRangeSt)
        /\ acc = [start |-> acc.start, end |-> acc.end, rest |-> acc.rest]
    BY DEF Within
  <2>2. base = [start |-> acc.start, end |-> acc.end, rest |-> <<>>]
    BY <2>1
  <2>2a. <<>> \in Seq(ChunkRangeSt)
    OBVIOUS
  <2> HIDE DEF base
  <2>3. /\ base.start = acc.start /\ base.end = acc.end /\ base.rest = <<>>
        /\ base \in [start : Int, end : Int, rest : Seq(ChunkRangeSt)]
    BY <2>1, <2>2, <2>2a
  <2>4. DOMAIN base.rest = {}
    BY <2>3
  <2>5. Within(C, base)
    BY <2>3, <2>4 DEF Within
  <2> QED
    BY <2>1, <2>5
<1>1. \A k \in 1..Len(list) : /\ list[k] \in ChunkRangeSt
                              /\ list[k].Start .. list[k].End \subseteq C
  BY <1>0 DEF Within
<1>2. FinishRound(acc, r) = FoldLeft(FinishStep, base, list)
  BY DEF FinishRound
<1> HIDE DEF base, list
<1>3. PICK h : /\ h[0] = base
               /\ \A k \in 1..Len(list) : h[k] = Folded("inner", h[k - 1], list[k])
               /\ h[Len(list)] = FoldLeft(FinishStep, base, list)
  <2>1. list \in Seq(ChunkRangeSt) /\ "inner" \in {"inner", "outer"}
    BY <1>0
  <2> QED
    BY <2>1, FoldSteps
<1>4. \A k \in 1..Len(list) :
          Within(C, h[k - 1]) => Within(C, Folded("inner", h[k - 1], list[k]))
  BY <1>1, FinishStepWithin DEF Folded
<1> QED
  BY <1>0, <1>2, <1>3, <1>4, FoldWithin

\* FinishRange: whatever CheckFinish finds, the chunks of it are there.
THEOREM FinishRangeCovered ==
    ASSUME NEW list \in Seq(ChunkRangeSt)
    PROVE  LET found == FinishRange(list)
           IN  found.Start >= 0 => /\ found.End \in Nat
                                   /\ found.Start .. found.End \subseteq Covered(list)
<1> DEFINE base == [start |-> -1, end |-> -1, rest |-> list]
           C == Covered(list)
           acc == FoldLeft(FinishRound, base, list)
<1>1. Within(C, base)
  BY DEF Within, Covered
<1>2. FinishRange(list) = [Start |-> acc.start, End |-> acc.end]
  BY DEF FinishRange
<1> HIDE DEF base, acc, C
<1>3. PICK h : /\ h[0] = base
               /\ \A k \in 1..Len(list) : h[k] = Folded("outer", h[k - 1], list[k])
               /\ h[Len(list)] = FoldLeft(FinishRound, base, list)
  BY FoldSteps
<1>4. \A k \in 1..Len(list) :
          Within(C, h[k - 1]) => Within(C, Folded("outer", h[k - 1], list[k]))
  BY FinishRoundWithin DEF Folded
<1>5. Within(C, acc)
  BY <1>1, <1>3, <1>4, FoldWithin DEF acc
<1> QED
  BY <1>2, <1>5 DEF Within, C

\* A list that covers 0..last has one range, and CheckFinish finds it.
THEOREM FinishRangeWhole ==
    ASSUME NEW list \in Seq(ChunkRangeSt), Separated(list),
           NEW last \in Nat, Covered(list) = 0..last
    PROVE  FinishRange(list) = [Start |-> 0, End |-> last]
<1>0. \A k \in DOMAIN list : /\ list[k].Start \in Nat /\ list[k].End \in Nat
                             /\ list[k].Start <= list[k].End
  BY RangeBounds DEF Separated
<1>1. PICK k \in DOMAIN list : list[k].Start <= 0 /\ 0 <= list[k].End
  <2>1. 0 \in Covered(list)
    OBVIOUS
  <2> QED
    BY <2>1, CoveredMember
<1>2. list[k].Start = 0 /\ list[k].End = last
  <2>1. list[k].End \in Covered(list)
    BY <1>0, CoveredMember
  <2>2. list[k].End + 1 \notin Covered(list)
    BY GapAfterRange
  <2> QED
    BY <1>0, <1>1, <2>1, <2>2
<1>3. \A m \in DOMAIN list : m = k
  <2>1. SUFFICES ASSUME NEW m \in DOMAIN list, m # k PROVE FALSE
    OBVIOUS
  <2>2. list[m].Start \in Covered(list)
    BY <1>0, CoveredMember
  <2>3. list[m].Start <= last
    BY <2>2
  <2> QED
    BY <1>0, <1>2, <2>1, <2>3 DEF Separated
<1>4. Len(list) = 1 /\ 1 \in DOMAIN list
  <2>1. DOMAIN list = 1..Len(list) /\ Len(list) \in Nat
    OBVIOUS
  <2>2. 1 \in DOMAIN list /\ Len(list) \in DOMAIN list
    BY <1>1, <2>1
  <2> QED
    BY <1>3, <2>2
<1>5. list[1].Start = 0 /\ list[1].End = last /\ list[1] \in ChunkRangeSt
  BY <1>2, <1>3, <1>4
<1> DEFINE base == [start |-> -1, end |-> -1, rest |-> list]
           empty == [start |-> -1, end |-> -1, rest |-> <<>>]
           acc == FoldLeft(FinishRound, base, list)
<1>6. PICK h : /\ h[0] = base /\ \A j \in 1..1 : h[j] = Folded("outer", h[j - 1], list[j])
               /\ h[1] = acc
  BY <1>4, FoldSteps
<1>0a. 1 \in 1..1 /\ 1 - 1 = 0 /\ "inner" # "outer"
  OBVIOUS
<1>7. acc = FinishRound(base, list[1])
  <2> HIDE DEF acc, base
  <2> QED
    BY <1>0a, <1>6 DEF Folded
<1>8. FinishRound(base, list[1]) = FoldLeft(FinishStep, empty, list)
  BY DEF FinishRound
<1>9. PICK g : /\ g[0] = empty /\ \A j \in 1..1 : g[j] = Folded("inner", g[j - 1], list[j])
               /\ g[1] = FoldLeft(FinishStep, empty, list)
  BY <1>4, FoldSteps
<1>10. FoldLeft(FinishStep, empty, list) = FinishStep(empty, list[1])
  <2> HIDE DEF empty
  <2> QED
    BY <1>0a, <1>9 DEF Folded
<1>11. FinishStep(empty, list[1]) = [start |-> 0, end |-> last, rest |-> <<>>]
  <2> DEFINE s == -1
             q == <<>>
             r == list[1]
  <2>1. s \in Int /\ q \in Seq(ChunkRangeSt) /\ s < 0 /\ r \in ChunkRangeSt
    BY <1>5
  <2>2. empty = [start |-> s, end |-> s, rest |-> q]
    OBVIOUS
  <2> HIDE DEF s, q, r, empty
  <2>3. FinishStep([start |-> s, end |-> s, rest |-> q], r)
           = CASE s < 0 -> [start |-> r.Start, end |-> r.End, rest |-> q]
               [] s >= 0 /\ r.Start < s /\ r.End <= s /\ r.End >= s - 1 ->
                    [start |-> r.Start, end |-> s, rest |-> q]
               [] s >= 0 /\ r.Start >= s /\ r.End > s /\ r.Start <= s + 1 ->
                    [start |-> s, end |-> r.End, rest |-> q]
               [] s >= 0 /\ r.Start <= s /\ r.End >= s ->
                    [start |-> r.Start, end |-> r.End, rest |-> q]
               [] OTHER -> [start |-> s, end |-> s, rest |-> Append(q, r)]
    BY <2>1, FinishSteps
  <2>4. FinishStep([start |-> s, end |-> s, rest |-> q], r)
           = [start |-> r.Start, end |-> r.End, rest |-> q]
    BY <2>1, <2>3
  <2> QED
    BY <1>5, <2>2, <2>4 DEF q, r
<1> QED
  BY <1>7, <1>8, <1>10, <1>11 DEF FinishRange
=============================================================================
