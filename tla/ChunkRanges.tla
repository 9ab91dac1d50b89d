---------------------------- MODULE ChunkRanges -----------------------------
(* The algorithms of class Binmap on its list of chunk ranges, as operators: *)
(* adding a range, choosing a chunk to request, recognising a complete list. *)
(* Binmap uses them under the locks of the code, Download one call at a      *)
(* time.                                                                     *)
EXTENDS Integers, Sequences, FiniteSets, SequencesExt, FiniteSetsExt

\* A ChunkRangeSt: the chunks Start..End.
ChunkRangeSt == [Start : Nat, End : Nat]

Covered(list) == UNION {list[k].Start .. list[k].End : k \in DOMAIN list}

\* The first position of a set of them, 0 for none: how the loops over the
\* list, which stop at the first hit, are read.
First(S) == IF S = {} THEN 0 ELSE Min(S)

\* Mutant of Meets: adjacent ranges are not recognised.
MeetsOverlapOnly(r, start, end) == r.End >= start /\ r.Start <= end

\* start..end overlaps r or is adjacent to it: one of the four cases of the
\* first loop applies to r.
Meets(r, start, end) == r.End + 1 >= start /\ r.Start - 1 <= end

Encloses(r, start, end) == r.Start <= start /\ r.End >= end

\* The three growing cases widen r to take in start..end.
Grown(r, start, end) ==
    [Start |-> IF r.Start <= start THEN r.Start ELSE start,
     End   |-> IF r.End >= end THEN r.End ELSE end]

\* The second loop: r takes over the range ch that was just changed, from
\* below or from above.
ExtendsUp(r, ch)   == r.End + 1 >= ch.Start /\ r.End < ch.End
ExtendsDown(r, ch) == r.Start - 1 <= ch.End /\ r.Start > ch.End

Absorbed(r, ch) ==
    IF ExtendsUp(r, ch) THEN [Start |-> r.Start, End |-> ch.End]
                        ELSE [Start |-> ch.Start, End |-> r.End]

\* Mutant of MergeChanged: a merge does not move CP.
MergeKeepsCP(list, k, cp) ==
    LET j == First({m \in DOMAIN list : \/ ExtendsUp(list[m], list[k])
                                        \/ ExtendsDown(list[m], list[k])})
    IN  IF j = 0
        THEN [list |-> list, CP |-> cp]
        ELSE [list |-> RemoveAt([list EXCEPT ![j] =
                                    Absorbed(list[j], list[k])], k),
              CP   |-> cp]

\* Position k holds the changed range: hand it to the first range that takes
\* it over and erase it.
MergeChanged(list, k, cp) ==
    LET j == First({m \in DOMAIN list : \/ ExtendsUp(list[m], list[k])
                                        \/ ExtendsDown(list[m], list[k])})
        r == Absorbed(list[j], list[k])
    IN  IF j = 0
        THEN [list |-> list, CP |-> cp]
        ELSE [list |-> RemoveAt([list EXCEPT ![j] = r], k),
              CP   |-> IF r.Start = 0 /\ cp < r.End THEN r.End ELSE cp]

\* SetHave(start, end): the list and CP afterwards. A range that is appended
\* never sets CP.
AfterSetHave(list, cp, start, end) ==
    LET k  == First({m \in DOMAIN list : Meets(list[m], start, end)})
        ch == Grown(list[k], start, end)
    IN  CASE k = 0 ->
                [list |-> Append(list, [Start |-> start, End |-> end]),
                 CP   |-> cp]
          [] k # 0 /\ Encloses(list[k], start, end) ->
                [list |-> list, CP |-> cp]
          [] OTHER ->
                MergeChanged([list EXCEPT ![k] = ch], k,
                             IF ch.Start = 0 THEN ch.End ELSE cp)

\* Mutant of IsHaveData: what other channels have requested does not count.
IsHaveDataOnly(list, requested, i) ==
    \E k \in DOMAIN list : list[k].Start <= i /\ list[k].End >= i

\* IsHaveData looks into RequestedMap inside its loop over the list: with an
\* empty list nothing counts as requested.
IsHaveData(list, requested, i) ==
    \E k \in DOMAIN list : \/ list[k].Start <= i /\ list[k].End >= i
                           \/ i \in requested

\* GetRequestData: the chunk to ask a peer with range list peer for, -1 for
\* none. A CP of 0 or more restricts the search to CP+1..last.
RequestIndex(list, requested, cp, last, peer) ==
    LET wanted(S) == {i \in S : ~IsHaveData(list, requested, i)}
        ahead == wanted(((cp + 1)..last) \cap Covered(peer))
        k == First({m \in DOMAIN peer :
                        wanted(peer[m].Start .. peer[m].End) # {}})
    IN  CASE cp >= 0 /\ ahead # {} -> Min(ahead)
          [] cp < 0 /\ k # 0       -> Min(wanted(peer[k].Start .. peer[k].End))
          [] OTHER                 -> -1

\* Mutant of BiggestHavedChunkRange: the last range instead of the longest.
LastHavedChunkRange(list) ==
    LET k == First({k \in DOMAIN list :
                        \A m \in DOMAIN list : list[m].End <= list[k].End})
    IN  IF k = 0 THEN [Start |-> -1, End |-> -1] ELSE list[k]

\* GetBiggestHavedChunkRange: the first of the longest ranges, which is what
\* a handshake announces.
BiggestHavedChunkRange(list) ==
    LET gap(k) == list[k].End - list[k].Start + 1
        longest == First({k \in DOMAIN list :
                            \A m \in DOMAIN list : gap(m) <= gap(k)})
    IN  IF longest = 0 THEN [Start |-> -1, End |-> -1] ELSE list[longest]

\* Mutants of FinishStep: ranges with a gap between them are put together;
\* the end of the first range is not taken over.
FinishStepOverGaps(acc, r) ==
    [acc EXCEPT !.start = IF @ < 0 \/ r.Start < @ THEN r.Start ELSE @,
                !.end   = IF r.End > @ THEN r.End ELSE @]

FinishStepNoEnd(acc, r) ==
    IF acc.start < 0 THEN [acc EXCEPT !.start = r.Start]
                     ELSE [acc EXCEPT !.rest = Append(@, r)]

\* One round of CheckFinish over its copy of the list: acc is the range put
\* together so far and the ranges left.
FinishStep(acc, r) ==
    CASE acc.start < 0 ->
            [acc EXCEPT !.start = r.Start, !.end = r.End]
      [] /\ acc.start >= 0
         /\ r.Start < acc.start /\ r.End <= acc.end /\ r.End >= acc.start - 1 ->
            [acc EXCEPT !.start = r.Start]
      [] /\ acc.start >= 0
         /\ r.Start >= acc.start /\ r.End > acc.end /\ r.Start <= acc.end + 1 ->
            [acc EXCEPT !.end = r.End]
      [] /\ acc.start >= 0
         /\ r.Start <= acc.start /\ r.End >= acc.end ->
            [acc EXCEPT !.start = r.Start, !.end = r.End]
      [] OTHER ->
            [acc EXCEPT !.rest = Append(@, r)]

\* A round goes through what the one before has left.
FinishRound(acc, r) ==
    FoldLeft(FinishStep, [acc EXCEPT !.rest = <<>>], acc.rest)

\* The rounds stop when one removes nothing, so Len(list) of them are enough.
FinishRange(list) ==
    LET acc == FoldLeft(FinishRound,
                        [start |-> -1, end |-> -1, rest |-> list], list)
    IN  [Start |-> acc.start, End |-> acc.end]

\* No two ranges of the list overlap or touch.
Separated(list) ==
    /\ \A k \in DOMAIN list : list[k].Start <= list[k].End
    /\ \A k, m \in DOMAIN list :
          k # m => \/ list[k].End + 1 < list[m].Start
                   \/ list[m].End + 1 < list[k].Start
=============================================================================
