-------------------------------- MODULE Ranges --------------------------------
(***************************************************************************)
(* Data requests over block ranges.  A processor merges the requests its     *)
(* user added, which overlap in any way, into a list of disjoint ranges      *)
(* (mergeRangeRequests(), one iteration of its loop a step), cuts the list   *)
(* to a bound, and splits the range of a batch by it.  A request is the set  *)
(* of what it asks for; merging two of them is their union.                  *)
(*                                                                          *)
(* The merge takes ranges from a binary heap, an array in which a[k] is not  *)
(* above a[2k] and a[2k + 1] (positions are those of heap.js plus one).      *)
(***************************************************************************)
EXTENDS Integers, Sequences, FiniteSets, SequencesExt

CONSTANTS
    MaxBlock,       \* bound: the last block a range begins or ends at
    MaxRequests     \* bound: the requests that are merged

RangesAssumption == {MaxBlock, MaxRequests} \subseteq Nat \ {0}

VARIABLES
    asked,      \* the requests of the user
    heap, top, merged,
    merging,    \* whether the loop of mergeRangeRequests() goes on
    rounds      \* its iterations so far

vars == << asked, heap, top, merged, merging, rounds >>

\* The end of a range without one.
Infinity == MaxBlock + 1

BlockRange == {r \in [from : 0..MaxBlock, to : 0..Infinity] : r.from <= r.to}

\* The blocks of a range, Infinity for those above MaxBlock.
BlocksOf(r) == r.from..r.to

Least(a, b) == IF a < b THEN a ELSE b
Greatest(a, b) == IF a < b THEN b ELSE a

------------------------------------------------------------------------------
(***************************************************************************)
(* Heap                                                                     *)
(***************************************************************************)
\* compare(a, b) < 0
Before(a, b) == a.range.from < b.range.from

\* `pos` goes along a way through the array: each element on it moves to the position
\* before its own, and v gets to the last.
Along(a, way, v) ==
    FoldLeft(LAMBDA b, k : [b EXCEPT ![way[k]] = IF k = Len(way) THEN v ELSE a[way[k + 1]]],
             a, [k \in 1..Len(way) |-> k])

Push(a, v) ==
    LET up[p \in 1..(Len(a) + 1)] ==
            IF p = 1 \/ Before(a[p \div 2], v) THEN << p >> ELSE << p >> \o up[p \div 2]
    IN  Along(Append(a, v), up[Len(a) + 1], v)

\* siftDown(a, v, pos, last)
SiftDown(a, v, pos) ==
    LET child(p) == IF 2 * p + 1 <= Len(a) /\ Before(a[2 * p + 1], a[2 * p])
                    THEN 2 * p + 1 ELSE 2 * p
        down[p \in 1..Len(a)] ==
            IF 2 * p <= Len(a) /\ Before(a[child(p)], v) THEN << p >> \o down[child(p)] ELSE << p >>
    IN  Along(a, down[pos], v)

\* init(): resort() from the last position that has children.
Heapify(arr) ==
    FoldLeft(LAMBDA a, p : SiftDown(a, a[p], p), arr, Reverse([i \in 1..(Len(arr) \div 2) |-> i]))

\* pop() takes a[1].
Popped(a) ==
    LET rest == Front(a) IN IF rest = << >> THEN rest ELSE SiftDown(rest, Last(a), 1)

------------------------------------------------------------------------------
(***************************************************************************)
(* Ranges and lists of requests                                             *)
(***************************************************************************)
\* rangeIntersection(), as a sequence of one or none.
Intersection(a, b) ==
    LET i == [from |-> Greatest(a.from, b.from), to |-> Least(a.to, b.to)]
    IN  IF i.from > i.to THEN << >> ELSE << i >>

\* rangeDifference(a, i) where i is a part of a.
Difference(a, i) ==
    (IF a.from < i.from THEN << [from |-> a.from, to |-> i.from - 1] >> ELSE << >>)
        \o (IF i.to < a.to THEN << [from |-> i.to + 1, to |-> a.to] >> ELSE << >>)

ApplyRangeBound(list, bound) ==
    LET hit == SelectSeq(list, LAMBDA r : Intersection(bound, r.range) # << >>)
    IN  [k \in 1..Len(hit) |-> [range |-> Intersection(bound, hit[k].range)[1],
                                request |-> hit[k].request]]

\* splitRangeByRequest(): the requests within a finite range, and what is between two of them.
SplitRangeByRequest(list, range) ==
    LET Gap(from, to) ==
            IF from <= to THEN << [range |-> [from |-> from, to |-> to], request |-> {}] >>
            ELSE << >>
    IN  FoldLeft(LAMBDA acc, r :
                     (IF acc = << >> THEN << >>
                      ELSE acc \o Gap(Last(acc).range.to + 1, r.range.from - 1)) \o << r >>,
                 << >>, ApplyRangeBound(list, range))

\* getRequestAt(): of the first range that holds the block.
GetRequestAt(list, b) ==
    LET hit == SelectSeq(list, LAMBDA r : b \in BlocksOf(r.range))
    IN  IF hit = << >> THEN {} ELSE Head(hit).request

\* Bug: what lies above the overlap is kept for the first request only.
MergeOverlapShort(req) ==
    LET i == Intersection(top.range, req.range)[1]
        parts(r) == [k \in 1..Len(Difference(r.range, i)) |->
                        [range |-> Difference(r.range, i)[k], request |-> r.request]]
    IN  FoldLeft(Push, Popped(heap),
                 parts(top) \o << [range |-> i, request |-> top.request \cup req.request] >>)

\* What is in the heap after two ranges that overlap were cut and merged.
MergeOverlap(req) ==
    LET i == Intersection(top.range, req.range)[1]
        parts(r) == [k \in 1..Len(Difference(r.range, i)) |->
                        [range |-> Difference(r.range, i)[k], request |-> r.request]]
    IN  FoldLeft(Push, Popped(heap),
                 parts(top) \o parts(req)
                    \o << [range |-> i, request |-> top.request \cup req.request] >>)

------------------------------------------------------------------------------
\* mergeRangeRequests() returns a list of none or one as it is.
Init ==
    /\ \E n \in 0..MaxRequests : \E ranges \in [1..n -> BlockRange] :
           asked = [k \in 1..n |-> [range |-> ranges[k], request |-> {k}]]
    /\ merging = (Len(asked) > 1)
    /\ LET h == IF merging THEN Heapify(asked) ELSE << >>
       IN  /\ heap = IF merging THEN Popped(h) ELSE h
           /\ top = IF merging THEN Head(h) ELSE [range |-> [from |-> 0, to |-> 0], request |-> {}]
    /\ merged = IF merging THEN << >> ELSE asked
    /\ rounds = 0

\* The next range begins above the top one, which is final ...
MergeApart ==
    /\ merging /\ heap # << >>
    /\ Intersection(top.range, Head(heap).range) = << >>
    /\ merged' = Append(merged, top)
    /\ top' = Head(heap)
    /\ heap' = Popped(heap)
    /\ rounds' = rounds + 1
    /\ UNCHANGED << asked, merging >>

\* ... or overlaps with it.
MergeTwo ==
    /\ merging /\ heap # << >>
    /\ Intersection(top.range, Head(heap).range) # << >>
    /\ LET h == MergeOverlap(Head(heap)) IN top' = Head(h) /\ heap' = Popped(h)
    /\ rounds' = rounds + 1
    /\ UNCHANGED << asked, merged, merging >>

MergeEnds ==
    /\ merging /\ heap = << >>
    /\ merged' = Append(merged, top)
    /\ merging' = FALSE
    /\ rounds' = rounds + 1
    /\ UNCHANGED << asked, heap, top >>

Next == MergeApart \/ MergeTwo \/ MergeEnds

Spec == Init /\ [][Next]_vars

------------------------------------------------------------------------------
\* What the requests of a list ask of a block.
At(list, b) == UNION {list[k].request : k \in {j \in 1..Len(list) : b \in BlocksOf(list[j].range)}}

\* Sorted and disjoint: assertRangeList().
WellFormed(list) ==
    /\ \A k \in 1..Len(list) : list[k].range.from \in 0..list[k].range.to
    /\ \A k \in 2..Len(list) : list[k].range.from > list[k - 1].range.to

\* The array is a heap.
HeapIsOrdered == \A k \in 2..Len(heap) : ~ Before(heap[k], heap[k \div 2])

\* At no point of the merge is anything asked of a block lost or added, and what is final
\* lies below what is not.
MergeKeepsRequests ==
    /\ \A b \in 0..Infinity :
           At(asked, b) = At(merged \o heap \o (IF merging THEN << top >> ELSE << >>), b)
    /\ merging =>
           /\ WellFormed(Append(merged, top))
           /\ \A k \in 1..Len(heap) : top.range.from <= heap[k].range.from

\* The blocks that are asked for, those that are by several requests more than once.
Weight(list) == FoldLeft(LAMBDA n, r : n + Cardinality(BlocksOf(r.range)), 0, list)

\* The merge ends: every iteration takes away an overlap or a range.
MergeEndsInTime ==
    merging => rounds + Weight(Append(heap, top)) <= Weight(asked)

\* The merge ends, and the merged list is sorted, disjoint and asks of every block exactly
\* what was asked; cut to a bound it asks the same within it, and so does a batch that is
\* split by it, whose parts follow one another.
RequestsAreKept ==
    /\ HeapIsOrdered
    /\ MergeEndsInTime
    /\ MergeKeepsRequests
    /\ ~ merging => \A b \in 0..Infinity : GetRequestAt(merged, b) = At(asked, b)
    /\ ~ merging =>
        \A r \in BlockRange :
            LET cut == ApplyRangeBound(merged, r)
                split == SplitRangeByRequest(merged, r)
            IN  /\ WellFormed(cut) /\ WellFormed(split)
                /\ \A b \in 0..Infinity :
                       /\ At(cut, b) = IF b \in BlocksOf(r) THEN At(asked, b) ELSE {}
                       /\ At(split, b) = At(cut, b)
                /\ \A k \in 2..Len(split) : split[k].range.from = split[k - 1].range.to + 1

==============================================================================
