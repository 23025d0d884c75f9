------------------------ MODULE TypeormDatabaseProofs ------------------------
(***************************************************************************)
(* Proofs about TypeormDatabase, for every tree of blocks, every way a      *)
(* source may cut it into batches and every GroupDivisor.                   *)
(***************************************************************************)
EXTENDS TypeormDatabase, BlockTreeProofs

------------------------------------------------------------------------------
(***************************************************************************)
(* What the searches and the grouping compute.                              *)
(***************************************************************************)

\* The search for the first block above a height always has an answer, and the
\* blocks before it are at or below that height.
LEMMA CountUpToWorks ==
    ASSUME NEW s \in Seq(Block), NEW h \in Int
    PROVE  /\ CountUpTo(s, h) \in 0..Len(s)
           /\ \A i \in 1..CountUpTo(s, h) : Height(s[i]) <= h
           /\ CountUpTo(s, h) < Len(s) => Height(s[CountUpTo(s, h) + 1]) > h
<1> DEFINE Above == {n \in 0..Len(s) : n < Len(s) => Height(s[n + 1]) > h}
<1>1. Len(s) \in Above
  BY SMT
<1>2. PICK n \in Above : \A m \in Above : n <= m
  <2>1. Above \subseteq Nat
    OBVIOUS
  <2> HIDE DEF Above
  <2> QED BY <1>1, <2>1, LeastNatural
<1>3. ASSUME NEW i \in 1..n
      PROVE  Height(s[i]) <= h
  <2>1. i - 1 \notin Above
    BY <1>2, SMT
  <2>2. s[i] \in Ref
    BY <1>2, SMT DEF Ref
  <2>3. Height(s[i]) \in Int
    BY <2>2, HeightType
  <2>4. i - 1 \in 0..Len(s) /\ i - 1 < Len(s) /\ (i - 1) + 1 = i
    BY <1>2
  <2> QED BY <2>1, <2>3, <2>4
<1> QED BY <1>2, <1>3 DEF CountUpTo

LEMMA RefsType ==
    ASSUME NEW rows \in Seq(HotRow)
    PROVE  /\ Refs(rows) \in Seq(Block)
           /\ Len(Refs(rows)) = Len(rows)
           /\ \A i \in 1..Len(rows) : Refs(rows)[i] = rows[i].ref
<1>1. \A i \in 1..Len(rows) : rows[i] \in HotRow
  OBVIOUS
<1>2. \A i \in 1..Len(rows) : rows[i].ref \in Block
  BY <1>1 DEF HotRow
<1>3. Refs(rows) \in [1..Len(rows) -> Block] /\ Len(rows) \in Nat
  BY <1>2 DEF Refs
<1>4. Refs(rows) \in Seq(Block) /\ Len(Refs(rows)) = Len(rows)
  BY <1>3
<1> QED BY <1>4, Zenon DEF Refs

\* A batch too small for groups has one row for each unfinalized block.
LEMMA UngroupedRows ==
    ASSUME Ungrouped, NEW s \in Seq(Block), NEW u \in 0..Len(s), NEW n \in Nat,
           Len(s) < 2 * GroupDivisor
    PROVE  /\ HotRows(s, u, n) \in Seq(HotRow)
           /\ Len(HotRows(s, u, n)) = Len(s) - u
           /\ \A j \in 1..(Len(s) - u) :
                  HotRows(s, u, n)[j] = [ref |-> s[u + j], undo |-> n + u + j - 1]
           /\ \A i \in (u + 1)..Len(s) : GroupEnd(s, u, i) = i
<1>1. GroupDivisor \in Nat \ {0}
  BY DatabaseAssumption
<1>2. Len(s) \in Nat /\ Len(s) - u \in Nat /\ Len(s) - u < 2 * GroupDivisor
  BY <1>1
<1>3. ASSUME NEW x \in Nat, NEW g \in Nat \ {0}, x < 2 * g
      PROVE  x \div g <= 1 /\ x \div g \in Nat
  BY <1>3, SMT
<1>4. GroupSize(Len(s) - u) = 1
  <2>1. (Len(s) - u) \div GroupDivisor <= 1 /\ (Len(s) - u) \div GroupDivisor \in Nat
    BY <1>1, <1>2, <1>3
  <2>2. ~((Len(s) - u) \div GroupDivisor > 1)
    BY <2>1
  <2> QED BY <2>2, Zenon DEF GroupSize
<1>5. \A i \in (u + 1)..Len(s) : GroupEnd(s, u, i) = i
  BY <1>2, <1>4, SMT DEF GroupEnd
<1>6. HotRows(s, u, n)
          = [j \in 1..(Len(s) - u) |-> [ref |-> s[u + j], undo |-> n + u + j - 1]]
  <2>1. (Len(s) - u + 1 - 1) \div 1 = Len(s) - u
    BY <1>2
  <2>2. \A j \in 1..(Len(s) - u) :
            /\ u + (j - 1) * 1 + 1 = u + j
            /\ n + u + (j - 1) * 1 = n + u + j - 1
            /\ GroupEnd(s, u, u + j) = u + j
    BY <1>2, <1>5
  <2> QED BY <1>4, <2>1, <2>2 DEF HotRows
<1>7. \A j \in 1..(Len(s) - u) :
          [ref |-> s[u + j], undo |-> n + u + j - 1] \in HotRow
  BY <1>2 DEF HotRow
<1>8. HotRows(s, u, n) \in [1..(Len(s) - u) -> HotRow]
  BY <1>6, <1>7
<1>9. Len(HotRows(s, u, n)) = Len(s) - u /\ HotRows(s, u, n) \in Seq(HotRow)
  BY <1>2, <1>8, SMT
<1>10. \A j \in 1..(Len(s) - u) :
          HotRows(s, u, n)[j] = [ref |-> s[u + j], undo |-> n + u + j - 1]
  BY <1>6, Zenon
<1> QED BY <1>5, <1>9, <1>10

------------------------------------------------------------------------------
(***************************************************************************)
(* A sound state and the positions one can roll it back to.                 *)
(***************************************************************************)

\* The shape of a sound state, in the terms the provers need.
LEMMA SoundType ==
    ASSUME NEW d, Sound(d)
    PROVE  /\ d.status \in Ref
           /\ d.nonce \in Nat
           /\ d.hot \in Seq(HotRow)
           /\ d.applied \in Seq(Block)
           /\ d.templates \in SUBSET Template
           /\ Len(d.hot) \in Nat
           /\ Len(d.applied) \in Nat
           /\ Settled(d) \in 0..Len(d.applied)
           /\ Len(d.applied) = Settled(d) + Len(d.hot)
           /\ \A i \in 1..Len(d.applied) : d.applied[i] \in Block /\ d.applied[i] \in Ref
           /\ \A k \in Positions(d) : RefAt(d, k) \in Ref
           /\ HeadOf(d) \in Ref
<1>1. /\ d.status \in Ref
      /\ d.nonce \in Nat
      /\ d.hot \in Seq(HotRow)
      /\ d.applied \in Seq(Block)
      /\ d.templates \in SUBSET Template
  BY DEF Sound, DatabaseState
<1>2. Len(d.hot) \in Nat /\ Len(d.applied) \in Nat
  BY <1>1
<1>3. Settled(d) \in 0..Len(d.applied) /\ Len(d.applied) = Settled(d) + Len(d.hot)
  <2>1. Len(d.hot) <= Len(d.applied)
    BY Zenon DEF Sound, RowsAreTail
  <2>2. \A x, y \in Nat : y <= x => x - y \in 0..x /\ x = (x - y) + y
    OBVIOUS
  <2> QED BY <1>2, <2>1, <2>2, Zenon DEF Settled
<1>4. \A i \in 1..Len(d.applied) : d.applied[i] \in Block /\ d.applied[i] \in Ref
  BY <1>1 DEF Ref
<1>5. \A k \in Positions(d) : RefAt(d, k) \in Ref
  <2>1. \A k \in 1..Len(d.hot) : d.hot[k] \in HotRow
    BY <1>1
  <2>2. \A k \in 1..Len(d.hot) : d.hot[k].ref \in Block
    BY <2>1 DEF HotRow
  <2> QED BY <1>1, <1>2, <2>2 DEF Positions, RefAt, Ref
<1>6. HeadOf(d) \in Ref
  BY <1>2, <1>5 DEF HeadOf, Positions
<1> QED BY <1>1, <1>2, <1>3, <1>4, <1>5, <1>6

\* Every reference of [status, ...top] is on the chain of the head and parts the
\* mapped blocks: those up to its mark lie at or below it, the others above.
LEMMA SoundPositions ==
    ASSUME NEW d, Sound(d), NEW k \in Positions(d)
    PROVE  /\ MarkAt(d, k) = Settled(d) + k
           /\ MarkAt(d, k) \in 0..Len(d.applied)
           /\ On(RefAt(d, k), HeadOf(d))
           /\ \A i \in 1..Len(d.applied) :
                  i <= Settled(d) + k <=> Height(d.applied[i]) <= Height(RefAt(d, k))
<1> DEFINE m == Settled(d)
<1>1. /\ Len(d.hot) \in Nat /\ Len(d.applied) \in Nat /\ m \in Nat
      /\ Len(d.applied) = m + Len(d.hot)
      /\ k \in 0..Len(d.hot)
  BY SoundType DEF Positions
<1>2. \A j \in 1..Len(d.hot) :
          /\ d.hot[j].ref = d.applied[m + j]
          /\ d.hot[j].undo = m + j - 1
  BY DEF Sound, RowsAreTail
<1>3. MarkAt(d, k) = m + k
  <2>1. CASE k < Len(d.hot)
    <3>1. d.hot[k + 1].undo = m + (k + 1) - 1
      BY <1>1, <1>2, <2>1
    <3> QED BY <1>1, <2>1, <3>1 DEF MarkAt
  <2>2. CASE ~(k < Len(d.hot))
    BY <1>1, <2>2 DEF MarkAt
  <2> QED BY <2>1, <2>2
<1>4. MarkAt(d, k) \in 0..Len(d.applied)
  BY <1>1, <1>3
<1>5. \A i \in 1..Len(d.applied) : Height(d.applied[i]) \in Int
  BY SoundType, HeightType
<1>6. Ascending(d.applied) /\ \A i \in 1..Len(d.applied) : On(d.applied[i], HeadOf(d))
  BY DEF Sound, HeadReflected, Reflects, OnlyChain
<1>7. CASE k = 0
  <2>1. RefAt(d, k) = d.status
    BY <1>7 DEF RefAt
  <2> QED BY <1>1, <1>3, <1>4, <1>7, <2>1 DEF Sound, SplitAtFinal, HeadReflected
<1>8. CASE k # 0
  <2>1. RefAt(d, k) = d.applied[m + k] /\ m + k \in 1..Len(d.applied)
    BY <1>1, <1>2, <1>8 DEF RefAt
  <2>2. On(RefAt(d, k), HeadOf(d))
    BY <1>6, <2>1
  <2>3. ASSUME NEW i \in 1..Len(d.applied)
        PROVE  i <= m + k <=> Height(d.applied[i]) <= Height(d.applied[m + k])
    <3>1. i < m + k => Height(d.applied[i]) < Height(d.applied[m + k])
      BY <1>6, <2>1 DEF Ascending
    <3>2. m + k < i => Height(d.applied[m + k]) < Height(d.applied[i])
      BY <1>6, <2>1 DEF Ascending
    <3>3. Height(d.applied[i]) \in Int /\ Height(d.applied[m + k]) \in Int
      BY <1>5, <2>1
    <3>4. i = m + k \/ i < m + k \/ m + k < i
      BY <2>1
    <3> QED BY <1>1, <3>1, <3>2, <3>3, <3>4
  <2> QED BY <1>3, <1>4, <2>1, <2>2, <2>3
<1> QED BY <1>7, <1>8

\* A sound state can be rolled back to any of its references.
LEMMA SoundAddressable ==
    ASSUME NEW d, Sound(d), NEW k \in Positions(d)
    PROVE  Reflects(SubSeq(d.applied, 1, MarkAt(d, k)), RefAt(d, k))
<1> DEFINE n == MarkAt(d, k)
           r == RefAt(d, k)
           p == SubSeq(d.applied, 1, n)
<1>1. /\ n \in 0..Len(d.applied)
      /\ r \in Ref /\ HeadOf(d) \in Ref /\ On(r, HeadOf(d))
      /\ \A i \in 1..Len(d.applied) :
             i <= n <=> Height(d.applied[i]) <= Height(r)
  BY SoundType, SoundPositions
<1>2. /\ d.applied \in Seq(Block)
      /\ \A i \in 1..Len(d.applied) : d.applied[i] \in Ref
  BY SoundType
<1>3. Reflects(d.applied, HeadOf(d))
  BY DEF Sound, HeadReflected
<1> HIDE DEF n, r
<1>4. Len(p) = n /\ \A i \in 1..n : p[i] = d.applied[i]
  BY <1>1, <1>2
<1> HIDE DEF p
<1>5. \A i \in 1..n : i \in 1..Len(d.applied)
  BY <1>1, <1>2
<1>6. \A i \in 1..Len(p) : On(p[i], r)
  <2>1. ASSUME NEW i \in 1..n
        PROVE  On(d.applied[i], r)
    <3>1. On(d.applied[i], HeadOf(d))
      BY <1>3, <1>5 DEF Reflects, OnlyChain
    <3>2. Height(d.applied[i]) <= Height(r)
      BY <1>1, <1>5
    <3> QED BY <1>1, <1>2, <1>5, <3>1, <3>2, AncestorLinear
  <2> QED BY <1>4, <2>1
<1>7. Ascending(p)
  BY <1>3, <1>4, <1>5 DEF Ascending, Reflects, OnlyChain
<1>8. ASSUME NEW b \in Relevant, On(b, r)
      PROVE  \E i \in 1..Len(p) : p[i] = b
  <2>1. b \in Ref
    BY RelevantAssumption DEF Ref
  <2>2. On(b, HeadOf(d))
    BY <1>1, <1>8, <2>1, AncestorTransitive
  <2>3. PICK i \in 1..Len(d.applied) : d.applied[i] = b
    BY <1>3, <2>2 DEF Reflects
  <2>4. Height(d.applied[i]) <= Height(r)
    BY <1>1, <1>8, <2>1, <2>3, AncestorHeight
  <2>5. i \in 1..n
    BY <1>1, <2>4
  <2> QED BY <1>4, <2>3, <2>5
<1>9. Reflects(p, r)
  BY <1>6, <1>7, <1>8 DEF Reflects, OnlyChain
<1> QED BY <1>9 DEF p, n, r

\* What a rollback leaves.
LEMMA RollbackFields ==
    ASSUME NEW d, Sound(d), NEW k \in Positions(d)
    PROVE  LET r == RollbackTo(d, k)
           IN  /\ r \in DatabaseState
               /\ r.status = d.status
               /\ r.nonce = d.nonce
               /\ r.hot = SubSeq(d.hot, 1, k)
               /\ Len(r.hot) = k
               /\ \A j \in 1..k : r.hot[j] = d.hot[j]
               /\ r.applied = SubSeq(d.applied, 1, MarkAt(d, k))
               /\ Len(r.applied) = Settled(d) + k
               /\ \A i \in 1..Len(r.applied) : r.applied[i] = d.applied[i]
<1> DEFINE r == RollbackTo(d, k)
           n == MarkAt(d, k)
<1>1. d \in DatabaseState
  BY DEF Sound
<1>2. /\ r.status = d.status
      /\ r.nonce = d.nonce
      /\ r.hot = SubSeq(d.hot, 1, k)
      /\ r.applied = SubSeq(d.applied, 1, n)
      /\ r.templates \subseteq d.templates
      /\ r = [status |-> r.status, nonce |-> r.nonce, hot |-> r.hot,
              applied |-> r.applied, templates |-> r.templates]
  <2> DEFINE H == SubSeq(d.hot, 1, k)
             P == SubSeq(d.applied, 1, n)
             T == {t \in d.templates :
                      \A j \in (k + 1)..Len(d.hot) : t.height # Height(d.hot[j].ref)}
  <2>1. r = [d EXCEPT !.hot = H, !.applied = P, !.templates = T]
    BY Zenon DEF RollbackTo
  <2>2. T \subseteq d.templates
    OBVIOUS
  <2> HIDE DEF H, P, T, r, n
  <2>3. /\ r.status = d.status /\ r.nonce = d.nonce
        /\ r.hot = H /\ r.applied = P /\ r.templates = T
        /\ r = [status |-> r.status, nonce |-> r.nonce, hot |-> r.hot,
                applied |-> r.applied, templates |-> r.templates]
    BY <1>1, <2>1 DEF DatabaseState
  <2> QED BY <2>2, <2>3 DEF H, P
<1>3. k \in 0..Len(d.hot) /\ n \in 0..Len(d.applied) /\ n = Settled(d) + k
  BY SoundPositions DEF Positions
<1>4. /\ d.status \in Ref /\ d.nonce \in Nat
      /\ d.hot \in Seq(HotRow) /\ d.applied \in Seq(Block)
      /\ d.templates \in SUBSET Template
  BY SoundType
<1> HIDE DEF n, r
<1>5. /\ r.hot \in Seq(HotRow)
      /\ Len(r.hot) = k
      /\ \A j \in 1..k : r.hot[j] = d.hot[j]
  BY <1>2, <1>3, <1>4
<1>6. /\ r.applied \in Seq(Block)
      /\ Len(r.applied) = n
      /\ \A i \in 1..n : r.applied[i] = d.applied[i]
  BY <1>2, <1>3, <1>4
<1>7. r \in DatabaseState
  <2>1. r.templates \in SUBSET Template
    BY <1>2, <1>4
  <2> QED BY <1>2, <1>4, <1>5, <1>6, <2>1, Zenon DEF DatabaseState
<1>8. /\ Len(r.applied) = Settled(d) + k
      /\ \A i \in 1..Len(r.applied) : r.applied[i] = d.applied[i]
  BY <1>3, <1>6
<1> QED BY <1>2, <1>5, <1>7, <1>8 DEF r, n

\* A rollback leaves a sound state whose head is the reference rolled back to.
LEMMA RollbackSound ==
    ASSUME NEW d, Sound(d), NEW k \in Positions(d)
    PROVE  /\ Sound(RollbackTo(d, k))
           /\ HeadOf(RollbackTo(d, k)) = RefAt(d, k)
           /\ Settled(RollbackTo(d, k)) = Settled(d)
<1> DEFINE r == RollbackTo(d, k)
<1>1. /\ r \in DatabaseState
      /\ r.status = d.status
      /\ Len(r.hot) = k
      /\ \A j \in 1..k : r.hot[j] = d.hot[j]
      /\ r.applied = SubSeq(d.applied, 1, MarkAt(d, k))
      /\ Len(r.applied) = Settled(d) + k
      /\ \A i \in 1..Len(r.applied) : r.applied[i] = d.applied[i]
  BY RollbackFields
<1>2. /\ k \in 0..Len(d.hot) /\ Len(d.hot) \in Nat /\ Len(d.applied) \in Nat
      /\ Settled(d) \in 0..Len(d.applied)
      /\ Len(d.applied) = Settled(d) + Len(d.hot)
  BY SoundType DEF Positions
<1> DEFINE m == Settled(d)
<1> HIDE DEF r, m
<1>10. /\ m \in Nat /\ k \in Nat /\ Len(d.applied) \in Nat
       /\ Len(r.hot) = k /\ Len(r.applied) = m + k
       /\ m + k <= Len(d.applied)
  <2>1. /\ m \in 0..Len(d.applied) /\ Len(d.applied) = m + Len(d.hot)
        /\ Len(d.hot) \in Nat /\ Len(d.applied) \in Nat /\ k \in 0..Len(d.hot)
        /\ Len(r.hot) = k /\ Len(r.applied) = m + k
    BY <1>1, <1>2, Zenon DEF m
  <2> QED BY <2>1
<1>3. Settled(r) = Settled(d)
  <2>1. (m + k) - k = m
    BY <1>10
  <2> QED BY <1>10, <2>1, Zenon DEF Settled, m
<1>4. HeadOf(r) = RefAt(d, k)
  BY <1>1, <1>2, SMTT(40) DEF HeadOf, RefAt
<1>5. RowsAreTail(r)
  <2>1. \A j \in 1..k :
            /\ d.hot[j].ref = d.applied[Settled(d) + j]
            /\ d.hot[j].undo = Settled(d) + j - 1
    BY <1>2 DEF Sound, RowsAreTail
  <2>2. \A j \in 1..k : m + j \in 1..Len(r.applied)
    BY <1>10
  <2>3. Len(r.hot) <= Len(r.applied)
    BY <1>10
  <2> QED BY <1>1, <1>3, <2>1, <2>2, <2>3 DEF RowsAreTail, m
<1>6. SplitAtFinal(r)
  <2>1. \A i \in 1..Len(r.applied) : i \in 1..Len(d.applied)
    BY <1>10
  <2>2. \A i \in 1..Len(d.applied) :
            i <= Settled(d) <=> Height(d.applied[i]) <= Height(d.status)
    BY DEF Sound, SplitAtFinal
  <2> QED BY <1>1, <1>3, <2>1, <2>2 DEF SplitAtFinal
<1>7. Reflects(r.applied, RefAt(d, k))
  BY <1>1, SoundAddressable
<1>8. On(d.status, RefAt(d, k))
  <2>1. RefAt(d, k) \in Ref /\ HeadOf(d) \in Ref /\ d.status \in Ref
    BY SoundType
  <2>2. On(RefAt(d, k), HeadOf(d)) /\ On(d.status, HeadOf(d))
    BY SoundPositions DEF Sound, HeadReflected
  <2>3. CASE k = 0
    BY <2>1, <2>3, AncestorReflexive DEF RefAt
  <2>4. CASE k # 0
    <3>1. RefAt(d, k) = d.applied[Settled(d) + k]
      BY <1>2, <2>4 DEF RefAt, Sound, RowsAreTail
    <3>2. Settled(d) + k \in 1..Len(d.applied) /\ ~(Settled(d) + k <= Settled(d))
      BY <1>2, <2>4
    <3>3. ~(Height(RefAt(d, k)) <= Height(d.status))
      BY <3>1, <3>2 DEF Sound, SplitAtFinal
    <3>4. Height(d.status) <= Height(RefAt(d, k))
      BY <2>1, <3>3, HeightType
    <3> QED BY <2>1, <2>2, <3>4, AncestorLinear
  <2> QED BY <2>3, <2>4
<1>9. Sound(r)
  BY <1>1, <1>4, <1>5, <1>6, <1>7, <1>8 DEF Sound, HeadReflected
<1> QED BY <1>3, <1>4, <1>9 DEF r

------------------------------------------------------------------------------
(***************************************************************************)
(* Batches.                                                                 *)
(***************************************************************************)

\* A batch is empty or a segment of its base.
Batch(base, s) == s = << >> \/ s \in Deliveries(base)

\* Mapping a batch on top of blocks of the chain of h gives blocks of the chain of the
\* batch's last block.
LEMMA BatchOnChain ==
    ASSUME NEW D \in Seq(Block), NEW h \in Ref, OnlyChain(D, h), NEW s, Batch(h, s)
    PROVE  /\ s \in Seq(Block)
           /\ LastOf(h, s) \in Ref
           /\ On(h, LastOf(h, s))
           /\ Ascending(s)
           /\ OnlyChain(D \o s, LastOf(h, s))
           /\ \A i \in 1..Len(s) : On(s[i], LastOf(h, s)) /\ Height(s[i]) > Height(h)
<1> DEFINE t == LastOf(h, s)
           A == D \o s
<1>1. CASE s = << >>
  <2>1. t = h /\ A = D /\ s \in Seq(Block) /\ Len(s) = 0
    BY <1>1 DEF LastOf
  <2>2. Ascending(s)
    BY <2>1 DEF Ascending
  <2> QED BY <2>1, <2>2, AncestorReflexive
<1>2. CASE s # << >>
  <2>1. PICK x \in Segment : x.base = h /\ x.blocks = s
    BY <1>2 DEF Batch, Deliveries
  <2>2. /\ s \in Seq(Block)
        /\ Len(s) > 0
        /\ On(h, Tip(x))
        /\ Ascending(s)
        /\ \A i \in 1..Len(s) : On(s[i], Tip(x)) /\ Height(s[i]) > Height(h)
    BY <2>1, SegmentAssumption
  <2>3. t = Tip(x) /\ t \in Ref
    BY <1>2, <2>1, <2>2 DEF LastOf, Tip, Ref
  <2> HIDE DEF t, A
  <2>4. /\ Len(D) \in Nat /\ Len(s) \in Nat
        /\ A \in Seq(Block)
        /\ Len(A) = Len(D) + Len(s)
        /\ \A i \in 1..Len(D) : A[i] = D[i]
        /\ \A i \in (Len(D) + 1)..Len(A) :
               A[i] = s[i - Len(D)] /\ i - Len(D) \in 1..Len(s)
    BY <2>2 DEF A
  <2>5. \A i \in 1..Len(A) : i \in 1..Len(D) \/ i \in (Len(D) + 1)..Len(A)
    BY <2>4
  <2>6. \A i \in 1..Len(D) :
            D[i] \in Ref /\ On(D[i], h) /\ Height(D[i]) <= Height(h)
    BY AncestorHeight DEF OnlyChain, Ref
  <2>7. \A i \in 1..Len(s) : s[i] \in Ref /\ Height(s[i]) \in Int
    BY <2>2, HeightType DEF Ref
  <2>8. \A i \in 1..Len(A) : On(A[i], t)
    <3>1. \A i \in 1..Len(D) : On(D[i], t)
      BY <2>2, <2>3, <2>6, AncestorTransitive
    <3> QED BY <2>2, <2>3, <2>4, <2>5, <3>1
  <2>9. Ascending(A)
    <3>1. SUFFICES ASSUME NEW i \in 1..Len(A), NEW j \in 1..Len(A), i < j
                   PROVE  Height(A[i]) < Height(A[j])
      BY DEF Ascending
    <3>2. CASE j \in 1..Len(D)
      <4>1. i \in 1..Len(D)
        BY <2>4, <3>1, <3>2
      <4>2. Height(D[i]) < Height(D[j])
        BY <3>1, <3>2, <4>1 DEF OnlyChain, Ascending
      <4> QED BY <2>4, <3>2, <4>1, <4>2
    <3>3. CASE j \in (Len(D) + 1)..Len(A) /\ i \in 1..Len(D)
      <4>1. Height(D[i]) <= Height(h) /\ Height(D[i]) \in Int
        BY <2>6, <3>3, HeightType
      <4>2. Height(A[j]) > Height(h) /\ Height(A[j]) \in Int
        BY <2>2, <2>4, <2>7, <3>3
      <4>3. Height(h) \in Int
        BY HeightType
      <4> QED BY <2>4, <3>3, <4>1, <4>2, <4>3
    <3>4. CASE j \in (Len(D) + 1)..Len(A) /\ i \in (Len(D) + 1)..Len(A)
      <4>1. i - Len(D) < j - Len(D)
        BY <2>4, <3>1, <3>4
      <4> QED BY <2>2, <2>4, <3>4, <4>1 DEF Ascending
    <3> QED BY <2>5, <3>2, <3>3, <3>4
  <2> QED BY <2>2, <2>3, <2>8, <2>9 DEF OnlyChain, A, t
<1> QED BY <1>1, <1>2

\* Mapping a batch on top of a sound state's head gives a record of the chain of
\* the batch's last block.
LEMMA BatchReflects ==
    ASSUME NEW d, Sound(d), NEW s, Batch(HeadOf(d), s)
    PROVE  /\ s \in Seq(Block)
           /\ LastOf(HeadOf(d), s) \in Ref
           /\ On(HeadOf(d), LastOf(HeadOf(d), s))
           /\ Ascending(s)
           /\ Reflects(d.applied \o s, LastOf(HeadOf(d), s))
           /\ \A i \in 1..Len(s) : Height(s[i]) > Height(HeadOf(d))
<1> DEFINE h == HeadOf(d)
           t == LastOf(h, s)
           A == d.applied \o s
<1>1. h \in Ref /\ d.applied \in Seq(Block) /\ Reflects(d.applied, h)
  BY SoundType DEF Sound, HeadReflected
<1>2. /\ s \in Seq(Block) /\ t \in Ref /\ On(h, t) /\ Ascending(s)
      /\ OnlyChain(A, t)
      /\ \A i \in 1..Len(s) : Height(s[i]) > Height(h)
  BY <1>1, BatchOnChain DEF Reflects
<1> HIDE DEF h
<1>3. ASSUME NEW b \in Relevant, On(b, t)
      PROVE  \E i \in 1..Len(A) : A[i] = b
  <2>1. b \in Ref /\ Height(b) \in Int /\ Height(h) \in Int
    BY <1>1, RelevantAssumption, HeightType DEF Ref
  <2>2. /\ Len(d.applied) \in Nat /\ Len(s) \in Nat
        /\ Len(A) = Len(d.applied) + Len(s)
        /\ \A i \in 1..Len(d.applied) : A[i] = d.applied[i]
        /\ \A i \in 1..Len(s) : A[Len(d.applied) + i] = s[i]
    BY <1>1, <1>2, ConcatPieces
  <2>3. CASE Height(b) > Height(h)
    <3>1. s # << >>
      <4>1. CASE s = << >>
        BY <1>1, <1>3, <2>1, <2>3, <4>1, AncestorHeight DEF LastOf
      <4> QED BY <4>1
    <3>2. PICK x \in Segment : x.base = h /\ x.blocks = s
      BY <3>1 DEF Batch, Deliveries, h
    <3>3. t = Tip(x)
      BY <3>1, <3>2 DEF LastOf, Tip
    <3>4. PICK i \in 1..Len(s) : s[i] = b
      BY <1>3, <2>3, <3>2, <3>3, SegmentAssumption
    <3>5. Len(d.applied) + i \in 1..Len(A)
      BY <2>2, <3>4
    <3> QED BY <2>2, <3>4, <3>5
  <2>4. CASE ~(Height(b) > Height(h))
    <3>1. On(b, h)
      BY <1>1, <1>2, <1>3, <2>1, <2>4, AncestorLinear
    <3>2. PICK i \in 1..Len(d.applied) : d.applied[i] = b
      BY <1>1, <3>1 DEF Reflects
    <3>3. i \in 1..Len(A)
      BY <2>2, <3>2
    <3> QED BY <2>2, <3>2, <3>3
  <2> QED BY <2>3, <2>4
<1> QED BY <1>2, <1>3 DEF Reflects, h

\* Where the finalized height f cuts the blocks A that are mapped once the batch
\* s is, and that the rows left in hot_block are those of the blocks above it.
LEMMA CutAtFinal ==
    ASSUME Ungrouped, NEW d, Sound(d), NEW s, Batch(HeadOf(d), s), NEW f \in Int,
           Height(d.status) <= f
    PROVE  LET A    == d.applied \o s
               rows == d.hot \o HotRows(s, CountUpTo(s, f), Len(d.applied))
               left == DeleteHotBlocks(rows, f)
           IN  /\ left \in Seq(HotRow)
               /\ \E q \in 0..Len(A) :
                      /\ Len(left) = Len(A) - q
                      /\ \A j \in 1..Len(left) :
                             left[j].ref = A[q + j] /\ left[j].undo = q + j - 1
                      /\ \A i \in 1..Len(A) : i <= q <=> Height(A[i]) <= f
<1> DEFINE A == d.applied \o s
           u == CountUpTo(s, f)
           n == Len(d.applied)
           R == HotRows(s, u, n)
           rows == d.hot \o R
           c == CountUpTo(Refs(rows), f)
           left == DeleteHotBlocks(rows, f)
           H == Len(d.hot)
           L == Len(s)
           m == Settled(d)
<1>1. /\ d.hot \in Seq(HotRow) /\ d.applied \in Seq(Block)
      /\ H \in Nat /\ n \in Nat /\ m \in Nat /\ n = m + H /\ d.status \in Ref
      /\ s \in Seq(Block) /\ L \in Nat /\ Len(s) < 2 * GroupDivisor
  <2>1. s \in Seq(Block)
    BY BatchReflects
  <2>2. Len(s) < 2 * GroupDivisor
    <3>1. CASE s = << >>
      BY <3>1, DatabaseAssumption
    <3>2. CASE s # << >>
      BY <3>2 DEF Batch, Deliveries, Ungrouped
    <3> QED BY <3>1, <3>2
  <2>3. n = m + H /\ m \in 0..n
    BY SoundType, Zenon
  <2> HIDE DEF m
  <2> QED BY <2>1, <2>2, <2>3, SoundType
<1>2. /\ u \in 0..L
      /\ \A i \in 1..u : Height(s[i]) <= f
      /\ u < L => Height(s[u + 1]) > f
  BY <1>1, CountUpToWorks
<1> HIDE DEF m
<1>3. /\ R \in Seq(HotRow) /\ Len(R) = L - u
      /\ \A j \in 1..(L - u) : R[j] = [ref |-> s[u + j], undo |-> n + u + j - 1]
  BY <1>1, <1>2, UngroupedRows
<1> HIDE DEF u, R
<1>4. /\ rows \in Seq(HotRow) /\ Len(rows) = H + (L - u)
      /\ \A j \in 1..H : rows[j] = d.hot[j]
      /\ \A j \in 1..(L - u) : rows[H + j] = R[j]
  BY <1>1, <1>3, ConcatPieces
<1> HIDE DEF rows
<1>5. /\ c \in 0..Len(rows)
      /\ \A i \in 1..c : Height(rows[i].ref) <= f
      /\ c < Len(rows) => Height(rows[c + 1].ref) > f
  <2>1. Refs(rows) \in Seq(Block) /\ Len(Refs(rows)) = Len(rows)
    BY <1>4, RefsType
  <2>2. \A i \in 1..Len(rows) : Refs(rows)[i] = rows[i].ref
    BY <1>4, RefsType
  <2>3. /\ c \in 0..Len(rows)
        /\ \A i \in 1..c : Height(Refs(rows)[i]) <= f
        /\ c < Len(rows) => Height(Refs(rows)[c + 1]) > f
    BY <2>1, CountUpToWorks
  <2>4. /\ \A i \in 1..c : i \in 1..Len(rows)
        /\ c < Len(rows) => c + 1 \in 1..Len(rows)
    BY <1>4, <2>3
  <2> QED BY <2>2, <2>3, <2>4
<1>6. /\ left \in Seq(HotRow) /\ Len(left) = Len(rows) - c
      /\ \A j \in 1..Len(left) : left[j] = rows[c + j] /\ c + j \in 1..Len(rows)
  <2>1. left = SubSeq(rows, c + 1, Len(rows))
    BY DEF DeleteHotBlocks
  <2> HIDE DEF left, c
  <2> QED BY <1>4, <1>5, <2>1, SMTT(40)
<1> HIDE DEF left, c
<1>7. /\ A \in Seq(Block) /\ Len(A) = n + L
      /\ \A i \in 1..n : A[i] = d.applied[i]
      /\ \A i \in 1..L : A[n + i] = s[i]
  <2>1. d.applied \in Seq(Block) /\ s \in Seq(Block)
    BY <1>1
  <2>2. \A a, b \in Seq(Block) :
            /\ a \o b \in Seq(Block)
            /\ Len(a \o b) = Len(a) + Len(b)
            /\ \A i \in 1..Len(a) : (a \o b)[i] = a[i]
            /\ \A j \in 1..Len(b) : (a \o b)[Len(a) + j] = b[j]
    BY ConcatPieces
  <2> QED BY <2>1, <2>2, Zenon
<1>8. /\ Ascending(A)
      /\ \A i \in 1..Len(A) : Height(A[i]) \in Int
  <2>1. Ascending(A)
    BY BatchReflects DEF Reflects, OnlyChain
  <2>2. \A i \in 1..Len(A) : A[i] \in Ref
    BY <1>7 DEF Ref
  <2> QED BY <2>1, <2>2, HeightType
<1>9. \A i \in 1..m : Height(d.applied[i]) <= Height(d.status)
  BY <1>1 DEF Sound, SplitAtFinal, m
<1>10. \A j \in 1..H : d.hot[j].ref = d.applied[m + j] /\ d.hot[j].undo = m + j - 1
  BY DEF Sound, RowsAreTail, m
<1> HIDE DEF A, n, H, L
\* The three facts of the conclusion from a cut that separates the heights.
<1>11. ASSUME NEW q \in 0..Len(A),
              q > 0 => Height(A[q]) <= f,
              q < Len(A) => Height(A[q + 1]) > f
       PROVE  \A i \in 1..Len(A) : i <= q <=> Height(A[i]) <= f
  <2>1. SUFFICES ASSUME NEW i \in 1..Len(A)
                 PROVE  i <= q <=> Height(A[i]) <= f
    OBVIOUS
  <2>2. Len(A) \in Nat /\ Height(A[i]) \in Int
    BY <1>7, <1>8
  <2>3. CASE i <= q
    <3>1. q \in 1..Len(A) /\ q > 0 /\ Height(A[q]) \in Int
      BY <1>8, <2>2, <2>3
    <3>2. i < q => Height(A[i]) < Height(A[q])
      BY <1>8, <3>1 DEF Ascending
    <3>3. i = q \/ i < q
      BY <2>3, <3>1
    <3> QED BY <1>11, <2>2, <2>3, <3>1, <3>2, <3>3
  <2>4. CASE ~(i <= q)
    <3>1. q + 1 \in 1..Len(A) /\ q < Len(A) /\ Height(A[q + 1]) \in Int
      BY <1>8, <2>2, <2>4
    <3>2. q + 1 < i => Height(A[q + 1]) < Height(A[i])
      BY <1>8, <3>1 DEF Ascending
    <3>3. i = q + 1 \/ q + 1 < i
      BY <2>4, <3>1
    <3> QED BY <1>11, <2>2, <2>4, <3>1, <3>2, <3>3
  <2> QED BY <2>3, <2>4
<1>12. CASE u = 0
  <2>1. \A j \in 1..Len(rows) : /\ rows[j].ref = A[m + j]
                                /\ rows[j].undo = m + j - 1
    <3>1. \A j \in 1..H : rows[j].ref = A[m + j] /\ rows[j].undo = m + j - 1
      <4>1. \A j \in 1..H : m + j \in 1..n
        BY <1>1
      <4> QED BY <1>4, <1>7, <1>10, <4>1
    <3>2. ASSUME NEW j \in 1..L
          PROVE  rows[H + j].ref = A[m + (H + j)] /\ rows[H + j].undo = m + (H + j) - 1
      <4>1. rows[H + j] = [ref |-> s[j], undo |-> n + j - 1]
        <5>1. j \in 1..(L - u) /\ u + j = j /\ n + u + j - 1 = n + j - 1
          BY <1>1, <1>12
        <5> QED BY <1>3, <1>4, <5>1
      <4>2. A[n + j] = s[j] /\ n + j = m + (H + j) /\ n + j - 1 = m + (H + j) - 1
        BY <1>1, <1>7
      <4> QED BY <4>1, <4>2
    <3>3. \A j \in 1..Len(rows) :
              j \in 1..H \/ (j - H \in 1..L /\ H + (j - H) = j)
      BY <1>1, <1>4, <1>12
    <3> QED BY <3>1, <3>2, <3>3
  <2> DEFINE q == m + c
  <2>2. /\ q \in 0..Len(A) /\ Len(A) = m + Len(rows) /\ Len(left) = Len(A) - q
        /\ Len(rows) \in Nat /\ c \in Nat /\ c <= Len(rows)
    BY <1>1, <1>4, <1>5, <1>6, <1>7, <1>12
  <2>3. \A j \in 1..Len(left) : left[j].ref = A[q + j] /\ left[j].undo = q + j - 1
    <3>1. \A j \in 1..Len(left) : m + (c + j) = q + j /\ m + (c + j) - 1 = q + j - 1
      BY <1>1, <2>2
    <3> QED BY <1>6, <2>1, <3>1, SMTT(40)
  <2>4. q > 0 => Height(A[q]) <= f
    <3>1. CASE c > 0
      <4>1. c \in 1..c /\ c \in 1..Len(rows)
        BY <2>2, <3>1
      <4> QED BY <1>5, <2>1, <4>1
    <3>2. CASE c = 0 /\ m > 0
      <4>1. q = m /\ m \in 1..m /\ m \in 1..n
        BY <1>1, <3>2
      <4>2. Height(A[m]) <= Height(d.status) /\ m \in 1..Len(A)
        BY <1>1, <1>7, <1>9, <4>1
      <4>3. Height(d.status) \in Int /\ Height(A[m]) \in Int
        BY <1>1, <1>8, <4>2, HeightType
      <4> QED BY <4>1, <4>2, <4>3
    <3> QED BY <1>1, <2>2, <3>1, <3>2
  <2>5. q < Len(A) => Height(A[q + 1]) > f
    <3>1. q < Len(A) => c < Len(rows) /\ c + 1 \in 1..Len(rows) /\ m + (c + 1) = q + 1
      BY <1>1, <2>2
    <3> QED BY <1>5, <2>1, <3>1
  <2>6. \A i \in 1..Len(A) : i <= q <=> Height(A[i]) <= f
    <3> HIDE DEF q
    <3> QED BY <1>11, <2>2, <2>4, <2>5
  <2> QED BY <1>6, <2>2, <2>3, <2>6 DEF A, left, rows, R, u, n
<1>13. CASE u # 0
  <2>1. u \in 1..L /\ 1 \in 1..u /\ 1 \in 1..L /\ n + 1 \in 1..Len(A)
    BY <1>1, <1>2, <1>7, <1>13
  <2>2. Height(A[n + 1]) <= f /\ Height(A[n + 1]) \in Int
    BY <1>2, <1>7, <1>8, <2>1
  <2>3. ASSUME NEW j \in 1..H
        PROVE  Height(rows[j].ref) <= f /\ Height(rows[j].ref) \in Int
    <3>1. m + j \in 1..n /\ m + j \in 1..Len(A) /\ m + j < n + 1
      BY <1>1, <1>7
    <3>2. rows[j].ref = A[m + j]
      BY <1>4, <1>7, <1>10, <3>1
    <3>3. Height(A[m + j]) < Height(A[n + 1]) /\ Height(A[m + j]) \in Int
      BY <1>8, <2>1, <3>1 DEF Ascending
    <3> QED BY <2>2, <3>2, <3>3
  <2>4. ~(c < H)
    <3>1. c < H => c + 1 \in 1..H /\ c < Len(rows)
      BY <1>1, <1>2, <1>4, <1>5
    <3> QED BY <1>5, <2>3, <3>1
  <2>5. ~(c > H)
    <3>1. SUFFICES ASSUME c > H PROVE FALSE
      OBVIOUS
    <3>2. /\ H + 1 \in 1..c /\ u < L /\ 1 \in 1..(L - u) /\ u + 1 \in 1..L
      BY <1>1, <1>2, <1>4, <1>5, <3>1
    <3>3. rows[H + 1].ref = s[u + 1]
      BY <1>3, <1>4, <3>2
    <3>4. Height(s[u + 1]) \in Int
      BY <1>1, <3>2, HeightType DEF Ref, L
    <3> QED BY <1>2, <1>5, <3>2, <3>3, <3>4
  <2>6. c = H /\ c \in Nat
    BY <1>1, <1>4, <1>5, <2>4, <2>5
  <2> DEFINE q == n + u
  <2>7. q \in 0..Len(A) /\ Len(left) = Len(A) - q /\ Len(left) = L - u
    BY <1>1, <1>2, <1>4, <1>6, <1>7, <2>6
  <2>8. ASSUME NEW j \in 1..Len(left)
        PROVE  left[j].ref = A[q + j] /\ left[j].undo = q + j - 1
    <3>1. left[j] = R[j] /\ j \in 1..(L - u)
      BY <1>4, <1>6, <2>6, <2>7
    <3>2. R[j] = [ref |-> s[u + j], undo |-> n + u + j - 1]
      BY <1>3, <3>1
    <3>3. u + j \in 1..L /\ n + (u + j) = q + j /\ n + u + j - 1 = q + j - 1
      BY <1>1, <1>2, <3>1
    <3> QED BY <1>7, <3>1, <3>2, <3>3
  <2>9. q > 0 => Height(A[q]) <= f
    BY <1>2, <1>7, <1>13, <2>1
  <2>10. q < Len(A) => Height(A[q + 1]) > f
    <3>1. q < Len(A) => u < L /\ u + 1 \in 1..L /\ n + (u + 1) = q + 1
      BY <1>1, <1>2, <1>7
    <3> QED BY <1>2, <1>7, <3>1
  <2>11. \A i \in 1..Len(A) : i <= q <=> Height(A[i]) <= f
    <3> HIDE DEF q
    <3> QED BY <1>11, <2>7, <2>9, <2>10
  <2> QED BY <1>6, <2>7, <2>8, <2>11 DEF A, left, rows, R, u, n
<1> QED BY <1>12, <1>13

\* The last block of a batch is the last one mapped, unless nothing above the
\* finalized head is.
LEMMA LastMapped ==
    ASSUME NEW d, Sound(d), NEW s, Batch(HeadOf(d), s)
    PROVE  LET A == d.applied \o s
               t == LastOf(HeadOf(d), s)
           IN  \/ Len(A) > 0 /\ t = A[Len(A)]
               \/ s = << >> /\ Len(d.hot) = 0 /\ t = d.status
<1> DEFINE A == d.applied \o s
           t == LastOf(HeadOf(d), s)
<1>1. s \in Seq(Block) /\ d.applied \in Seq(Block)
  BY BatchReflects, SoundType
<1>2. CASE s # << >>
  <2>1. Len(s) \in Nat /\ Len(s) > 0 /\ Len(d.applied) \in Nat
    BY <1>1, <1>2
  <2>2. Len(A) = Len(d.applied) + Len(s) /\ A[Len(d.applied) + Len(s)] = s[Len(s)]
    BY <1>1, <2>1, ConcatPieces
  <2> QED BY <1>2, <2>1, <2>2 DEF LastOf
<1>3. CASE s = << >> /\ Len(d.hot) = 0
  BY <1>3 DEF LastOf, HeadOf, RefAt
<1>4. CASE s = << >> /\ Len(d.hot) # 0
  <2>1. A = d.applied /\ t = HeadOf(d)
    BY <1>1, <1>4 DEF LastOf
  <2>2. /\ Len(d.hot) \in 1..Len(d.hot)
        /\ Settled(d) + Len(d.hot) = Len(d.applied) /\ Len(d.applied) > 0
    <3> DEFINE m == Settled(d)
    <3>1. /\ Len(d.hot) \in Nat /\ Len(d.applied) \in Nat /\ m \in 0..Len(d.applied)
          /\ Len(d.applied) = m + Len(d.hot)
      BY SoundType, Zenon
    <3> HIDE DEF m
    <3>2. /\ Len(d.hot) \in 1..Len(d.hot)
          /\ m + Len(d.hot) = Len(d.applied) /\ Len(d.applied) > 0
      BY <1>4, <3>1
    <3> QED BY <3>2 DEF m
  <2>3. HeadOf(d) = d.hot[Len(d.hot)].ref
    BY <1>4 DEF HeadOf, RefAt
  <2>4. d.hot[Len(d.hot)].ref = d.applied[Settled(d) + Len(d.hot)]
    BY <2>2 DEF Sound, RowsAreTail
  <2> QED BY <2>1, <2>2, <2>3, <2>4
<1> QED BY <1>2, <1>3, <1>4

\* The registry rows of a batch.
LEMMA TemplateRowsType ==
    ASSUME Ungrouped, NEW s \in Seq(Block), NEW u \in 0..Len(s), NEW f \in Int,
           Len(s) < 2 * GroupDivisor
    PROVE  TemplateRows(s, u, f) \in SUBSET Template
<1>1. SUFFICES ASSUME NEW i \in 1..Len(s)
               PROVE  [block |-> s[i],
                       height |-> IF i <= u THEN f ELSE Height(s[GroupEnd(s, u, i)])]
                          \in Template
  BY DEF TemplateRows
<1>2. s[i] \in Block /\ s[i] \in Ref
  BY DEF Ref
<1>3. CASE i <= u
  BY <1>2, <1>3 DEF Template
<1>4. CASE ~(i <= u)
  <2>1. i \in (u + 1)..Len(s)
    BY <1>4
  <2>2. GroupEnd(s, u, i) = i
    BY <2>1, 0 \in Nat, UngroupedRows
  <2>3. Height(s[i]) \in Int
    BY <1>2, HeightType
  <2> QED BY <1>2, <1>4, <2>2, <2>3 DEF Template
<1> QED BY <1>3, <1>4

\* Mapping a batch on top of the head of a sound state and finalizing a block of
\* the resulting chain leaves a sound state.
LEMMA ExtendSound ==
    ASSUME Ungrouped, NEW d, Sound(d), NEW s, Batch(HeadOf(d), s),
           NEW fin \in Ref, On(fin, LastOf(HeadOf(d), s)),
           Height(d.status) <= Height(fin),
           NEW nonce \in Nat, NEW templates \in SUBSET Template
    PROVE  Sound([ status    |-> fin,
                   nonce     |-> nonce,
                   hot       |-> DeleteHotBlocks(
                                   d.hot \o HotRows(s, CountUpTo(s, Height(fin)),
                                                    Len(d.applied)),
                                   Height(fin)),
                   applied   |-> d.applied \o s,
                   templates |-> templates ])
<1> DEFINE A == d.applied \o s
           left == DeleteHotBlocks(
                       d.hot \o HotRows(s, CountUpTo(s, Height(fin)), Len(d.applied)),
                       Height(fin))
           t == LastOf(HeadOf(d), s)
           e == [status |-> fin, nonce |-> nonce, hot |-> left, applied |-> A,
                 templates |-> templates]
<1>1. Height(fin) \in Int
  BY HeightType
<1>2. left \in Seq(HotRow)
  BY <1>1, CutAtFinal
<1>3. PICK q \in 0..Len(A) :
          /\ Len(left) = Len(A) - q
          /\ \A j \in 1..Len(left) : left[j].ref = A[q + j] /\ left[j].undo = q + j - 1
          /\ \A i \in 1..Len(A) : i <= q <=> Height(A[i]) <= Height(fin)
  BY <1>1, CutAtFinal
<1>4. /\ A \in Seq(Block) /\ Len(A) \in Nat /\ t \in Ref /\ Reflects(A, t)
  <2>1. s \in Seq(Block) /\ d.applied \in Seq(Block)
    BY BatchReflects, SoundType
  <2>2. A \in Seq(Block)
    BY <2>1, ConcatPieces
  <2> QED BY <2>2, BatchReflects
<1>5. \/ Len(A) > 0 /\ t = A[Len(A)]
      \/ s = << >> /\ Len(d.hot) = 0 /\ t = d.status
  BY LastMapped
<1>6. On(fin, t)
  OBVIOUS
<1> HIDE DEF A, left, t
<1>7. e \in DatabaseState
  BY <1>2, <1>4 DEF DatabaseState
<1>8. e.hot = left /\ e.applied = A /\ e.status = fin
  OBVIOUS
<1> HIDE DEF e
<1>9. Settled(e) = q
  BY <1>3, <1>4, <1>8 DEF Settled
<1>10. RowsAreTail(e)
  <2>1. Len(left) <= Len(A)
    BY <1>3, <1>4
  <2> QED BY <1>3, <1>8, <1>9, <2>1, Zenon DEF RowsAreTail
<1>11. SplitAtFinal(e)
  BY <1>3, <1>8, <1>9, Zenon DEF SplitAtFinal
<1>12. HeadOf(e) = t
  <2>1. CASE Len(left) > 0
    <3>1. Len(left) \in 1..Len(left) /\ q + Len(left) = Len(A) /\ Len(left) # 0
      BY <1>3, <1>4, <2>1
    <3>2. HeadOf(e) = A[Len(A)] /\ q < Len(A) /\ Len(A) \in 1..Len(A)
      <4>1. q < Len(A) /\ Len(A) \in 1..Len(A)
        BY <1>4, <2>1, <3>1
      <4>2. left[Len(left)].ref = A[Len(A)]
        BY <1>3, <3>1
      <4>3. HeadOf(e) = left[Len(left)].ref
        BY <1>8, <3>1, Zenon DEF HeadOf, RefAt
      <4> QED BY <4>1, <4>2, <4>3
    <3>3. CASE t = A[Len(A)]
      BY <3>2, <3>3
    <3>4. CASE s = << >> /\ Len(d.hot) = 0 /\ t = d.status
      \* Then nothing lies above the finalized head, so no row can be left.
      <4>1. A = d.applied
        BY <3>4, SoundType DEF A
      <4>2. Settled(d) = Len(A)
        <5>1. Len(d.applied) - 0 = Len(d.applied)
          BY <1>4, <4>1
        <5> QED BY <3>4, <4>1, <5>1, Zenon DEF Settled
      <4>3. Height(A[Len(A)]) <= Height(d.status)
        BY <3>2, <4>1, <4>2 DEF Sound, SplitAtFinal
      <4>4. ~(Height(A[Len(A)]) <= Height(fin))
        BY <1>3, <1>4, <3>2
      <4>5. /\ Height(A[Len(A)]) \in Int /\ Height(d.status) \in Int
        <5>1. A[Len(A)] \in Ref /\ d.status \in Ref
          BY <1>4, <3>2, SoundType DEF Ref
        <5> QED BY <5>1, HeightType
      <4> QED BY <1>1, <4>3, <4>4, <4>5
    <3> QED BY <1>5, <3>3, <3>4
  <2>2. CASE ~(Len(left) > 0)
    <3>1. Len(left) = 0 /\ q = Len(A)
      BY <1>3, <1>4, <2>2
    <3>2. HeadOf(e) = fin
      BY <1>8, <3>1 DEF HeadOf, RefAt
    <3>3. Height(fin) <= Height(t) /\ Height(t) \in Int
      BY <1>4, <1>6, AncestorHeight, HeightType
    <3>4. Height(t) <= Height(fin)
      <4>1. CASE Len(A) > 0 /\ t = A[Len(A)]
        <5>1. Len(A) \in 1..Len(A) /\ Len(A) <= q
          BY <1>4, <3>1, <4>1
        <5> QED BY <1>3, <4>1, <5>1
      <4>2. CASE t = d.status
        BY <4>2
      <4> QED BY <1>5, <4>1, <4>2
    <3>5. fin = t
      BY <1>1, <1>4, <1>6, <3>3, <3>4, AncestorUnique, AncestorReflexive
    <3> QED BY <3>2, <3>5
  <2> QED BY <2>1, <2>2
<1>13. HeadReflected(e)
  BY <1>4, <1>6, <1>8, <1>12 DEF HeadReflected
<1>14. Sound(e)
  BY <1>7, <1>10, <1>11, <1>13 DEF Sound
<1> QED BY <1>14 DEF e, A, left

------------------------------------------------------------------------------
(***************************************************************************)
(* The steps of the specification.                                          *)
(***************************************************************************)

\* The search for a base head finds its row.
LEMMA BasePosWorks ==
    ASSUME NEW d, Len(d.hot) \in Nat, NEW base, IsBase(d, base)
    PROVE  /\ BasePos(d, base) \in Positions(d)
           /\ RefAt(d, BasePos(d, base)) = base
<1> DEFINE P == {x \in Positions(d) : RefAt(d, x) = base}
<1>1. Positions(d) \subseteq Nat
  BY DEF Positions
<1>2. P # {} /\ P \subseteq Nat
  BY <1>1 DEF IsBase
<1>3. PICK x \in P : \A y \in P : x <= y
  <2> HIDE DEF P
  <2> QED BY <1>2, LeastNatural
<1>4. \A j \in 0..(x - 1) : j \notin P
  BY <1>1, <1>3
<1>5. \A j \in 0..(x - 1) : j \in Positions(d)
  BY <1>1, <1>3 DEF Positions
<1>6. RefAt(d, x) = base /\ \A j \in 0..(x - 1) : RefAt(d, j) # base
  BY <1>3, <1>4, <1>5
<1> QED BY <1>3, <1>6 DEF BasePos

\* Opening a hot transaction: the base it is rolled back to, the batch, and the
\* finalized head that takes effect.
LEMMA HotSetup ==
    ASSUME NEW d, Sound(d), NEW base \in Ref, NEW s, Batch(base, s), NEW fin \in Ref,
           IsBase(d, base), On(fin, LastOf(base, s))
    PROVE  LET k == BasePos(d, base)
               r == RollbackTo(d, k)
               e == EffectiveFinalizedHead(d, fin)
           IN  /\ k \in Positions(d)
               /\ Sound(r)
               /\ HeadOf(r) = base
               /\ r.status = d.status
               /\ e \in Ref
               /\ On(e, LastOf(base, s))
               /\ Height(d.status) <= Height(e)
<1> DEFINE k == BasePos(d, base)
           r == RollbackTo(d, k)
           e == EffectiveFinalizedHead(d, fin)
<1>1. k \in Positions(d) /\ RefAt(d, k) = base
  BY SoundType, BasePosWorks
<1> HIDE DEF k
<1>2. Sound(r) /\ HeadOf(r) = base /\ r.status = d.status
  BY <1>1, RollbackSound, RollbackFields
<1>3. d.status \in Ref /\ Height(d.status) \in Int /\ Height(fin) \in Int
  BY SoundType, HeightType
<1>4. e \in Ref /\ Height(d.status) <= Height(e)
  BY <1>3 DEF EffectiveFinalizedHead
<1>5. On(e, LastOf(base, s))
  <2>1. On(d.status, base)
    BY <1>2 DEF Sound, HeadReflected
  <2>2. On(base, LastOf(base, s)) /\ LastOf(base, s) \in Ref
    BY <1>2, BatchReflects
  <2>3. On(d.status, LastOf(base, s))
    BY <1>3, <2>1, <2>2, AncestorTransitive
  <2> QED BY <2>3 DEF EffectiveFinalizedHead
<1> QED BY <1>1, <1>2, <1>4, <1>5 DEF k

\* A batch without groups is short, and its blocks are blocks.
LEMMA BatchLength ==
    ASSUME Ungrouped, NEW d, Sound(d), NEW s, Batch(HeadOf(d), s)
    PROVE  s \in Seq(Block) /\ Len(s) \in Nat /\ Len(s) < 2 * GroupDivisor
<1>1. s \in Seq(Block)
  BY BatchReflects
<1>2. Len(s) < 2 * GroupDivisor
  <2>1. CASE s = << >>
    BY <2>1, DatabaseAssumption
  <2>2. CASE s # << >>
    BY <2>2 DEF Batch, Deliveries, Ungrouped
  <2> QED BY <2>1, <2>2
<1> QED BY <1>1, <1>2

LEMMA TransactHot2Sound ==
    ASSUME Ungrouped, NEW d, Sound(d), NEW base \in Ref, NEW s, Batch(base, s),
           NEW fin \in Ref, IsBase(d, base), On(fin, LastOf(base, s))
    PROVE  Sound(TransactHot2(d, [finalizedHead |-> fin, baseHead |-> base,
                                  newBlocks |-> s]))
<1> DEFINE info == [finalizedHead |-> fin, baseHead |-> base, newBlocks |-> s]
           k == BasePos(d, base)
           r == RollbackTo(d, k)
           e == EffectiveFinalizedHead(d, fin)
           u == CountUpTo(s, Height(e))
           T == r.templates \cup TemplateRows(s, u, Height(e))
<1>1. /\ k \in Positions(d) /\ Sound(r) /\ HeadOf(r) = base /\ r.status = d.status
      /\ e \in Ref /\ On(e, LastOf(base, s)) /\ Height(d.status) <= Height(e)
  BY HotSetup
<1>2. d.nonce + 1 \in Nat
  BY SoundType
<1>3. TransactHot2(d, info) =
          [ status    |-> e,
            nonce     |-> d.nonce + 1,
            hot       |-> DeleteHotBlocks(r.hot \o HotRows(s, u, Len(r.applied)),
                                          Height(e)),
            applied   |-> r.applied \o s,
            templates |-> T ]
  BY DEF TransactHot2
<1> HIDE DEF k, r, e
<1>4. T \in SUBSET Template
  <2>1. s \in Seq(Block) /\ Len(s) < 2 * GroupDivisor
    BY <1>1, BatchLength
  <2>2. Height(e) \in Int
    BY <1>1, HeightType
  <2>3. u \in 0..Len(s)
    BY <2>1, <2>2, CountUpToWorks
  <2>4. TemplateRows(s, u, Height(e)) \in SUBSET Template
    BY <2>1, <2>2, <2>3, TemplateRowsType
  <2>5. r.templates \in SUBSET Template
    BY <1>1, SoundType
  <2> QED BY <2>4, <2>5
<1> HIDE DEF T
<1> QED BY <1>1, <1>2, <1>3, <1>4, ExtendSound

LEMMA TransactSound ==
    ASSUME Ungrouped, NEW d, Sound(d), NEW base \in Ref, NEW s \in Deliveries(base),
           d.status = base
    PROVE  Sound(Transact(d, [prevHead |-> base, nextHead |-> LastOf(base, s),
                              newBlocks |-> s]))
<1> DEFINE t == LastOf(base, s)
           info == [prevHead |-> base, nextHead |-> t, newBlocks |-> s]
           r == RollbackTo(d, 0)
           A == r.applied \o s
           T == r.templates \cup TemplateRows(s, Len(s), Height(t))
           e == [status |-> t, nonce |-> d.nonce + 1, hot |-> << >>,
                 applied |-> A, templates |-> T]
<1>1. 0 \in Positions(d) /\ RefAt(d, 0) = base
  BY SoundType DEF Positions, RefAt
<1>2. Sound(r) /\ HeadOf(r) = base
  BY <1>1, RollbackSound
<1>3. Transact(d, info) = e
  BY DEF Transact
<1>4. d.nonce + 1 \in Nat
  BY SoundType
<1>5. Batch(HeadOf(r), s)
  BY <1>2 DEF Batch
<1> HIDE DEF r
<1>6. s \in Seq(Block) /\ Len(s) \in Nat /\ Len(s) < 2 * GroupDivisor
  BY <1>2, <1>5, BatchLength
<1>7. t \in Ref /\ Reflects(A, t) /\ Height(t) \in Int
  BY <1>2, <1>5, BatchReflects, HeightType
<1>8. A \in Seq(Block) /\ Len(A) \in Nat
  <2>1. r.applied \in Seq(Block)
    BY <1>2, SoundType
  <2>2. A \in Seq(Block)
    BY <1>6, <2>1, ConcatPieces
  <2> QED BY <2>2
<1>9. T \in SUBSET Template
  <2>1. Len(s) \in 0..Len(s)
    BY <1>6
  <2>2. TemplateRows(s, Len(s), Height(t)) \in SUBSET Template
    BY <1>6, <1>7, <2>1, TemplateRowsType
  <2> QED BY <1>2, <2>2, SoundType
<1> HIDE DEF A, T, t
<1>10. e \in DatabaseState
  <2>1. << >> \in Seq(HotRow)
    OBVIOUS
  <2> QED BY <1>4, <1>7, <1>8, <1>9, <2>1 DEF DatabaseState
<1>11. /\ e.hot = << >> /\ e.applied = A /\ e.status = t /\ Len(e.hot) = 0
  OBVIOUS
<1> HIDE DEF e
<1>12. Settled(e) = Len(A)
  BY <1>8, <1>11 DEF Settled
<1>13. RowsAreTail(e)
  BY <1>8, <1>11 DEF RowsAreTail
<1>14. SplitAtFinal(e)
  <2>1. \A i \in 1..Len(A) : A[i] \in Ref /\ On(A[i], t)
    BY <1>7, <1>8 DEF Reflects, OnlyChain, Ref
  <2>2. \A i \in 1..Len(A) : Height(A[i]) <= Height(t) /\ i <= Len(A)
    BY <1>7, <1>8, <2>1, AncestorHeight
  <2> QED BY <1>11, <1>12, <2>2 DEF SplitAtFinal
<1>15. HeadReflected(e)
  <2>1. HeadOf(e) = t
    BY <1>11 DEF HeadOf, RefAt
  <2> QED BY <1>7, <1>11, <2>1, AncestorReflexive DEF HeadReflected
<1>16. Sound(e)
  BY <1>10, <1>13, <1>14, <1>15 DEF Sound
<1> QED BY <1>3, <1>16 DEF t

LEMMA RepairSound ==
    ASSUME NEW d, Sound(d)
    PROVE  /\ Sound(RepairOrphans(d))
           /\ RepairOrphans(d).status = d.status
           /\ RepairOrphans(d).applied = d.applied
<1> DEFINE T == {t \in d.templates :
                    \/ t.height <= Height(d.status)
                    \/ \E j \in 1..Len(d.hot) : t.height = Height(d.hot[j].ref)}
           e == RepairOrphans(d)
<1>1. e = [d EXCEPT !.templates = T]
  BY Zenon DEF RepairOrphans
<1>2. T \subseteq d.templates
  OBVIOUS
<1> HIDE DEF T, e
<1>3. d \in DatabaseState
  BY DEF Sound
<1>4. /\ e.status = d.status /\ e.hot = d.hot /\ e.applied = d.applied
      /\ e \in DatabaseState
  BY <1>1, <1>2, <1>3 DEF DatabaseState
<1>5. /\ Settled(e) = Settled(d) /\ HeadOf(e) = HeadOf(d)
  BY <1>4, Zenon DEF Settled, HeadOf, RefAt
<1>6. RowsAreTail(e) /\ SplitAtFinal(e) /\ HeadReflected(e)
  <2>1. RowsAreTail(d) /\ SplitAtFinal(d) /\ HeadReflected(d)
    BY DEF Sound
  <2> QED BY <1>4, <1>5, <2>1, Zenon DEF RowsAreTail, SplitAtFinal, HeadReflected
<1> QED BY <1>4, <1>6 DEF Sound, e

LEMMA InitSound == Init => IndInv
<1> SUFFICES ASSUME Init PROVE Sound(db)
  BY DEF IndInv
<1>1. /\ db.status = Origin /\ db.hot = << >> /\ db.applied = << >>
      /\ Len(db.hot) = 0 /\ Len(db.applied) = 0
  BY DEF Init, EmptyDatabase
<1>2. db \in DatabaseState
  <2>1. Origin \in Ref /\ << >> \in Seq(HotRow) /\ << >> \in Seq(Block)
    BY DEF Ref
  <2> QED BY <2>1 DEF Init, EmptyDatabase, DatabaseState
<1>3. HeadOf(db) = Origin
  BY <1>1 DEF HeadOf, RefAt
<1>4. \A b \in Relevant : ~On(b, Origin)
  <2>1. \A b \in Relevant : b # Origin /\ b \in Ref
    BY RelevantAssumption, TreeAssumption DEF Ref
  <2>2. Len(Path[Origin]) = 0
    BY TreeAssumption
  <2> QED BY <2>1, <2>2, HeightType DEF On
<1>5. HeadReflected(db)
  BY <1>1, <1>3, <1>4 DEF HeadReflected, Reflects, OnlyChain, Ascending, On
<1>6. RowsAreTail(db) /\ SplitAtFinal(db)
  BY <1>1 DEF RowsAreTail, SplitAtFinal
<1> QED BY <1>2, <1>5, <1>6 DEF Sound

LEMMA NextSound ==
    ASSUME Ungrouped
    PROVE  IndInv /\ [Next]_db => IndInv'
<1> SUFFICES ASSUME IndInv, [Next]_db
             PROVE  Sound(db')
  BY DEF IndInv
<1>1. Sound(db)
  BY DEF IndInv
<1>2. CASE Connect
  BY <1>1, <1>2, RepairSound DEF Connect
<1>3. ASSUME NEW base \in Ref, NEW fin \in Ref, NEW s \in Deliveries(base) \cup {<< >>},
             SubmitHot(base, s, fin)
      PROVE  Sound(db')
  <2>1. Batch(base, s)
    BY DEF Batch
  <2>2. IsBase(db, base) /\ On(fin, LastOf(base, s))
    BY <1>3 DEF SubmitHot, TransactHot2Asserts
  <2>3. db' = TransactHot2(db, [finalizedHead |-> fin, baseHead |-> base,
                                newBlocks |-> s])
    BY <1>3 DEF SubmitHot
  <2> QED BY <1>1, <2>1, <2>2, <2>3, TransactHot2Sound
<1>4. ASSUME NEW base \in Ref, NEW s \in Deliveries(base), SubmitFinal(base, s)
      PROVE  Sound(db')
  <2>1. db.status = base
    BY <1>4 DEF SubmitFinal, TransactAsserts
  <2>2. db' = Transact(db, [prevHead |-> base, nextHead |-> LastOf(base, s),
                            newBlocks |-> s])
    BY <1>4 DEF SubmitFinal
  <2> QED BY <1>1, <2>1, <2>2, TransactSound
<1>5. CASE UNCHANGED db
  BY <1>1, <1>5
<1> QED BY <1>2, <1>3, <1>4, <1>5 DEF Next

(***************************************************************************)
(* As long as no batch is large enough to be grouped, every state of the    *)
(* database is sound: one hot row per unfinalized block, whose undo restores *)
(* what was there before it, and tables that tell the chain of the head.     *)
(***************************************************************************)
THEOREM SoundAlways ==
    ASSUME Ungrouped
    PROVE  Spec => []IndInv
<1>1. Init => IndInv
  BY InitSound
<1>2. IndInv /\ [Next]_db => IndInv'
  BY NextSound
<1> QED BY <1>1, <1>2, PTL DEF Spec

(***************************************************************************)
(* transactHot2 may be sent any reference of [status, ...top] as its base:  *)
(* the rollback to it leaves exactly the data of that reference's chain.     *)
(***************************************************************************)
THEOREM AddressableAlways ==
    ASSUME Ungrouped
    PROVE  Spec => []Addressable
<1>1. IndInv => Addressable
  BY SoundAddressable DEF IndInv, Addressable
<1> QED BY <1>1, SoundAlways, PTL

\* A rollback to a position never reaches the settled blocks.
LEMMA RollbackKeepsFinal ==
    ASSUME NEW d, Sound(d), NEW k \in Positions(d), NEW s \in Seq(Block),
           NEW i \in 1..Len(d.applied), Height(d.applied[i]) <= Height(d.status)
    PROVE  LET A == RollbackTo(d, k).applied \o s
           IN  i <= Len(A) /\ A[i] = d.applied[i]
<1> DEFINE m == Settled(d)
           P == RollbackTo(d, k).applied
<1>1. i <= m
  BY DEF Sound, SplitAtFinal
<1>2. /\ Len(P) = m + k /\ \A x \in 1..Len(P) : P[x] = d.applied[x]
      /\ P \in Seq(Block)
  BY RollbackFields, RollbackSound, SoundType
<1>3. m \in 0..Len(d.applied) /\ k \in Nat /\ Len(d.applied) \in Nat
  BY SoundType DEF Positions
<1> HIDE DEF m, P
<1>4. i \in 1..Len(P) /\ Len(s) \in Nat
  BY <1>1, <1>2, <1>3
<1>5. Len(P \o s) = Len(P) + Len(s) /\ (P \o s)[i] = P[i]
  BY <1>2, <1>4, ConcatPieces
<1>6. i <= Len(P \o s)
  BY <1>2, <1>3, <1>4, <1>5
<1> QED BY <1>2, <1>4, <1>5, <1>6 DEF P

(***************************************************************************)
(* No step undoes what has been mapped at or below the finalized head or    *)
(* takes that head off its chain.                                           *)
(***************************************************************************)
LEMMA StepKeepsFinalized ==
    ASSUME Ungrouped, IndInv, [Next]_db
    PROVE  [KeepsFinalized /\ On(db.status, db'.status)]_db
<1> DEFINE Up == On(db.status, db'.status)
<1>1. Sound(db)
  BY DEF IndInv
<1>2. db.status \in Ref /\ Len(db.applied) \in Nat
  BY <1>1, SoundType
<1>3. CASE Connect
  <2>1. db'.status = db.status /\ db'.applied = db.applied
    BY <1>1, <1>3, RepairSound DEF Connect
  <2> QED BY <1>2, <2>1, AncestorReflexive DEF KeepsFinalized
<1>4. ASSUME NEW base \in Ref, NEW fin \in Ref,
             NEW s \in Deliveries(base) \cup {<< >>}, SubmitHot(base, s, fin)
      PROVE  KeepsFinalized /\ Up
  <2> DEFINE k == BasePos(db, base)
             e == EffectiveFinalizedHead(db, fin)
             r == RollbackTo(db, k)
  <2>1. Batch(base, s) /\ IsBase(db, base) /\ On(fin, LastOf(base, s))
    BY <1>4 DEF Batch, SubmitHot, TransactHot2Asserts
  <2>2. /\ k \in Positions(db) /\ Sound(r) /\ HeadOf(r) = base
        /\ e \in Ref /\ On(e, LastOf(base, s)) /\ Height(db.status) <= Height(e)
        /\ r.status = db.status
    BY <1>1, <2>1, HotSetup
  <2>3. db'.status = e /\ db'.applied = r.applied \o s
    BY <1>4 DEF SubmitHot, TransactHot2
  <2> HIDE DEF k, e
  <2>4. s \in Seq(Block)
    BY <2>1, <2>2, BatchReflects
  <2>5. KeepsFinalized
    BY <1>1, <2>2, <2>3, <2>4, RollbackKeepsFinal DEF KeepsFinalized
  <2>6. Up
    <3>1. On(db.status, base)
      BY <2>2 DEF Sound, HeadReflected
    <3>2. On(base, LastOf(base, s)) /\ LastOf(base, s) \in Ref
      BY <2>1, <2>2, BatchReflects
    <3>3. On(db.status, LastOf(base, s))
      BY <1>2, <3>1, <3>2, AncestorTransitive
    <3> QED BY <1>2, <2>2, <2>3, <3>2, <3>3, AncestorLinear
  <2> QED BY <2>5, <2>6
<1>5. ASSUME NEW base \in Ref, NEW s \in Deliveries(base), SubmitFinal(base, s)
      PROVE  KeepsFinalized /\ Up
  <2> DEFINE r == RollbackTo(db, 0)
  <2>1. db.status = base
    BY <1>5 DEF SubmitFinal, TransactAsserts
  <2>2. 0 \in Positions(db) /\ RefAt(db, 0) = base
    BY <1>1, <2>1, SoundType DEF Positions, RefAt
  <2>3. Sound(r) /\ HeadOf(r) = base
    BY <1>1, <2>2, RollbackSound
  <2>4. Batch(base, s)
    BY DEF Batch
  <2>5. db'.status = LastOf(base, s) /\ db'.applied = r.applied \o s
    BY <1>5 DEF SubmitFinal, Transact
  <2> HIDE DEF r
  <2>6. s \in Seq(Block) /\ On(base, LastOf(base, s))
    BY <2>3, <2>4, BatchReflects
  <2>7. KeepsFinalized
    BY <1>1, <2>2, <2>5, <2>6, RollbackKeepsFinal DEF r, KeepsFinalized
  <2> QED BY <2>1, <2>5, <2>6, <2>7
<1>6. CASE UNCHANGED db
  BY <1>6
<1> QED BY <1>3, <1>4, <1>5, <1>6 DEF Next

(***************************************************************************)
(* No fork, no stale finalized head and no change of configuration undoes   *)
(* what has been mapped at or below the finalized head, and that head only  *)
(* moves up its own chain - as long as no batch is grouped.                  *)
(***************************************************************************)
THEOREM FinalizedIsAlwaysPermanent ==
    ASSUME Ungrouped
    PROVE  Spec => FinalizedIsPermanent
<1>1. IndInv /\ [Next]_db => [KeepsFinalized /\ On(db.status, db'.status)]_db
  BY StepKeepsFinalized
<1> QED BY <1>1, SoundAlways, PTL DEF Spec, FinalizedIsPermanent

(***************************************************************************)
(* The state tables and the transactions on them implement the indexed      *)
(* chain: the table of the head's chain is complete after every step.       *)
(***************************************************************************)
THEOREM DatabaseImplementsIndexedChain ==
    ASSUME Ungrouped
    PROVE  Spec => ImplementsIndexedChain
<1> DEFINE abs == << db.status, HeadOf(db), db.applied >>
<1>1. Init => Index!Init
  BY DEF Init, EmptyDatabase, HeadOf, RefAt, Index!Init
<1>2. ASSUME IndInv, IndInv', [Next]_db
      PROVE  [Index!Update]_abs
  <2>1. CASE UNCHANGED db
    BY <2>1
  <2>2. CASE KeepsFinalized /\ On(db.status, db'.status)
    <3>1. Sound(db')
      BY <1>2 DEF IndInv
    <3>2. db'.status \in Ref /\ HeadOf(db') \in Ref
      BY <3>1, SoundType
    <3>3. On(db'.status, HeadOf(db')) /\ Reflects(db'.applied, HeadOf(db'))
      BY <3>1 DEF Sound, HeadReflected
    <3>4. Index!On(db.status, db'.status) /\ Index!On(db'.status, HeadOf(db'))
      BY <2>2, <3>3 DEF On, Index!On
    <3>5. Index!Reflects(db'.applied, HeadOf(db'))
      BY <3>3 DEF Reflects, OnlyChain, Ascending, On, Height,
                  Index!Reflects, Index!OnlyChain, Index!Ascending, Index!On,
                  Index!Height
    <3>6. Index!Permanent
      BY <2>2 DEF KeepsFinalized, Height, Index!Permanent, Index!Height
    <3> QED BY <3>2, <3>4, <3>5, <3>6 DEF Index!Update, Index!Ref, Ref
  <2> QED BY <1>2, <2>1, <2>2, StepKeepsFinalized
<1>3. IndInv /\ IndInv' /\ [Next]_db => [Index!Update]_abs
  BY <1>2
<1> QED BY <1>1, <1>3, SoundAlways, PTL DEF Spec, ImplementsIndexedChain, Index!Spec

------------------------------------------------------------------------------
(***************************************************************************)
(* Groups: how the blocks of a batch are shared out among its rows.         *)
(***************************************************************************)
LEMMA DivisionIs ==
    ASSUME NEW a \in Nat, NEW g \in Nat \ {0}
    PROVE  /\ a \div g \in Nat
           /\ g * (a \div g) <= a
           /\ a < g * (a \div g) + g
<1>1. a \div g \in Nat
  BY SMT
<1>2. g * (a \div g) <= a
  BY SMT
<1>3. a < g * (a \div g) + g
  BY SMT
<1> QED BY <1>1, <1>2, <1>3

LEMMA MultiplesAreApart ==
    ASSUME NEW a \in Int, NEW b \in Int, NEW g \in Nat \ {0}, a < b
    PROVE  g * a + g <= g * b /\ g * a \in Int /\ g * b \in Int
<1>1. b - a - 1 \in Nat
  BY SMT
<1>2. g * (b - a - 1) >= 0
  BY <1>1, SMT
<1>3. g * (b - a - 1) = g * b - g * a - g
  BY <1>1, SMT
<1> QED BY <1>2, <1>3, SMT

\* The number of groups of size g that x blocks make.
Groups(x, g) == (x + g - 1) \div g

LEMMA GroupsAre ==
    ASSUME NEW x \in Nat, NEW g \in Nat \ {0}
    PROVE  /\ Groups(x, g) \in Nat
           /\ x <= g * Groups(x, g)
           /\ g * Groups(x, g) < x + g
           /\ x > 0 => Groups(x, g) > 0
<1>1. x + g - 1 \in Nat
  OBVIOUS
<1> DEFINE c == Groups(x, g)
           p == g * c
<1>2. c \in Nat /\ p <= x + g - 1 /\ x + g - 1 < p + g
  BY <1>1, DivisionIs DEF Groups
<1>3. p \in Int /\ (c = 0 => p = 0)
  BY <1>2
<1> HIDE DEF p, c
<1>4. c \in Nat /\ x <= p /\ p < x + g /\ (x > 0 => c > 0)
  BY <1>2, <1>3
<1> QED BY <1>4 DEF p, c

LEMMA GroupSizeIs ==
    ASSUME NEW n \in Nat
    PROVE  GroupSize(n) \in Nat \ {0}
<1>1. n \div GroupDivisor \in Nat
  BY DatabaseAssumption, DivisionIs
<1> QED BY <1>1 DEF GroupSize

\* How the rows R share out the blocks of s above the u-th, n blocks being mapped before s:
\* e[j] is the last block of the j-th group, so that the groups follow each other without
\* gaps, and GroupEnd finds the group of a block.
SharedOut(s, u, n, R, e) ==
    /\ e[0] = u /\ e[Len(R)] = Len(s)
    /\ \A j, k \in 0..Len(R) : j < k => e[j] < e[k]
    /\ \A j \in 1..Len(R) : R[j] = [ref |-> s[e[j]], undo |-> n + e[j - 1]]
    /\ \A i \in (u + 1)..Len(s) :
           \E j \in 1..Len(R) : e[j - 1] < i /\ i <= e[j] /\ GroupEnd(s, u, i) = e[j]

\* The rows of a batch share out its blocks above the finalized ones.
LEMMA GroupRows ==
    ASSUME NEW s \in Seq(Block), NEW u \in 0..Len(s), NEW n \in Nat,
           NEW R, R = HotRows(s, u, n)
    PROVE  /\ R \in Seq(HotRow)
           /\ \E e \in [0..Len(R) -> u..Len(s)] : SharedOut(s, u, n, R, e)
<1> DEFINE g == GroupSize(Len(s) - u)
           L == Len(s)
           m == L - u
           K == Groups(m, g)
           Last(j) == IF u + g * j < L THEN u + g * j ELSE L
           e == [j \in 0..K |-> Last(j)]
<1>1. L \in Nat /\ u \in Nat /\ u <= L /\ m \in Nat
  OBVIOUS
<1>2. g \in Nat \ {0}
  BY <1>1, GroupSizeIs
<1> HIDE DEF g
<1>3. K \in Nat /\ m <= g * K /\ g * K < m + g
  BY <1>1, <1>2, GroupsAre
<1> HIDE DEF K
<1>4. ASSUME NEW j \in 0..K
      PROVE  g * j \in Nat
  BY <1>2, <1>3, <1>4
<1>5. ASSUME NEW j \in 0..K, j < K
      PROVE  u + g * j < L /\ Last(j) = u + g * j
  <2>1. g * j + g <= g * K /\ g * j \in Nat /\ g * K \in Nat
    BY <1>2, <1>3, <1>4, <1>5, MultiplesAreApart
  <2>2. u + g * j < L
    BY <1>1, <1>2, <1>3, <2>1
  <2> QED BY <2>2
<1>6. Last(K) = L
  <2>1. g * K \in Nat
    BY <1>3, <1>4
  <2> QED BY <1>1, <1>3, <2>1
<1>7. \A j \in 0..K : Last(j) \in u..L /\ Last(j) <= u + g * j
  <2> TAKE j \in 0..K
  <2>1. g * j \in Nat
    BY <1>4
  <2> QED BY <1>1, <2>1
<1>8. Last(0) = u
  <2>1. g * 0 = 0
    BY <1>2
  <2> QED BY <1>1, <2>1
<1>9. ASSUME NEW j \in 0..K, NEW k \in 0..K, j < k
      PROVE  Last(j) < Last(k)
  <2>1. g * j + g <= g * k /\ g * j \in Nat /\ g * k \in Nat
    BY <1>2, <1>3, <1>4, <1>9, MultiplesAreApart
  <2>2. u + g * j < L /\ Last(j) = u + g * j
    BY <1>3, <1>5, <1>9
  <2> QED BY <1>1, <1>2, <2>1, <2>2
<1>10. ASSUME NEW j \in 1..K, NEW i \in (u + 1)..L, Last(j - 1) < i, i <= Last(j)
       PROVE  GroupEnd(s, u, i) = Last(j)
  <2> DEFINE x == i - u
             c == Groups(x, g)
  <2>1. j \in Int /\ j - 1 \in 0..K /\ j - 1 < K /\ j \in 0..K
    BY <1>3
  <2>2. /\ Last(j - 1) = u + g * (j - 1) /\ Last(j) <= u + g * j
        /\ g * (j - 1) \in Nat /\ g * j \in Nat
    BY <1>4, <1>5, <1>7, <2>1
  <2>3. x \in Nat /\ g * (j - 1) < x /\ x <= g * j
    <3> DEFINE low == g * (j - 1)
               high == g * j
    <3>1. low \in Nat /\ high \in Nat /\ u + low < i /\ Last(j) <= u + high /\ Last(j) \in u..L
          /\ i <= Last(j)
      BY <1>7, <1>10, <2>1, <2>2
    <3> HIDE DEF low, high, Last
    <3>2. x \in Nat /\ low < x /\ x <= high
      BY <1>1, <3>1
    <3> QED BY <3>2 DEF low, high
  <2>4. c \in Nat /\ x <= g * c /\ g * c < x + g
    BY <1>2, <2>3, GroupsAre
  <2> HIDE DEF x, c
  <2>5. ~(c < j)
    <3>1. SUFFICES ASSUME c < j
                   PROVE  FALSE
      OBVIOUS
    <3>2. g * c <= g * (j - 1)
      <4>1. CASE c = j - 1
        BY <2>2, <4>1
      <4>2. CASE c < j - 1
        <5>1. g * c + g <= g * (j - 1) /\ g * c \in Int /\ g * (j - 1) \in Int
          BY <1>2, <2>1, <2>4, <4>2, MultiplesAreApart
        <5> QED BY <1>2, <5>1
      <4> QED BY <2>1, <2>4, <3>1, <4>1, <4>2
    <3>3. g * c \in Nat
      BY <1>2, <2>4
    <3> QED BY <2>2, <2>3, <2>4, <3>2, <3>3
  <2>6. ~(j < c)
    <3>1. SUFFICES ASSUME j < c
                   PROVE  FALSE
      OBVIOUS
    <3>2. g * j + g <= g * c /\ g * c \in Int
      BY <1>2, <2>1, <2>4, <3>1, MultiplesAreApart
    <3> QED BY <1>2, <2>2, <2>3, <2>4, <3>2
  <2>7. c = j
    BY <2>1, <2>4, <2>5, <2>6
  <2> QED BY <2>7 DEF GroupEnd, Groups, c, x, g
<1>11. ASSUME NEW i \in (u + 1)..L
       PROVE  \E j \in 1..K : Last(j - 1) < i /\ i <= Last(j)
  <2> DEFINE x == i - u
             c == Groups(x, g)
  <2>1. x \in Nat /\ x > 0 /\ x <= m
    BY <1>1
  <2>2. c \in Nat /\ x <= g * c /\ g * c < x + g /\ c > 0
    BY <1>2, <2>1, GroupsAre
  <2> HIDE DEF c
  <2>3. g * c \in Nat /\ g * K \in Nat
    BY <1>2, <1>3, <2>2
  <2>4. c <= K
    <3>1. SUFFICES ASSUME K < c
                   PROVE  FALSE
      BY <1>3, <2>2
    <3>2. g * K + g <= g * c
      BY <1>2, <1>3, <2>2, <3>1, MultiplesAreApart
    <3> QED BY <1>1, <1>2, <1>3, <2>1, <2>2, <2>3, <3>2
  <2>5. c \in 1..K /\ c - 1 \in 0..K /\ c - 1 < K /\ c \in 0..K
    BY <1>3, <2>2, <2>4
  <2>6. g * (c - 1) + g <= g * c /\ g * (c - 1) \in Int
    BY <1>2, <2>2, MultiplesAreApart
  <2>7. Last(c - 1) = u + g * (c - 1)
    BY <1>5, <2>5
  <2>8. Last(c - 1) < i
    BY <1>1, <1>2, <2>1, <2>2, <2>3, <2>6, <2>7
  <2>9. i <= Last(c)
    BY <1>1, <2>1, <2>2, <2>3
  <2> QED BY <2>5, <2>8, <2>9
<1>12. /\ R = [j \in 1..K |-> [ref |-> s[GroupEnd(s, u, u + (j - 1) * g + 1)],
                               undo |-> n + u + (j - 1) * g]]
       /\ Len(R) = K
  <2>1. R = [j \in 1..K |-> [ref |-> s[GroupEnd(s, u, u + (j - 1) * g + 1)],
                               undo |-> n + u + (j - 1) * g]]
    BY DEF HotRows, K, Groups, g
  <2> QED BY <1>3, <2>1
<1>13. ASSUME NEW j \in 1..K
       PROVE  R[j] = [ref |-> s[Last(j)], undo |-> n + Last(j - 1)]
  <2>1. j \in Int /\ j - 1 \in 0..K /\ j - 1 < K /\ j \in 0..K /\ j - 1 < j
    BY <1>3
  <2>2. /\ Last(j - 1) = u + g * (j - 1) /\ Last(j - 1) < Last(j)
        /\ Last(j) \in u..L /\ g * (j - 1) \in Nat
    BY <1>4, <1>5, <1>7, <1>9, <2>1
  <2>3. (j - 1) * g = g * (j - 1)
    BY <1>2, <2>1
  <2> DEFINE i == u + (j - 1) * g + 1
  <2>4. i = Last(j - 1) + 1 /\ n + u + (j - 1) * g = n + Last(j - 1)
    BY <1>1, <2>2, <2>3
  <2>5. i \in (u + 1)..L /\ Last(j - 1) < i /\ i <= Last(j)
    <3> HIDE DEF i, Last
    <3>1. Last(j - 1) \in Int /\ Last(j - 1) >= u
      BY <1>1, <2>2
    <3> QED BY <1>1, <2>2, <2>4, <3>1
  <2>6. GroupEnd(s, u, i) = Last(j)
    BY <1>10, <2>5
  <2> HIDE DEF Last
  <2> QED BY <1>12, <2>4, <2>6
<1>14. R \in Seq(HotRow)
  <2>1. ASSUME NEW j \in 1..K
        PROVE  [ref |-> s[Last(j)], undo |-> n + Last(j - 1)] \in HotRow
    <3>1. j - 1 \in 0..K /\ j \in 0..K /\ j - 1 < j
      BY <1>3
    <3>2. Last(j) \in u..L /\ Last(j - 1) \in u..L /\ Last(j - 1) < Last(j)
      BY <1>7, <1>9, <3>1
    <3> HIDE DEF Last
    <3>3. Last(j) \in 1..L /\ n + Last(j - 1) \in Nat
      BY <1>1, <3>2
    <3>4. s[Last(j)] \in Block
      BY <3>3
    <3> QED BY <3>3, <3>4 DEF HotRow
  <2> HIDE DEF Last
  <2>2. \A j \in 1..K : R[j] \in HotRow
    BY <1>13, <2>1
  <2>3. R \in [1..K -> HotRow]
    BY <1>12, <2>2
  <2> QED BY <1>3, <2>3
<1>15. e \in [0..Len(R) -> u..Len(s)] /\ \A j \in 0..K : e[j] = Last(j)
  <2> HIDE DEF Last
  <2> QED BY <1>7, <1>12
<1>16. \A j \in 1..K : j \in 0..K /\ j - 1 \in 0..K
  BY <1>3
<1>17. 0 \in 0..K /\ K \in 0..K
  BY <1>3
<1> HIDE DEF e, Last
<1>18. SharedOut(s, u, n, R, e)
  <2>1. e[0] = u /\ e[K] = L /\ \A j, k \in 0..K : j < k => e[j] < e[k]
    BY <1>6, <1>8, <1>9, <1>15, <1>17
  <2>2. \A j \in 1..K : R[j] = [ref |-> s[e[j]], undo |-> n + e[j - 1]]
    BY <1>13, <1>15, <1>16
  <2>3. ASSUME NEW i \in (u + 1)..L
        PROVE  \E j \in 1..K : e[j - 1] < i /\ i <= e[j] /\ GroupEnd(s, u, i) = e[j]
    BY <1>10, <1>11, <1>15, <1>16
  <2> QED BY <1>12, <2>1, <2>2, <2>3 DEF SharedOut
<1> QED BY <1>12, <1>14, <1>15, <1>18

------------------------------------------------------------------------------
(***************************************************************************)
(* Groups: the tables.                                                      *)
(***************************************************************************)
LEMMA GroupsType ==
    ASSUME NEW d, NEW head, GroupsFit(d, head)
    PROVE  /\ d.status \in Ref /\ d.nonce \in Nat /\ head \in Ref
           /\ d.hot \in Seq(HotRow) /\ Len(d.hot) \in Nat
           /\ d.applied \in Seq(Block) /\ Len(d.applied) \in Nat
           /\ d.templates \in SUBSET Template
           /\ \A t \in d.templates : t.block \in Block /\ t.height \in Int
           /\ Height(d.status) \in Int /\ Height(head) \in Int
           /\ \A j \in 1..Len(d.hot) :
                  /\ d.hot[j].ref \in Ref /\ d.hot[j].ref \in Block /\ d.hot[j].undo \in Nat
                  /\ Height(d.hot[j].ref) \in Int
           /\ \A i \in 1..Len(d.applied) :
                  /\ d.applied[i] \in Ref /\ Height(d.applied[i]) \in Int
                  /\ On(d.applied[i], head)
           /\ \A i, j \in 1..Len(d.applied) : d.applied[i] = d.applied[j] => i = j
           /\ \A k \in Positions(d) : MarkAt(d, k) \in 0..Len(d.applied)
<1>1. /\ d \in DatabaseState /\ head \in Ref
      /\ OnlyChain(d.applied, head) /\ RowsClimb(d, head)
  BY DEF GroupsFit
<1>2. /\ d.status \in Ref /\ d.nonce \in Nat /\ d.hot \in Seq(HotRow)
      /\ d.applied \in Seq(Block) /\ d.templates \in SUBSET Template
  BY <1>1 DEF DatabaseState
<1>3. \A j \in 1..Len(d.hot) : d.hot[j].ref \in Block /\ d.hot[j].undo \in Nat
  <2>1. \A j \in 1..Len(d.hot) : d.hot[j] \in HotRow
    BY <1>2
  <2> QED BY <2>1 DEF HotRow
<1>4. \A i \in 1..Len(d.applied) : d.applied[i] \in Block
  BY <1>2
<1>5. \A b \in Block : b \in Ref /\ Height(b) \in Int
  BY HeightType DEF Ref
<1>6. \A i, j \in 1..Len(d.applied) : d.applied[i] = d.applied[j] => i = j
  <2>1. \A i, j \in 1..Len(d.applied) : i < j => Height(d.applied[i]) < Height(d.applied[j])
    BY <1>1 DEF OnlyChain, Ascending
  <2> QED BY <1>2, <1>4, <1>5, <2>1
<1>7. \A k \in Positions(d) : MarkAt(d, k) \in 0..Len(d.applied)
  <2>1. \A j \in 1..Len(d.hot) : d.hot[j].undo <= Len(d.applied)
    BY <1>1 DEF RowsClimb
  <2>2. ASSUME NEW k \in 0..Len(d.hot), k < Len(d.hot)
        PROVE  d.hot[k + 1].undo \in 0..Len(d.applied)
    <3>1. k + 1 \in 1..Len(d.hot)
      BY <1>2, <2>2
    <3> QED BY <1>2, <1>3, <2>1, <3>1
  <2> QED BY <1>2, <2>2 DEF MarkAt, Positions
<1>8. \A t \in d.templates : t.block \in Block /\ t.height \in Int
  BY <1>2 DEF Template
<1>9. Height(d.status) \in Int /\ Height(head) \in Int
  BY <1>1, <1>2, HeightType
<1> QED BY <1>1, <1>2, <1>3, <1>4, <1>5, <1>6, <1>7, <1>8, <1>9 DEF OnlyChain

\* The mark of a row is where the next one begins; marks do not go down.
LEMMA MarksClimb ==
    ASSUME NEW d, NEW head, GroupsFit(d, head)
    PROVE  /\ \A j, k \in 1..Len(d.hot) : j < k => MarkAt(d, j) <= d.hot[k].undo
           /\ \A j, k \in Positions(d) : j <= k => MarkAt(d, j) <= MarkAt(d, k)
<1>1. /\ Len(d.hot) \in Nat /\ Len(d.applied) \in Nat
      /\ \A j \in 1..Len(d.hot) : d.hot[j].undo \in Nat /\ d.hot[j].undo <= Len(d.applied)
      /\ \A j, k \in 1..Len(d.hot) : j < k => d.hot[j].undo <= d.hot[k].undo
  BY GroupsType DEF GroupsFit, RowsClimb
<1>2. ASSUME NEW j \in 1..Len(d.hot), NEW k \in 1..Len(d.hot), j < k
      PROVE  MarkAt(d, j) <= d.hot[k].undo
  <2>1. j < Len(d.hot) /\ j + 1 \in 1..Len(d.hot) /\ (j + 1 = k \/ j + 1 < k)
    BY <1>1, <1>2
  <2> QED BY <1>1, <2>1 DEF MarkAt
<1>3. ASSUME NEW j \in 0..Len(d.hot), NEW k \in 0..Len(d.hot), j < k
      PROVE  MarkAt(d, j) <= MarkAt(d, k)
  <2>1. j < Len(d.hot) /\ j + 1 \in 1..Len(d.hot) /\ MarkAt(d, j) = d.hot[j + 1].undo
    BY <1>1, <1>3 DEF MarkAt
  <2>2. CASE k < Len(d.hot)
    <3>1. k + 1 \in 1..Len(d.hot) /\ MarkAt(d, k) = d.hot[k + 1].undo /\ j + 1 < k + 1
      BY <1>1, <1>3, <2>2 DEF MarkAt
    <3> QED BY <1>1, <2>1, <3>1
  <2>3. CASE ~(k < Len(d.hot))
    BY <1>1, <2>1, <2>3 DEF MarkAt
  <2> QED BY <2>2, <2>3
<1>4. \A k \in Positions(d) : MarkAt(d, k) <= MarkAt(d, k)
  BY GroupsType
<1> QED BY <1>1, <1>2, <1>3, <1>4 DEF Positions

\* The removal of the finalized rows makes the tables sound.
LEMMA GroupsPruned ==
    ASSUME NEW d, NEW head, GroupsFit(d, head),
           NEW p, p = [d EXCEPT !.hot = DeleteHotBlocks(d.hot, Height(d.status))]
    PROVE  GroupsSound(p) /\ HeadOf(p) = head
<1> DEFINE c == CountUpTo(Refs(d.hot), Height(d.status))
           n == Len(d.hot)
           left == SubSeq(d.hot, c + 1, n)
<1>1. /\ d \in DatabaseState /\ On(d.status, head)
      /\ head = d.status \/ (n > 0 /\ head = d.hot[n].ref)
      /\ OnlyChain(d.applied, head) /\ RegistryFits(d)
  BY DEF GroupsFit
<1>2. /\ \A j \in 1..n :
           /\ On(d.hot[j].ref, head)
           /\ d.hot[j].undo <= Len(d.applied)
           /\ \A i \in 1..d.hot[j].undo :
                  \/ Height(d.applied[i]) <= Height(d.status)
                  \/ j > 1 /\ Height(d.applied[i]) <= Height(d.hot[j - 1].ref)
      /\ \A j, k \in 1..n :
           j < k => /\ Height(d.hot[j].ref) < Height(d.hot[k].ref)
                    /\ d.hot[j].undo <= d.hot[k].undo
  BY DEF GroupsFit, RowsClimb
<1>3. /\ d.status \in Ref /\ head \in Ref /\ d.hot \in Seq(HotRow) /\ n \in Nat
      /\ d.applied \in Seq(Block) /\ Len(d.applied) \in Nat
      /\ Height(d.status) \in Int /\ Height(head) \in Int
      /\ \A j \in 1..n : /\ d.hot[j].ref \in Ref /\ d.hot[j].undo \in Nat
                         /\ Height(d.hot[j].ref) \in Int
      /\ \A i \in 1..Len(d.applied) : Height(d.applied[i]) \in Int
  BY GroupsType
<1>4. /\ c \in 0..n
      /\ \A j \in 1..c : Height(d.hot[j].ref) <= Height(d.status)
      /\ c < n => Height(d.hot[c + 1].ref) > Height(d.status)
  <2>1. /\ Refs(d.hot) \in Seq(Block) /\ Len(Refs(d.hot)) = n
        /\ \A i \in 1..n : Refs(d.hot)[i] = d.hot[i].ref
    BY <1>3, RefsType
  <2>2. /\ c \in 0..n
        /\ \A j \in 1..c : Height(Refs(d.hot)[j]) <= Height(d.status)
        /\ c < n => Height(Refs(d.hot)[c + 1]) > Height(d.status)
    BY <1>3, <2>1, CountUpToWorks
  <2> QED BY <1>3, <2>1, <2>2
<1> HIDE DEF c
<1>5. /\ left \in Seq(HotRow) /\ Len(left) = n - c
      /\ \A j \in 1..(n - c) : left[j] = d.hot[c + j]
  <2>1. c \in Nat /\ c <= n /\ n \in Nat
    BY <1>3, <1>4
  <2>2. CASE c = n
    <3>1. left = << >>
      BY <1>3, <2>1, <2>2
    <3> QED BY <2>1, <2>2, <3>1
  <2>3. CASE c # n
    <3>1. c + 1 \in 1..n /\ n \in (c + 1)..n /\ n - c \in Nat
      BY <2>1, <2>3
    <3>2. ASSUME NEW S, NEW a \in Seq(S), Len(a) = n
          PROVE  LET v == SubSeq(a, c + 1, n)
                 IN  /\ v \in Seq(S) /\ Len(v) = n - c
                     /\ \A j \in 1..(n - c) : v[j] = a[c + j]
      BY <2>1, <3>1, <3>2
    <3> QED BY <1>3, <3>2
  <2> QED BY <2>2, <2>3
<1>6. p = [d EXCEPT !.hot = left]
  BY DEF DeleteHotBlocks, c, Refs
<1> HIDE DEF left
<1>7. /\ p \in DatabaseState
      /\ p.status = d.status /\ p.applied = d.applied /\ p.templates = d.templates
      /\ p.hot = left /\ Len(p.hot) = n - c
  BY <1>1, <1>5, <1>6 DEF DatabaseState
<1>8. \A j \in 1..(n - c) : c + j \in 1..n /\ p.hot[j] = d.hot[c + j]
  BY <1>3, <1>4, <1>5, <1>7
<1>9. \A j \in 1..(n - c) : Height(p.hot[j].ref) > Height(d.status)
  <2> TAKE j \in 1..(n - c)
  <2>1. c < n /\ c + 1 \in 1..n /\ c + j \in 1..n /\ (j = 1 \/ c + 1 < c + j)
    BY <1>3, <1>4
  <2>2. Height(d.hot[c + 1].ref) > Height(d.status)
    BY <1>4, <2>1
  <2>3. c + j = c + 1 \/ Height(d.hot[c + 1].ref) < Height(d.hot[c + j].ref)
    BY <1>2, <2>1
  <2> QED BY <1>3, <1>8, <2>1, <2>2, <2>3
<1>10. HeadOf(p) = head
  <2>1. CASE n - c > 0
    <3>1. n - c \in 1..(n - c) /\ c + (n - c) = n /\ n \in 1..n
      BY <1>3, <1>4, <2>1
    <3>2. HeadOf(p) = d.hot[n].ref
      BY <1>7, <1>8, <2>1, <3>1 DEF HeadOf, RefAt
    <3>3. Height(d.hot[n].ref) > Height(d.status) /\ Height(d.hot[n].ref) <= Height(head)
      BY <1>2, <1>3, <1>8, <1>9, <3>1, AncestorHeight
    <3>4. head # d.status
      BY <1>3, <3>1, <3>3
    <3> QED BY <1>1, <3>2, <3>4
  <2>2. CASE ~(n - c > 0)
    <3>1. n = c /\ Len(p.hot) = 0
      BY <1>3, <1>4, <1>7, <2>2
    <3>2. HeadOf(p) = d.status
      BY <1>7, <3>1 DEF HeadOf, RefAt
    <3>3. CASE n > 0 /\ head = d.hot[n].ref
      <4>1. Height(head) <= Height(d.status)
        BY <1>3, <1>4, <3>1, <3>3
      <4>2. Height(d.status) <= Height(head)
        BY <1>1, <1>3, AncestorHeight
      <4>3. Height(head) = Height(d.status) /\ On(head, head)
        BY <1>3, <4>1, <4>2, AncestorReflexive
      <4> QED BY <1>1, <1>3, <3>2, <4>3, AncestorUnique
    <3> QED BY <1>1, <3>2, <3>3
  <2> QED BY <2>1, <2>2
<1>11. RowsClimb(p, head)
  <2>1. ASSUME NEW j \in 1..(n - c)
        PROVE  /\ On(p.hot[j].ref, head)
               /\ p.hot[j].undo <= Len(p.applied)
               /\ \A i \in 1..p.hot[j].undo :
                      \/ Height(p.applied[i]) <= Height(p.status)
                      \/ j > 1 /\ Height(p.applied[i]) <= Height(p.hot[j - 1].ref)
    <3>1. On(p.hot[j].ref, head) /\ p.hot[j].undo <= Len(p.applied)
      BY <1>2, <1>7, <1>8
    <3>2. ASSUME NEW i \in 1..p.hot[j].undo, ~(Height(p.applied[i]) <= Height(p.status))
          PROVE  j > 1 /\ Height(p.applied[i]) <= Height(p.hot[j - 1].ref)
      <4>1. c + j \in 1..n /\ p.hot[j] = d.hot[c + j]
        BY <1>8
      <4>2. c + j > 1 /\ Height(d.applied[i]) <= Height(d.hot[(c + j) - 1].ref)
        BY <1>2, <1>7, <3>2, <4>1
      <4>3. i \in 1..Len(d.applied)
        BY <1>2, <1>3, <3>2, <4>1
      <4>4. CASE j = 1
        <5>1. c \in 1..c /\ (c + j) - 1 = c /\ c \in 1..n
          BY <1>3, <1>4, <4>2, <4>4
        <5>2. Height(d.hot[c].ref) <= Height(d.status) /\ Height(d.applied[i]) <= Height(d.hot[c].ref)
          BY <1>4, <4>2, <5>1
        <5> QED BY <1>3, <1>7, <3>2, <4>3, <5>1, <5>2
      <4>5. CASE j # 1
        <5>1. j > 1 /\ j - 1 \in 1..(n - c) /\ c + (j - 1) = (c + j) - 1
          <6>1. c \in Int /\ n \in Int /\ j \in Int /\ 1 <= j /\ j <= n - c
            BY <1>3, <1>4, <2>1
          <6> QED BY <4>5, <6>1
        <5>2. p.hot[j - 1] = d.hot[(c + j) - 1]
          BY <1>8, <5>1
        <5> QED BY <1>7, <4>2, <5>1, <5>2
      <4> QED BY <4>4, <4>5
    <3> QED BY <3>1, <3>2
  <2>2. ASSUME NEW j \in 1..(n - c), NEW k \in 1..(n - c), j < k
        PROVE  /\ Height(p.hot[j].ref) < Height(p.hot[k].ref)
               /\ p.hot[j].undo <= p.hot[k].undo
    <3>1. c + j < c + k
      BY <1>3, <1>4, <2>2
    <3> QED BY <1>2, <1>8, <3>1
  <2> QED BY <1>7, <2>1, <2>2 DEF RowsClimb
<1>12. \A j \in 1..(n - c) : MarkAt(p, j) = MarkAt(d, c + j)
  <2> TAKE j \in 1..(n - c)
  <2>1. CASE j < n - c
    <3>1. c + j < n /\ j + 1 \in 1..(n - c) /\ c + (j + 1) = (c + j) + 1
      BY <1>3, <1>4, <2>1
    <3> QED BY <1>7, <1>8, <2>1, <3>1 DEF MarkAt
  <2>2. CASE ~(j < n - c)
    <3>1. ~(c + j < n)
      BY <1>3, <1>4, <2>2
    <3> QED BY <1>7, <2>2, <3>1 DEF MarkAt
  <2> QED BY <2>1, <2>2
<1>13. ASSUME NEW i \in 1..Len(d.applied), NEW h, FiledRight(d, i, h)
       PROVE  FiledRight(p, i, h)
  <2>1. CASE /\ h <= Height(d.status)
             /\ \A j \in 1..n : d.hot[j].undo < i => Height(d.hot[j].ref) <= Height(d.status)
    BY <1>7, <1>8, <2>1 DEF FiledRight
  <2>2. CASE \E j \in 1..n : RowCovers(d, j, i) /\ h = Height(d.hot[j].ref)
    <3>1. PICK j \in 1..n : RowCovers(d, j, i) /\ h = Height(d.hot[j].ref)
      BY <2>2
    <3>2. CASE j <= c
      <4>1. h <= Height(d.status)
        BY <1>4, <3>1, <3>2
      <4>2. ASSUME NEW k \in 1..(n - c), p.hot[k].undo < i
            PROVE  FALSE
        <5>1. j < c + k /\ c + k \in 1..n /\ p.hot[k] = d.hot[c + k]
          <6>1. n \in Nat /\ c \in 0..n
            BY <1>3, <1>4
          <6> QED BY <1>8, <3>2, <6>1
        <5>2. MarkAt(d, j) <= d.hot[c + k].undo
          BY <5>1, MarksClimb
        <5>3. i <= MarkAt(d, j)
          BY <3>1 DEF RowCovers
        <5>4. MarkAt(d, j) \in Int
          <6>1. j \in Positions(d)
            BY <1>3 DEF Positions
          <6> QED BY <6>1, GroupsType
        <5> QED BY <1>3, <4>2, <5>1, <5>2, <5>3, <5>4
      <4> QED BY <1>7, <4>1, <4>2 DEF FiledRight
    <3>3. CASE ~(j <= c)
      <4>1. j - c \in 1..(n - c) /\ c + (j - c) = j
        BY <1>3, <1>4, <3>3
      <4>2. p.hot[j - c] = d.hot[j] /\ MarkAt(p, j - c) = MarkAt(d, j)
        BY <1>8, <1>12, <4>1
      <4>3. RowCovers(p, j - c, i) /\ h = Height(p.hot[j - c].ref)
        BY <3>1, <4>2 DEF RowCovers
      <4> QED BY <1>7, <4>1, <4>3 DEF FiledRight
    <3> QED BY <3>2, <3>3
  <2> QED BY <1>13, <2>1, <2>2 DEF FiledRight
<1>14. RegistryFits(p)
  BY <1>1, <1>7, <1>13 DEF RegistryFits
<1>15. head = p.status \/ (Len(p.hot) > 0 /\ head = p.hot[Len(p.hot)].ref)
  BY <1>10 DEF HeadOf, RefAt
<1>16. Len(p.hot) = 0 \/ Len(p.hot) > 0
  BY <1>3, <1>4, <1>7
<1> QED BY <1>1, <1>3, <1>7, <1>9, <1>10, <1>11, <1>14, <1>15, <1>16, HeightType
        DEF GroupsSound, GroupsFit, HeadOf, RefAt

\* A rollback takes away the rows above a position with the blocks and templates that are
\* theirs, and nothing else.
LEMMA GroupsRolledBack ==
    ASSUME NEW d, GroupsSound(d), NEW k \in Positions(d), NEW r, r = RollbackTo(d, k)
    PROVE  /\ GroupsSound(r)
           /\ HeadOf(r) = RefAt(d, k)
           /\ r.status = d.status /\ r.nonce = d.nonce
           /\ r.applied = SubSeq(d.applied, 1, MarkAt(d, k))
           /\ On(d.status, RefAt(d, k))
<1> DEFINE n == Len(d.hot)
           m == MarkAt(d, k)
           A == d.applied
           head == HeadOf(d)
           top == RefAt(d, k)
<1>1. /\ GroupsFit(d, head) /\ d \in DatabaseState /\ head \in Ref
      /\ On(d.status, head) /\ OnlyChain(A, head) /\ RegistryFits(d)
      /\ \A j \in 1..n : Height(d.hot[j].ref) > Height(d.status)
  BY DEF GroupsSound, GroupsFit
<1>2. /\ \A j \in 1..n :
           /\ On(d.hot[j].ref, head)
           /\ d.hot[j].undo <= Len(A)
           /\ \A i \in 1..d.hot[j].undo :
                  \/ Height(A[i]) <= Height(d.status)
                  \/ j > 1 /\ Height(A[i]) <= Height(d.hot[j - 1].ref)
      /\ \A i, j \in 1..n :
           i < j => /\ Height(d.hot[i].ref) < Height(d.hot[j].ref)
                    /\ d.hot[i].undo <= d.hot[j].undo
  BY <1>1 DEF GroupsFit, RowsClimb
<1>3. /\ d.status \in Ref /\ d.hot \in Seq(HotRow) /\ n \in Nat
      /\ A \in Seq(Block) /\ Len(A) \in Nat
      /\ Height(d.status) \in Int
      /\ \A j \in 1..n : /\ d.hot[j].ref \in Ref /\ d.hot[j].undo \in Nat
                         /\ Height(d.hot[j].ref) \in Int
      /\ \A i \in 1..Len(A) : A[i] \in Ref /\ Height(A[i]) \in Int /\ On(A[i], head)
      /\ \A i, j \in 1..Len(A) : A[i] = A[j] => i = j
      /\ m \in 0..Len(A)
  BY <1>1, GroupsType
<1>4. k \in 0..n /\ (k > 0 => k \in 1..n)
  BY <1>3 DEF Positions
<1>5. /\ \A i, j \in 1..n : i < j => MarkAt(d, i) <= d.hot[j].undo
      /\ \A j \in 0..n : j <= k => MarkAt(d, j) <= m
      /\ \A j \in 0..n : MarkAt(d, j) \in 0..Len(A)
  BY <1>1, <1>3, MarksClimb, GroupsType DEF Positions
<1>6. /\ k < n => k + 1 \in 1..n /\ m = d.hot[k + 1].undo
      /\ ~(k < n) => m = Len(A) /\ top = head /\ k = n
  BY <1>3, <1>4 DEF MarkAt, HeadOf
<1>7. /\ top \in Ref /\ On(top, head) /\ Height(top) \in Int
      /\ Height(d.status) <= Height(top)
      /\ k = 0 => top = d.status
      /\ k > 0 => top = d.hot[k].ref
  <2>1. CASE k = 0
    BY <1>1, <1>3, <2>1 DEF RefAt
  <2>2. CASE k # 0
    BY <1>1, <1>2, <1>3, <1>4, <2>2 DEF RefAt
  <2> QED BY <2>1, <2>2
<1>8. On(d.status, top)
  BY <1>1, <1>3, <1>7, AncestorLinear
<1> HIDE DEF m, head, top
<1>9. ASSUME NEW i \in 1..m
      PROVE  On(A[i], top)
  <2>1. i \in 1..Len(A)
    BY <1>3
  <2>2. CASE k < n
    <3>1. \/ Height(A[i]) <= Height(d.status)
          \/ k + 1 > 1 /\ Height(A[i]) <= Height(d.hot[(k + 1) - 1].ref)
      BY <1>2, <1>6, <2>2
    <3>2. Height(A[i]) <= Height(top)
      <4>1. (k + 1) - 1 = k /\ k \in Int
        BY <1>4
      <4>2. CASE Height(A[i]) <= Height(d.status)
        BY <1>3, <1>7, <2>1, <4>2
      <4>3. CASE k + 1 > 1 /\ Height(A[i]) <= Height(d.hot[(k + 1) - 1].ref)
        BY <1>7, <4>1, <4>3
      <4> QED BY <3>1, <4>2, <4>3
    <3> QED BY <1>1, <1>3, <1>7, <2>1, <3>2, AncestorLinear
  <2>3. CASE ~(k < n)
    BY <1>3, <1>6, <2>1, <2>3
  <2> QED BY <2>2, <2>3
<1> DEFINE kept == {t \in d.templates : \A j \in (k + 1)..n : t.height # Height(d.hot[j].ref)}
<1>10. r = [d EXCEPT !.hot = SubSeq(d.hot, 1, k), !.applied = SubSeq(A, 1, m),
                     !.templates = kept]
  BY DEF RollbackTo, m
<1>11. /\ SubSeq(d.hot, 1, k) \in Seq(HotRow) /\ Len(SubSeq(d.hot, 1, k)) = k
       /\ \A j \in 1..k : SubSeq(d.hot, 1, k)[j] = d.hot[j]
       /\ SubSeq(A, 1, m) \in Seq(Block) /\ Len(SubSeq(A, 1, m)) = m
       /\ \A i \in 1..m : SubSeq(A, 1, m)[i] = A[i]
  BY <1>3, <1>4
<1>12. kept \subseteq d.templates
  OBVIOUS
<1> HIDE DEF kept
<1>13. /\ r \in DatabaseState
       /\ r.status = d.status /\ r.nonce = d.nonce /\ r.templates = kept
       /\ r.hot = SubSeq(d.hot, 1, k) /\ r.applied = SubSeq(A, 1, m)
  <2>1. d \in DatabaseState
    BY <1>1
  <2> QED BY <1>10, <1>11, <1>12, <2>1 DEF DatabaseState
<1>14. /\ Len(r.hot) = k /\ Len(r.applied) = m
       /\ \A j \in 1..k : j \in 1..n /\ r.hot[j] = d.hot[j]
       /\ \A i \in 1..m : i \in 1..Len(A) /\ r.applied[i] = A[i]
  BY <1>3, <1>4, <1>11, <1>13
<1>15. \A j \in 0..k : MarkAt(r, j) = MarkAt(d, j)
  <2> TAKE j \in 0..k
  <2>1. CASE j < k
    <3>1. j < n /\ j + 1 \in 1..k
      BY <1>3, <1>4, <2>1
    <3> QED BY <1>14, <2>1, <3>1 DEF MarkAt
  <2>2. CASE ~(j < k)
    <3>1. j = k /\ MarkAt(r, j) = Len(r.applied)
      BY <1>4, <1>14, <2>2 DEF MarkAt
    <3> QED BY <1>14, <3>1 DEF m
  <2> QED BY <2>1, <2>2
<1>16. HeadOf(r) = top
  <2>1. CASE k = 0
    BY <1>7, <1>13, <1>14, <2>1 DEF HeadOf, RefAt
  <2>2. CASE k # 0
    <3>1. k \in 1..k /\ k > 0
      BY <1>3, <1>4, <2>2
    <3> QED BY <1>7, <1>14, <3>1 DEF HeadOf, RefAt
  <2> QED BY <2>1, <2>2
<1>17. OnlyChain(r.applied, top)
  <2>1. \A i, j \in 1..m : i < j => Height(A[i]) < Height(A[j])
    BY <1>1, <1>14 DEF OnlyChain, Ascending
  <2> QED BY <1>9, <1>14, <2>1 DEF OnlyChain, Ascending
<1>18. RowsClimb(r, top)
  <2>1. ASSUME NEW j \in 1..k
        PROVE  /\ On(r.hot[j].ref, top)
               /\ r.hot[j].undo <= m
               /\ \A i \in 1..r.hot[j].undo :
                      \/ Height(r.applied[i]) <= Height(r.status)
                      \/ j > 1 /\ Height(r.applied[i]) <= Height(r.hot[j - 1].ref)
    <3>1. j \in 1..n /\ r.hot[j] = d.hot[j] /\ k \in 1..n /\ (j = k \/ j < k)
      BY <1>4, <1>14
    <3>2. On(r.hot[j].ref, top)
      <4>1. Height(d.hot[j].ref) <= Height(d.hot[k].ref)
        <5>1. Height(d.hot[j].ref) \in Int /\ Height(d.hot[k].ref) \in Int
          BY <1>3, <3>1
        <5>2. j < k => Height(d.hot[j].ref) < Height(d.hot[k].ref)
          BY <1>2, <3>1
        <5> QED BY <3>1, <5>1, <5>2
      <4>2. top = d.hot[k].ref
        BY <1>3, <1>7, <3>1
      <4> QED BY <1>1, <1>2, <1>3, <1>7, <3>1, <4>1, <4>2, AncestorLinear
    <3>3. r.hot[j].undo <= m
      <4>1. CASE k < n
        <5>1. j < k + 1 /\ k + 1 \in 1..n
          BY <1>3, <3>1, <4>1
        <5> QED BY <1>2, <1>6, <3>1, <4>1, <5>1
      <4>2. CASE ~(k < n)
        BY <1>2, <1>6, <3>1, <4>2
      <4> QED BY <4>1, <4>2
    <3>4. ASSUME NEW i \in 1..r.hot[j].undo
          PROVE  \/ Height(r.applied[i]) <= Height(r.status)
                 \/ j > 1 /\ Height(r.applied[i]) <= Height(r.hot[j - 1].ref)
      <4>1. \/ Height(A[i]) <= Height(d.status)
            \/ j > 1 /\ Height(A[i]) <= Height(d.hot[j - 1].ref)
        BY <1>2, <3>1, <3>4
      <4>2. i \in 1..m
        BY <1>3, <3>1, <3>3, <3>4
      <4>3. j > 1 => j - 1 \in 1..k
        BY <1>3, <1>4, <3>1
      <4> QED BY <1>13, <1>14, <4>1, <4>2, <4>3
    <3> QED BY <3>2, <3>3, <3>4
  <2>2. \A i, j \in 1..k : i < j => /\ Height(r.hot[i].ref) < Height(r.hot[j].ref)
                                    /\ r.hot[i].undo <= r.hot[j].undo
    BY <1>2, <1>14
  <2> QED BY <1>14, <2>1, <2>2 DEF RowsClimb
<1>19. ASSUME NEW i \in 1..Len(A), NEW h, FiledRight(d, i, h), i <= m, NEW j \in (k + 1)..n
       PROVE  h # Height(d.hot[j].ref)
  <2>1. j \in 1..n /\ k < n /\ k + 1 \in 1..n
    BY <1>3, <1>4
  <2>2. CASE h <= Height(d.status)
    BY <1>1, <1>3, <2>1, <2>2
  <2>3. CASE \E l \in 1..n : RowCovers(d, l, i) /\ h = Height(d.hot[l].ref)
    <3>1. PICK l \in 1..n : RowCovers(d, l, i) /\ h = Height(d.hot[l].ref)
      BY <2>3
    <3>2. d.hot[l].undo < i
      BY <3>1 DEF RowCovers
    <3>3. d.hot[k + 1].undo <= d.hot[j].undo
      <4>1. k + 1 = j \/ k + 1 < j
        BY <1>4, <2>1
      <4>2. d.hot[j].undo \in Nat
        BY <1>3, <2>1
      <4>3. k + 1 < j => d.hot[k + 1].undo <= d.hot[j].undo
        BY <1>2, <2>1
      <4> QED BY <4>1, <4>2, <4>3
    <3>4. l # j
      <4>1. SUFFICES ASSUME l = j
                     PROVE  FALSE
        OBVIOUS
      <4>2. m = d.hot[k + 1].undo /\ d.hot[j].undo < i
        BY <1>6, <2>1, <3>2, <4>1
      <4>3. d.hot[j].undo \in Nat /\ m \in Nat
        BY <1>3, <2>1
      <4> QED BY <1>19, <3>3, <4>2, <4>3
    <3>5. l < j \/ j < l
      BY <2>1, <3>4
    <3> QED BY <1>2, <1>3, <2>1, <3>1, <3>5
  <2> QED BY <1>19, <2>2, <2>3 DEF FiledRight
<1>20. ASSUME NEW i \in 1..Len(A), NEW h, FiledRight(d, i, h),
              \A j \in (k + 1)..n : h # Height(d.hot[j].ref)
       PROVE  i \in 1..m /\ FiledRight(r, i, h)
  <2>1. CASE /\ h <= Height(d.status)
             /\ \A j \in 1..n : d.hot[j].undo < i => Height(d.hot[j].ref) <= Height(d.status)
    <3>1. i <= m
      <4>1. CASE k < n
        <5>1. k + 1 \in 1..n /\ m = d.hot[k + 1].undo
          BY <1>6, <4>1
        <5>2. ~(d.hot[k + 1].undo < i)
          BY <1>1, <1>3, <2>1, <5>1
        <5> QED BY <1>3, <5>1, <5>2
      <4>2. CASE ~(k < n)
        BY <1>6, <4>2
      <4> QED BY <4>1, <4>2
    <3>2. FiledRight(r, i, h)
      BY <1>13, <1>14, <2>1 DEF FiledRight
    <3> QED BY <1>3, <3>1, <3>2
  <2>2. CASE \E l \in 1..n : RowCovers(d, l, i) /\ h = Height(d.hot[l].ref)
    <3>1. PICK l \in 1..n : RowCovers(d, l, i) /\ h = Height(d.hot[l].ref)
      BY <2>2
    <3>2. l \in 1..k /\ l \in 0..k /\ l \in 0..n /\ l <= k
      BY <1>3, <1>4, <1>20, <3>1
    <3>3. MarkAt(d, l) <= m /\ MarkAt(d, l) \in 0..Len(A)
      BY <1>5, <3>2
    <3>4. i <= MarkAt(d, l)
      BY <3>1 DEF RowCovers
    <3>5. i \in 1..m
      BY <1>3, <3>3, <3>4
    <3>6. RowCovers(r, l, i) /\ h = Height(r.hot[l].ref)
      BY <1>14, <1>15, <3>1, <3>2 DEF RowCovers
    <3> QED BY <1>14, <3>2, <3>5, <3>6 DEF FiledRight
  <2> QED BY <1>20, <2>1, <2>2 DEF FiledRight
<1>21. RegistryFits(r)
  <2>1. ASSUME NEW t \in kept
        PROVE  /\ t.block \in Registering
               /\ \E i \in 1..m : r.applied[i] = t.block /\ FiledRight(r, i, t.height)
    <3>1. t \in d.templates /\ \A j \in (k + 1)..n : t.height # Height(d.hot[j].ref)
      BY DEF kept
    <3>2. PICK i \in 1..Len(A) : A[i] = t.block /\ FiledRight(d, i, t.height)
      BY <1>1, <3>1 DEF RegistryFits
    <3>3. i \in 1..m /\ FiledRight(r, i, t.height)
      BY <1>20, <3>1, <3>2
    <3> QED BY <1>1, <1>14, <3>1, <3>2, <3>3 DEF RegistryFits
  <2>2. ASSUME NEW i \in 1..m, r.applied[i] \in Registering
        PROVE  \E t \in kept : t.block = r.applied[i]
    <3>1. i \in 1..Len(A) /\ r.applied[i] = A[i]
      BY <1>14
    <3>2. PICK t \in d.templates : t.block = A[i]
      BY <1>1, <2>2, <3>1 DEF RegistryFits
    <3>3. PICK l \in 1..Len(A) : A[l] = t.block /\ FiledRight(d, l, t.height)
      BY <1>1, <3>2 DEF RegistryFits
    <3>4. l = i /\ i <= m
      BY <1>3, <3>1, <3>2, <3>3
    <3>5. \A j \in (k + 1)..n : t.height # Height(d.hot[j].ref)
      BY <1>19, <3>3, <3>4
    <3>6. t \in kept
      BY <3>5 DEF kept
    <3> QED BY <3>1, <3>2, <3>6
  <2> QED BY <1>13, <1>14, <2>1, <2>2 DEF RegistryFits
<1>22. GroupsSound(r)
  <2>1. GroupsFit(r, top)
    <3>1. top = r.status \/ (Len(r.hot) > 0 /\ top = r.hot[Len(r.hot)].ref)
      BY <1>16 DEF HeadOf, RefAt
    <3>2. Len(r.hot) \in Nat
      BY <1>4, <1>14
    <3> QED BY <1>4, <1>7, <1>8, <1>13, <1>14, <1>16, <1>17, <1>18, <1>21, <3>1, <3>2 DEF GroupsFit, HeadOf, RefAt
  <2>2. \A j \in 1..Len(r.hot) : Height(r.hot[j].ref) > Height(r.status)
    BY <1>1, <1>13, <1>14
  <2> QED BY <1>16, <2>1, <2>2 DEF GroupsSound
<1> QED BY <1>8, <1>13, <1>16, <1>22 DEF m, top

\* The tables once a batch s, of which the first u blocks are finalized by fin, is mapped
\* on top of b: every unfinalized group has its row, and no finalized row is gone yet.
Extended(b, s, u, fin, nonce) ==
    [ status    |-> fin,
      nonce     |-> nonce,
      hot       |-> b.hot \o HotRows(s, u, Len(b.applied)),
      applied   |-> b.applied \o s,
      templates |-> b.templates \cup TemplateRows(s, u, Height(fin)) ]

\* The rows and the blocks of x are those of b with the rows R and the blocks s after them;
\* a row covers the blocks of its group, and the last old row the finalized ones as well.
Stacked(b, s, R, e, x) ==
    /\ x.hot \in Seq(HotRow) /\ x.applied \in Seq(Block)
    /\ Len(x.applied) = Len(b.applied) + Len(s)
    /\ \A i \in 1..Len(b.applied) : x.applied[i] = b.applied[i]
    /\ \A i \in 1..Len(s) : x.applied[Len(b.applied) + i] = s[i]
    /\ Len(R) \in Nat /\ Len(x.hot) = Len(b.hot) + Len(R)
    /\ \A j \in 1..Len(b.hot) :
           x.hot[j] = b.hot[j] /\ MarkAt(b, j) <= MarkAt(x, j)
    /\ \A j \in 1..Len(R) :
           /\ x.hot[Len(b.hot) + j] = R[j]
           /\ MarkAt(x, Len(b.hot) + j) = Len(b.applied) + e[j]

LEMMA ExtendedRows ==
    ASSUME NEW b, NEW h, GroupsFit(b, h), NEW s \in Seq(Block), NEW u \in 0..Len(s),
           NEW fin, NEW nonce, NEW x, x = Extended(b, s, u, fin, nonce),
           NEW R, R = HotRows(s, u, Len(b.applied)),
           NEW e \in [0..Len(R) -> u..Len(s)], SharedOut(s, u, Len(b.applied), R, e)
    PROVE  Stacked(b, s, R, e, x)
<1> DEFINE n == Len(b.applied)
           H == Len(b.hot)
           L == Len(s)
           K == Len(R)
<1>1. /\ b.hot \in Seq(HotRow) /\ b.applied \in Seq(Block) /\ n \in Nat /\ H \in Nat
      /\ L \in Nat /\ u \in Nat /\ u <= L
      /\ \A j \in 1..H : b.hot[j].undo \in Nat /\ b.hot[j].undo <= n
  <2>1. /\ b.hot \in Seq(HotRow) /\ b.applied \in Seq(Block) /\ n \in Nat /\ H \in Nat
        /\ \A j \in 1..H : b.hot[j].undo \in Nat
    BY GroupsType
  <2>2. \A j \in 1..H : b.hot[j].undo <= n
    BY DEF GroupsFit, RowsClimb
  <2>3. L \in Nat /\ u \in Nat /\ u <= L
    OBVIOUS
  <2> HIDE DEF n, H, L
  <2> QED BY <2>1, <2>2, <2>3
<1>2. R \in Seq(HotRow) /\ K \in Nat
  BY <1>1, GroupRows
<1>3. /\ e[0] = u /\ e[K] = L
      /\ \A j \in 1..K : R[j] = [ref |-> s[e[j]], undo |-> n + e[j - 1]]
  BY DEF SharedOut
<1>4. x.hot = b.hot \o R /\ x.applied = b.applied \o s
  BY DEF Extended
<1> HIDE DEF n, H, L
<1>5. /\ K \in Nat /\ x.hot \in Seq(HotRow) /\ Len(x.hot) = H + K
      /\ \A j \in 1..H : x.hot[j] = b.hot[j]
      /\ \A j \in 1..K : x.hot[H + j] = R[j]
  <2>1. b.hot \in Seq(HotRow)
    BY <1>1
  <2>2. \A v, w \in Seq(HotRow) :
            /\ v \o w \in Seq(HotRow)
            /\ Len(v \o w) = Len(v) + Len(w)
            /\ \A j \in 1..Len(v) : (v \o w)[j] = v[j]
            /\ \A j \in 1..Len(w) : (v \o w)[Len(v) + j] = w[j]
    BY ConcatPieces
  <2>3. /\ x.hot \in Seq(HotRow)
        /\ Len(x.hot) = Len(b.hot) + Len(R)
        /\ \A j \in 1..Len(b.hot) : x.hot[j] = b.hot[j]
        /\ \A j \in 1..Len(R) : x.hot[Len(b.hot) + j] = R[j]
    <3>1. R \in Seq(HotRow) /\ x.hot = b.hot \o R
      BY <1>2, <1>4
    <3> DEFINE v == b.hot
    <3>2. v \in Seq(HotRow)
      BY <2>1
    <3> HIDE DEF v
    <3>3. /\ v \o R \in Seq(HotRow)
          /\ Len(v \o R) = Len(v) + Len(R)
          /\ \A j \in 1..Len(v) : (v \o R)[j] = v[j]
          /\ \A j \in 1..Len(R) : (v \o R)[Len(v) + j] = R[j]
      BY <2>2, <3>1, <3>2, Zenon
    <3>4. x.hot = v \o R
      BY <3>1 DEF v
    <3>5. /\ x.hot \in Seq(HotRow)
          /\ Len(x.hot) = Len(v) + Len(R)
          /\ \A j \in 1..Len(v) : x.hot[j] = v[j]
          /\ \A j \in 1..Len(R) : x.hot[Len(v) + j] = R[j]
      BY <3>3, <3>4, Zenon
    <3> QED BY <3>5 DEF v
  <2> QED BY <1>2, <2>3 DEF H, K
<1>6. /\ x.applied \in Seq(Block) /\ Len(x.applied) = n + L
      /\ \A i \in 1..n : x.applied[i] = b.applied[i]
      /\ \A i \in 1..L : x.applied[n + i] = s[i]
  BY <1>1, <1>4, ConcatPieces DEF n, L
<1> HIDE DEF K
<1>7. \A j \in 0..K : e[j] \in u..L /\ e[j] \in Nat
  BY <1>1 DEF K, L
<1>8. ASSUME NEW j \in 0..K
      PROVE  MarkAt(x, H + j) = n + e[j]
  <2>1. CASE j < K
    <3>1. j + 1 \in 1..K /\ H + j < H + K /\ H + (j + 1) = (H + j) + 1 /\ (j + 1) - 1 = j
      BY <1>1, <1>5, <2>1
    <3>2. R[j + 1] = [ref |-> s[e[j + 1]], undo |-> n + e[(j + 1) - 1]]
      BY <1>3, <3>1
    <3>3. R[j + 1].undo = n + e[j]
      BY <3>1, <3>2
    <3> QED BY <1>5, <3>1, <3>3 DEF MarkAt
  <2>2. CASE ~(j < K)
    <3>1. j = K /\ ~(H + j < H + K)
      BY <1>1, <1>5, <2>2
    <3> QED BY <1>3, <1>5, <1>6, <3>1 DEF MarkAt
  <2> QED BY <2>1, <2>2
<1>9. ASSUME NEW j \in 1..H
      PROVE  MarkAt(b, j) <= MarkAt(x, j)
  <2>1. CASE j < H
    <3>1. j < H + K /\ j + 1 \in 1..H
      BY <1>1, <1>5, <2>1
    <3>2. MarkAt(b, j) = b.hot[j + 1].undo /\ MarkAt(x, j) = b.hot[j + 1].undo
      BY <1>5, <2>1, <3>1 DEF MarkAt, H
    <3> QED BY <1>1, <3>1, <3>2
  <2>2. CASE ~(j < H)
    <3>1. j = H /\ MarkAt(b, j) = n
      BY <1>1, <2>2 DEF MarkAt, H, n
    <3>2. MarkAt(x, H + 0) = n + e[0] /\ H + 0 = H
      BY <1>1, <1>5, <1>8
    <3> QED BY <1>1, <1>3, <3>1, <3>2
  <2> QED BY <2>1, <2>2
<1>10. ASSUME NEW j \in 1..K
       PROVE  MarkAt(x, H + j) = n + e[j]
  <2>1. j \in 0..K
    OBVIOUS
  <2> QED BY <1>8, <2>1
<1> QED BY <1>2, <1>5, <1>6, <1>9, <1>10 DEF H, L, n, K, Stacked

\* Mapping a batch on top of the head, and finalizing a block of the new chain that is at
\* or above the finalized head and the first u blocks of the batch, leaves the tables fit.
LEMMA ExtendedFits ==
    ASSUME NEW b, NEW h, GroupsFit(b, h), NEW s, Batch(h, s), NEW fin \in Ref,
           On(fin, LastOf(h, s)), Height(b.status) <= Height(fin),
           NEW u \in 0..Len(s), \A i \in 1..u : Height(s[i]) <= Height(fin),
           NEW nonce \in Nat, NEW x, x = Extended(b, s, u, fin, nonce)
    PROVE  GroupsFit(x, LastOf(h, s))
<1> DEFINE n == Len(b.applied)
           H == Len(b.hot)
           L == Len(s)
           t == LastOf(h, s)
           R == HotRows(s, u, n)
           K == Len(R)
<1>1. /\ b.status \in Ref /\ h \in Ref /\ Height(b.status) \in Int /\ Height(h) \in Int
      /\ b.hot \in Seq(HotRow) /\ H \in Nat /\ b.applied \in Seq(Block) /\ n \in Nat
      /\ b.templates \in SUBSET Template
      /\ \A j \in 1..H : /\ b.hot[j].ref \in Ref /\ b.hot[j].undo \in Nat
                         /\ Height(b.hot[j].ref) \in Int
      /\ \A i \in 1..n : b.applied[i] \in Ref /\ Height(b.applied[i]) \in Int
  BY GroupsType
<1>2. /\ On(b.status, h) /\ OnlyChain(b.applied, h) /\ RegistryFits(b)
      /\ h = b.status \/ (H > 0 /\ h = b.hot[H].ref)
  BY DEF GroupsFit
<1>3. /\ s \in Seq(Block) /\ t \in Ref /\ On(h, t) /\ Ascending(s)
      /\ OnlyChain(b.applied \o s, t)
      /\ \A i \in 1..L : On(s[i], t) /\ Height(s[i]) > Height(h)
  BY <1>1, <1>2, BatchOnChain
<1>4. /\ L \in Nat /\ u \in Nat /\ u <= L
      /\ \A i \in 1..L : s[i] \in Ref /\ s[i] \in Block /\ Height(s[i]) \in Int
      /\ Height(fin) \in Int
  BY <1>3, HeightType DEF Ref
<1>5. /\ \A j \in 1..H :
           /\ On(b.hot[j].ref, h)
           /\ b.hot[j].undo <= n
           /\ \A i \in 1..b.hot[j].undo :
                  \/ Height(b.applied[i]) <= Height(b.status)
                  \/ j > 1 /\ Height(b.applied[i]) <= Height(b.hot[j - 1].ref)
      /\ \A j, k \in 1..H :
           j < k => /\ Height(b.hot[j].ref) < Height(b.hot[k].ref)
                    /\ b.hot[j].undo <= b.hot[k].undo
  BY DEF GroupsFit, RowsClimb
<1>6. PICK e \in [0..K -> u..L] : SharedOut(s, u, n, R, e)
  BY <1>1, <1>3, GroupRows
<1>7. /\ e[0] = u /\ e[K] = L
      /\ \A j, k \in 0..K : j < k => e[j] < e[k]
      /\ \A j \in 1..K : R[j] = [ref |-> s[e[j]], undo |-> n + e[j - 1]]
      /\ \A i \in (u + 1)..L :
             \E j \in 1..K : e[j - 1] < i /\ i <= e[j] /\ GroupEnd(s, u, i) = e[j]
  BY <1>6 DEF SharedOut
<1>8. /\ x.hot \in Seq(HotRow) /\ x.applied \in Seq(Block)
      /\ Len(x.applied) = n + L
      /\ \A i \in 1..n : x.applied[i] = b.applied[i]
      /\ \A i \in 1..L : x.applied[n + i] = s[i]
      /\ K \in Nat /\ Len(x.hot) = H + K
      /\ \A j \in 1..H : x.hot[j] = b.hot[j] /\ MarkAt(b, j) <= MarkAt(x, j)
      /\ \A j \in 1..K : x.hot[H + j] = R[j] /\ MarkAt(x, H + j) = n + e[j]
  <2>1. R = HotRows(s, u, Len(b.applied)) /\ n = Len(b.applied)
    OBVIOUS
  <2> HIDE DEF R
  <2>2. e \in [0..Len(R) -> u..Len(s)] /\ SharedOut(s, u, Len(b.applied), R, e)
    BY <1>6, <2>1
  <2>3. Stacked(b, s, R, e, x)
    BY <1>3, <2>1, <2>2, ExtendedRows
  <2> QED BY <2>3 DEF Stacked
<1>9. /\ x.status = fin /\ x.nonce = nonce
      /\ x.applied = b.applied \o s
      /\ x.templates = b.templates \cup TemplateRows(s, u, Height(fin))
      /\ x = [status |-> x.status, nonce |-> x.nonce, hot |-> x.hot,
              applied |-> x.applied, templates |-> x.templates]
  BY DEF Extended
<1>10. \A j \in 0..K : e[j] \in Nat /\ u <= e[j] /\ e[j] <= L
  BY <1>4, <1>6
<1> HIDE DEF n, H, L, t, R, K
\* The new rows.
<1>11. \A j \in 1..K :
           /\ j \in 0..K /\ j - 1 \in 0..K
           /\ e[j - 1] < e[j] /\ e[j] \in 1..L
           /\ x.hot[H + j].ref = s[e[j]] /\ x.hot[H + j].undo = n + e[j - 1]
  <2> TAKE j \in 1..K
  <2>1. j \in 0..K /\ j - 1 \in 0..K /\ j - 1 < j
    BY <1>8
  <2>2. e[j - 1] < e[j] /\ e[j] \in 1..L
    BY <1>4, <1>7, <1>10, <2>1
  <2>3. x.hot[H + j] = [ref |-> s[e[j]], undo |-> n + e[j - 1]]
    BY <1>7, <1>8
  <2> QED BY <2>1, <2>2, <2>3
<1>12. \A j \in 1..(H + K) : j \in 1..H \/ (j - H \in 1..K /\ H + (j - H) = j)
  BY <1>1, <1>8
<1>13. \A i \in 1..(n + L) : i \in 1..n \/ (i - n \in 1..L /\ n + (i - n) = i)
  BY <1>1, <1>4
<1>28. H \in Nat /\ n \in Nat /\ L \in Nat /\ K \in Nat
  BY <1>1, <1>4, <1>8
<1>27. /\ \A i \in 1..n : i \in 1..(n + L)
       /\ \A i \in 1..L : n + i \in 1..(n + L)
       /\ \A j \in 1..H : j \in 1..(H + K)
       /\ \A j \in 1..K : H + j \in 1..(H + K)
  BY <1>28
<1>14. \A j \in 1..H : Height(b.hot[j].ref) <= Height(h)
  BY <1>1, <1>5, AncestorHeight
<1>15. \A i \in 1..n : Height(b.applied[i]) <= Height(h)
  BY <1>1, <1>2, AncestorHeight DEF OnlyChain, n
<1>16. \A i, j \in 1..L : i < j => Height(s[i]) < Height(s[j])
  BY <1>3 DEF Ascending, L
<1>17. RowsClimb(x, t)
  <2>1. ASSUME NEW j \in 1..H
        PROVE  /\ On(x.hot[j].ref, t)
               /\ x.hot[j].undo <= n + L
               /\ \A i \in 1..x.hot[j].undo :
                      \/ Height(x.applied[i]) <= Height(x.status)
                      \/ j > 1 /\ Height(x.applied[i]) <= Height(x.hot[j - 1].ref)
    <3>1. x.hot[j] = b.hot[j] /\ b.hot[j].undo \in Nat /\ b.hot[j].undo <= n
      BY <1>1, <1>5, <1>8
    <3>2. On(b.hot[j].ref, t)
      BY <1>1, <1>3, <1>5, AncestorTransitive
    <3>3. x.hot[j].undo <= n + L
      BY <1>28, <3>1
    <3>4. ASSUME NEW i \in 1..x.hot[j].undo
          PROVE  \/ Height(x.applied[i]) <= Height(x.status)
                 \/ j > 1 /\ Height(x.applied[i]) <= Height(x.hot[j - 1].ref)
      <4>1. i \in 1..n /\ x.applied[i] = b.applied[i] /\ Height(b.applied[i]) \in Int
        <5>1. i \in 1..b.hot[j].undo
          BY <3>1, <3>4
        <5>2. i \in 1..n
          BY <1>28, <3>1, <5>1
        <5>3. x.applied[i] = b.applied[i]
          BY <1>8, <5>2
        <5>4. Height(b.applied[i]) \in Int
          BY <1>1, <5>2
        <5> QED BY <5>2, <5>3, <5>4
      <4>2. \/ Height(b.applied[i]) <= Height(b.status)
            \/ j > 1 /\ Height(b.applied[i]) <= Height(b.hot[j - 1].ref)
        BY <1>5, <3>1, <3>4
      <4>3. CASE Height(b.applied[i]) <= Height(b.status)
        BY <1>1, <1>4, <1>9, <4>1, <4>3
      <4>4. CASE j > 1 /\ Height(b.applied[i]) <= Height(b.hot[j - 1].ref)
        <5>1. j - 1 \in 1..H
          BY <1>1, <4>4
        <5> QED BY <1>8, <4>1, <4>4, <5>1
      <4> QED BY <4>2, <4>3, <4>4
    <3> QED BY <3>1, <3>2, <3>3, <3>4
  <2>2. ASSUME NEW l \in 1..K
        PROVE  /\ On(x.hot[H + l].ref, t)
               /\ x.hot[H + l].undo <= n + L
               /\ \A i \in 1..x.hot[H + l].undo :
                      \/ Height(x.applied[i]) <= Height(x.status)
                      \/ H + l > 1 /\ Height(x.applied[i]) <= Height(x.hot[(H + l) - 1].ref)
    <3>1. /\ l - 1 \in 0..K /\ e[l - 1] < e[l] /\ e[l] \in 1..L /\ e[l - 1] \in Nat
          /\ x.hot[H + l].ref = s[e[l]] /\ x.hot[H + l].undo = n + e[l - 1]
      BY <1>10, <1>11
    <3>2. On(x.hot[H + l].ref, t)
      BY <1>3, <3>1 DEF L
    <3>3. x.hot[H + l].undo <= n + L
      BY <1>1, <1>4, <1>10, <3>1
    <3>4. ASSUME NEW i \in 1..(n + e[l - 1])
          PROVE  \/ Height(x.applied[i]) <= Height(x.status)
                 \/ H + l > 1 /\ Height(x.applied[i]) <= Height(x.hot[(H + l) - 1].ref)
      <4>1. i \in 1..n \/ (i - n \in 1..e[l - 1] /\ i - n \in 1..L /\ n + (i - n) = i)
        BY <1>1, <1>4, <1>10, <3>1
      <4>2. CASE l = 1
        <5>1. e[l - 1] = u
          BY <1>7, <4>2
        <5>2. CASE i \in 1..n
          <6>1. x.applied[i] = b.applied[i] /\ Height(b.applied[i]) <= Height(h)
            BY <1>8, <1>15, <5>2
          <6>2. CASE h = b.status
            <7>1. Height(b.applied[i]) <= Height(fin)
              <8>1. Height(b.applied[i]) \in Int /\ Height(h) <= Height(fin)
                BY <1>1, <5>2, <6>2
              <8> QED BY <1>1, <1>4, <6>1, <8>1
            <7> QED BY <1>9, <6>1, <7>1
          <6>3. CASE H > 0 /\ h = b.hot[H].ref
            <7>1. H \in 1..H /\ (H + l) - 1 = H /\ H + l > 1
              <8>1. H \in Nat /\ H > 0 /\ l = 1
                BY <1>1, <4>2, <6>3
              <8> QED BY <8>1
            <7> QED BY <1>8, <6>1, <6>3, <7>1
          <6> QED BY <1>2, <6>2, <6>3 DEF H
        <5>3. CASE i - n \in 1..e[l - 1] /\ i - n \in 1..L /\ n + (i - n) = i
          <6>1. x.applied[i] = s[i - n]
            BY <1>8, <5>3
          <6> QED BY <1>9, <5>1, <5>3, <6>1
        <5> QED BY <4>1, <5>2, <5>3
      <4>3. CASE l # 1
        <5>1. l - 1 \in 1..K /\ H + (l - 1) = (H + l) - 1 /\ H + l > 1
          BY <1>1, <1>8, <4>3
        <5>2. x.hot[(H + l) - 1].ref = s[e[l - 1]] /\ e[l - 1] \in 1..L
          BY <1>11, <5>1
        <5>3. CASE i \in 1..n
          <6>1. x.applied[i] = b.applied[i] /\ Height(b.applied[i]) <= Height(h)
            BY <1>8, <1>15, <5>3
          <6>2. Height(s[e[l - 1]]) > Height(h) /\ Height(s[e[l - 1]]) \in Int
            BY <1>3, <1>4, <5>2 DEF L
          <6>3. Height(b.applied[i]) \in Int
            BY <1>1, <5>3
          <6> QED BY <1>1, <5>1, <5>2, <6>1, <6>2, <6>3
        <5>4. CASE i - n \in 1..e[l - 1] /\ i - n \in 1..L /\ n + (i - n) = i
          <6>1. x.applied[i] = s[i - n]
            BY <1>8, <5>4
          <6>2. i - n = e[l - 1] \/ i - n < e[l - 1]
            BY <3>1, <5>4
          <6>3. Height(s[i - n]) <= Height(s[e[l - 1]])
            <7>1. Height(s[i - n]) \in Int /\ Height(s[e[l - 1]]) \in Int
              BY <1>4, <5>2, <5>4
            <7>2. i - n < e[l - 1] => Height(s[i - n]) < Height(s[e[l - 1]])
              BY <1>16, <5>2, <5>4
            <7> QED BY <6>2, <7>1, <7>2
          <6> QED BY <5>1, <5>2, <6>1, <6>3
        <5> QED BY <4>1, <5>3, <5>4
      <4> QED BY <4>2, <4>3
    <3> QED BY <3>1, <3>2, <3>3, <3>4
  <2>3. ASSUME NEW j \in 1..(H + K), NEW k \in 1..(H + K), j < k
        PROVE  /\ Height(x.hot[j].ref) < Height(x.hot[k].ref)
               /\ x.hot[j].undo <= x.hot[k].undo
    <3>1. CASE k \in 1..H
      <4>1. j \in 1..H
        BY <1>1, <2>3, <3>1
      <4> QED BY <1>5, <1>8, <2>3, <3>1, <4>1
    <3>2. CASE k - H \in 1..K /\ H + (k - H) = k /\ j \in 1..H
      <4>1. /\ x.hot[k].ref = s[e[k - H]] /\ x.hot[k].undo = n + e[(k - H) - 1]
            /\ e[k - H] \in 1..L /\ (k - H) - 1 \in 0..K
        BY <1>11, <3>2
      <4>2. /\ Height(b.hot[j].ref) <= Height(h) /\ Height(s[e[k - H]]) > Height(h)
            /\ Height(s[e[k - H]]) \in Int /\ Height(b.hot[j].ref) \in Int
        BY <1>1, <1>3, <1>4, <1>14, <3>2, <4>1 DEF L
      <4>3. b.hot[j].undo <= n /\ b.hot[j].undo \in Nat /\ e[(k - H) - 1] \in Nat
        BY <1>1, <1>5, <1>10, <3>2, <4>1
      <4>4. b.hot[j].undo <= n + e[(k - H) - 1]
        <5> DEFINE p == e[(k - H) - 1]
                   q == b.hot[j].undo
        <5>1. p \in Nat /\ q \in Nat /\ q <= n /\ n \in Nat
          BY <1>1, <4>3
        <5> HIDE DEF p, q
        <5>2. q <= n + p
          BY <5>1
        <5> QED BY <5>2 DEF p, q
      <4>5. Height(b.hot[j].ref) < Height(s[e[k - H]])
        BY <1>1, <4>2
      <4>6. x.hot[j] = b.hot[j]
        BY <1>8, <3>2
      <4> QED BY <4>1, <4>4, <4>5, <4>6
    <3>3. CASE k - H \in 1..K /\ H + (k - H) = k /\ j - H \in 1..K /\ H + (j - H) = j
      <4> DEFINE v == j - H
                 w == k - H
      <4>1. v < w /\ v \in 1..K /\ w \in 1..K
        BY <1>1, <2>3, <3>3
      <4>2. /\ x.hot[j].ref = s[e[v]] /\ x.hot[j].undo = n + e[v - 1]
            /\ x.hot[k].ref = s[e[w]] /\ x.hot[k].undo = n + e[w - 1]
            /\ e[v] \in 1..L /\ e[w] \in 1..L
            /\ v \in 0..K /\ w \in 0..K /\ v - 1 \in 0..K /\ w - 1 \in 0..K
        BY <1>11, <3>3
      <4>3. v - 1 < w - 1
        BY <1>8, <4>1
      <4> HIDE DEF v, w
      <4>4. e[v] < e[w] /\ e[v - 1] < e[w - 1] /\ e[v - 1] \in Nat /\ e[w - 1] \in Nat
        BY <1>7, <1>10, <4>1, <4>2, <4>3
      <4>5. Height(s[e[v]]) < Height(s[e[w]])
        BY <1>16, <4>2, <4>4
      <4>6. n + e[v - 1] <= n + e[w - 1]
        BY <1>1, <4>4
      <4> QED BY <4>2, <4>5, <4>6
    <3> QED BY <1>12, <3>1, <3>2, <3>3
  <2>4. ASSUME NEW j \in 1..(H + K)
        PROVE  /\ On(x.hot[j].ref, t)
               /\ x.hot[j].undo <= n + L
               /\ \A i \in 1..x.hot[j].undo :
                      \/ Height(x.applied[i]) <= Height(x.status)
                      \/ j > 1 /\ Height(x.applied[i]) <= Height(x.hot[j - 1].ref)
    <3>1. CASE j \in 1..H
      BY <2>1, <3>1
    <3>2. CASE j - H \in 1..K /\ H + (j - H) = j
      <4> DEFINE l == j - H
      <4>1. l \in 1..K /\ H + l = j
        BY <3>2
      <4> HIDE DEF l
      <4> QED BY <2>2, <4>1
    <3> QED BY <1>12, <3>1, <3>2
  <2> QED BY <1>8, <2>3, <2>4 DEF RowsClimb
\* The registry: an old row stays filed right, and a new one is filed under the finalized
\* height or under the row of its block's group.
<1>18. ASSUME NEW i \in 1..n, NEW f \in Int, FiledRight(b, i, f)
       PROVE  FiledRight(x, i, f)
  <2>1. CASE /\ f <= Height(b.status)
             /\ \A j \in 1..H : b.hot[j].undo < i => Height(b.hot[j].ref) <= Height(b.status)
    <3>1. ASSUME NEW j \in 1..(H + K), x.hot[j].undo < i
          PROVE  Height(x.hot[j].ref) <= Height(fin)
      <4>1. CASE j \in 1..H
        <5>1. x.hot[j] = b.hot[j] /\ Height(b.hot[j].ref) \in Int
          BY <1>1, <1>8, <4>1
        <5>2. Height(b.hot[j].ref) <= Height(b.status)
          BY <2>1, <3>1, <4>1, <5>1
        <5> QED BY <1>1, <1>4, <5>1, <5>2
      <4>2. CASE j - H \in 1..K /\ H + (j - H) = j
        <5>1. x.hot[j].undo = n + e[(j - H) - 1] /\ (j - H) - 1 \in 0..K
          BY <1>11, <4>2
        <5>2. e[(j - H) - 1] \in Nat
          BY <1>10, <5>1
        <5>3. ~(n + e[(j - H) - 1] < i)
          BY <1>1, <5>2
        <5> QED BY <3>1, <5>1, <5>3
      <4> QED BY <1>12, <4>1, <4>2
    <3>2. f <= Height(fin)
      <4>1. f <= Height(b.status) /\ Height(b.status) <= Height(fin)
        BY <2>1
      <4> QED BY <4>1, <1>1, <1>4
    <3> QED BY <1>8, <1>9, <3>1, <3>2 DEF FiledRight
  <2>2. CASE \E j \in 1..H : RowCovers(b, j, i) /\ f = Height(b.hot[j].ref)
    <3>1. PICK j \in 1..H : RowCovers(b, j, i) /\ f = Height(b.hot[j].ref)
      BY <2>2
    <3>2. b.hot[j].undo < i /\ i <= MarkAt(b, j) /\ MarkAt(b, j) <= MarkAt(x, j)
      BY <1>8, <3>1 DEF RowCovers
    <3>3. MarkAt(b, j) \in Int /\ MarkAt(x, j) \in Int
      <4>1. MarkAt(b, j) \in Int
        <5>1. j \in Positions(b)
          BY <1>1 DEF Positions, H
        <5> QED BY <5>1, GroupsType
      <4>2. x.hot \in Seq(HotRow) /\ j \in 1..Len(x.hot) /\ Len(x.applied) \in Nat
        BY <1>1, <1>4, <1>8
      <4>3. \A l \in 1..Len(x.hot) : x.hot[l].undo \in Nat
        <5>1. \A l \in 1..Len(x.hot) : x.hot[l] \in HotRow
          BY <1>8
        <5> QED BY <5>1 DEF HotRow
      <4>4. j < Len(x.hot) => j + 1 \in 1..Len(x.hot)
        BY <4>2
      <4> QED BY <4>1, <4>2, <4>3, <4>4 DEF MarkAt
    <3>4. RowCovers(x, j, i) /\ f = Height(x.hot[j].ref) /\ j \in 1..(H + K)
      <4>1. x.hot[j] = b.hot[j] /\ i <= MarkAt(x, j)
        BY <1>8, <3>2, <3>3
      <4> QED BY <1>27, <3>1, <3>2, <4>1 DEF RowCovers
    <3> QED BY <1>8, <3>4 DEF FiledRight
  <2> QED BY <1>18, <2>1, <2>2 DEF FiledRight, H
<1>19. ASSUME NEW i \in 1..u
       PROVE  FiledRight(x, n + i, Height(fin))
  <2>1. i \in 1..L /\ Height(s[i]) <= Height(fin)
    BY <1>4
  <2>2. ASSUME NEW j \in 1..(H + K), x.hot[j].undo < n + i
        PROVE  Height(x.hot[j].ref) <= Height(fin)
    <3>1. CASE j \in 1..H
      <4>1. /\ x.hot[j] = b.hot[j] /\ Height(b.hot[j].ref) <= Height(h)
            /\ Height(b.hot[j].ref) \in Int
        BY <1>1, <1>8, <1>14, <3>1
      <4>2. Height(s[i]) > Height(h) /\ Height(s[i]) \in Int
        BY <1>3, <1>4, <2>1 DEF L
      <4> QED BY <1>1, <1>4, <2>1, <4>1, <4>2
    <3>2. CASE j - H \in 1..K /\ H + (j - H) = j
      <4>1. x.hot[j].undo = n + e[(j - H) - 1] /\ (j - H) - 1 \in 0..K
        BY <1>11, <3>2
      <4>2. e[(j - H) - 1] \in Nat /\ u <= e[(j - H) - 1]
        BY <1>10, <4>1
      <4>3. ~(n + e[(j - H) - 1] < n + i)
        BY <1>1, <1>4, <4>2
      <4> QED BY <2>2, <4>1, <4>3
    <3> QED BY <1>12, <3>1, <3>2
  <2> QED BY <1>4, <1>8, <1>9, <2>2 DEF FiledRight
<1>20. ASSUME NEW i \in (u + 1)..L
       PROVE  FiledRight(x, n + i, Height(s[GroupEnd(s, u, i)])) /\ GroupEnd(s, u, i) \in 1..L
  <2>1. PICK j \in 1..K : e[j - 1] < i /\ i <= e[j] /\ GroupEnd(s, u, i) = e[j]
    BY <1>7
  <2>2. /\ j - 1 \in 0..K /\ j \in 0..K /\ e[j] \in 1..L
        /\ x.hot[H + j].ref = s[e[j]] /\ x.hot[H + j].undo = n + e[j - 1]
        /\ MarkAt(x, H + j) = n + e[j]
    BY <1>8, <1>11
  <2>3. e[j - 1] \in Nat /\ e[j] \in Nat
    BY <1>10, <2>2
  <2>4. n + e[j - 1] < n + i /\ n + i <= n + e[j] /\ H + j \in 1..(H + K)
    <3>1. i \in Int /\ e[j - 1] < i /\ i <= e[j]
      BY <2>1
    <3>2. n + e[j - 1] < n + i /\ n + i <= n + e[j]
      BY <1>1, <2>3, <3>1
    <3> QED BY <1>27, <3>2
  <2>5. RowCovers(x, H + j, n + i)
    BY <2>2, <2>4 DEF RowCovers
  <2> QED BY <1>8, <2>1, <2>2, <2>4, <2>5 DEF FiledRight
<1>21. ASSUME NEW v \in TemplateRows(s, u, Height(fin))
       PROVE  \E i \in 1..L :
                 /\ s[i] \in Registering /\ v.block = s[i] /\ v.height \in Int
                 /\ v \in Template /\ FiledRight(x, n + i, v.height)
  <2>1. PICK i \in 1..L :
            /\ s[i] \in Registering
            /\ v = [block |-> s[i],
                    height |-> IF i <= u THEN Height(fin) ELSE Height(s[GroupEnd(s, u, i)])]
    BY DEF TemplateRows, L
  <2>2. CASE i <= u
    <3>1. i \in 1..u /\ v = [block |-> s[i], height |-> Height(fin)]
      BY <1>4, <2>1, <2>2
    <3>2. v \in Template
      BY <1>4, <3>1 DEF Template
    <3> QED BY <1>4, <1>19, <2>1, <3>1, <3>2
  <2>3. CASE ~(i <= u)
    <3>1. /\ i \in (u + 1)..L
          /\ v = [block |-> s[i], height |-> Height(s[GroupEnd(s, u, i)])]
      BY <1>4, <2>1, <2>3
    <3>2. FiledRight(x, n + i, v.height) /\ v.height \in Int
      <4>1. FiledRight(x, n + i, Height(s[GroupEnd(s, u, i)])) /\ GroupEnd(s, u, i) \in 1..L
        BY <1>20, <3>1
      <4> QED BY <1>4, <3>1, <4>1
    <3>3. v \in Template
      BY <1>4, <3>1, <3>2 DEF Template
    <3> QED BY <2>1, <3>1, <3>2, <3>3
  <2> QED BY <2>2, <2>3
<1>22. RegistryFits(x)
  <2>1. ASSUME NEW v \in x.templates
        PROVE  /\ v.block \in Registering
               /\ \E i \in 1..(n + L) : x.applied[i] = v.block /\ FiledRight(x, i, v.height)
    <3>1. CASE v \in b.templates
      <4>1. /\ v.block \in Registering
            /\ \E i \in 1..n : b.applied[i] = v.block /\ FiledRight(b, i, v.height)
        BY <1>2, <3>1 DEF RegistryFits, n
      <4>2. PICK i \in 1..n : b.applied[i] = v.block /\ FiledRight(b, i, v.height)
        BY <4>1
      <4>3. i \in 1..(n + L) /\ x.applied[i] = v.block /\ FiledRight(x, i, v.height)
        <5>1. v.height \in Int
          BY <1>1, <3>1 DEF Template
        <5>2. FiledRight(x, i, v.height)
          BY <1>18, <4>2, <5>1
        <5> QED BY <1>8, <1>27, <4>2, <5>2
      <4> QED BY <4>1, <4>3
    <3>2. CASE v \in TemplateRows(s, u, Height(fin))
      <4>1. PICK i \in 1..L :
                s[i] \in Registering /\ v.block = s[i] /\ FiledRight(x, n + i, v.height)
        BY <1>21, <3>2
      <4>2. n + i \in 1..(n + L) /\ x.applied[n + i] = v.block
        BY <1>8, <1>27, <4>1
      <4> QED BY <4>1, <4>2
    <3> QED BY <1>9, <3>1, <3>2
  <2>2. ASSUME NEW i \in 1..(n + L), x.applied[i] \in Registering
        PROVE  \E v \in x.templates : v.block = x.applied[i]
    <3>1. CASE i \in 1..n
      <4>1. x.applied[i] = b.applied[i]
        BY <1>8, <3>1
      <4>2. PICK v \in b.templates : v.block = b.applied[i]
        BY <1>2, <2>2, <3>1, <4>1 DEF RegistryFits, n
      <4> QED BY <1>9, <4>1, <4>2
    <3>2. CASE i - n \in 1..L /\ n + (i - n) = i
      <4> DEFINE l == i - n
                 v == [block |-> s[l],
                       height |-> IF l <= u THEN Height(fin)
                                  ELSE Height(s[GroupEnd(s, u, l)])]
      <4>1. x.applied[i] = s[l] /\ l \in 1..L /\ s[l] \in Registering
        BY <1>8, <2>2, <3>2
      <4> HIDE DEF l
      <4>2. v \in TemplateRows(s, u, Height(fin))
        BY <4>1 DEF TemplateRows, L
      <4> QED BY <1>9, <4>1, <4>2
    <3> QED BY <1>13, <3>1, <3>2
  <2> QED BY <1>8, <2>1, <2>2 DEF RegistryFits
<1>23. x \in DatabaseState
  <2>1. TemplateRows(s, u, Height(fin)) \subseteq Template
    BY <1>21
  <2> QED BY <1>1, <1>8, <1>9, <2>1, Zenon DEF DatabaseState
\* The last row is that of the last block, unless that block is finalized.
<1>24. t = fin \/ (H + K > 0 /\ t = x.hot[H + K].ref)
  <2>1. CASE K > 0
    <3>1. K \in 1..K /\ H + K > 0
      BY <1>1, <1>8, <2>1
    <3>2. x.hot[H + K].ref = s[L] /\ L \in 1..L
      BY <1>7, <1>11, <3>1
    <3>3. s # << >>
      BY <1>3, <3>2 DEF L
    <3> QED BY <3>1, <3>2, <3>3 DEF t, LastOf, L
  <2>2. CASE K = 0 /\ s # << >>
    <3>1. u = L
      BY <1>7, <2>2
    <3>2. L \in 1..u /\ t = s[L]
      BY <1>3, <2>2, <3>1 DEF L, t, LastOf
    <3>3. Height(t) <= Height(fin)
      BY <3>2
    <3>4. On(fin, t)
      BY DEF t
    <3>5. fin = t
      BY <1>3, <3>3, <3>4, <1>4, AncestorHeight, AncestorUnique, AncestorReflexive, HeightType
    <3> QED BY <3>5
  <2>3. CASE K = 0 /\ s = << >>
    <3>1. t = h /\ H + K = H
      BY <1>1, <2>3 DEF t, LastOf
    <3>2. CASE H > 0 /\ h = b.hot[H].ref
      <4>1. H \in 1..H
        BY <1>1, <3>2
      <4> QED BY <1>8, <3>1, <3>2, <4>1
    <3>3. CASE h = b.status
      <4>1. On(fin, h) /\ Height(h) <= Height(fin)
        BY <3>1, <3>3 DEF t
      <4>2. fin = h
        BY <1>1, <1>4, <4>1, AncestorHeight, AncestorUnique, AncestorReflexive
      <4> QED BY <3>1, <4>2
    <3> QED BY <1>2, <3>2, <3>3 DEF H
  <2> QED BY <1>8, <2>1, <2>2, <2>3
<1>25. OnlyChain(x.applied, t) /\ On(x.status, t)
  BY <1>3, <1>9 DEF t
<1>26. t = x.status \/ (Len(x.hot) > 0 /\ t = x.hot[Len(x.hot)].ref)
  BY <1>8, <1>9, <1>24
<1> QED BY <1>3, <1>17, <1>22, <1>23, <1>25, <1>26 DEF GroupsFit, t

------------------------------------------------------------------------------
(***************************************************************************)
(* Groups: the steps of the specification.                                  *)
(***************************************************************************)

\* Opening a hot transaction: the tables it is rolled back to, and the finalized head that
\* takes effect.
LEMMA GroupsHotSetup ==
    ASSUME NEW d, GroupsSound(d), NEW base \in Ref, NEW s, Batch(base, s), NEW fin \in Ref,
           IsBase(d, base), On(fin, LastOf(base, s)),
           NEW r, r = RollbackTo(d, BasePos(d, base)),
           NEW e, e = EffectiveFinalizedHead(d, fin)
    PROVE  /\ GroupsFit(r, base) /\ r.status = d.status
           /\ s \in Seq(Block)
           /\ e \in Ref /\ On(e, LastOf(base, s)) /\ Height(r.status) <= Height(e)
<1> DEFINE k == BasePos(d, base)
<1>1. GroupsFit(d, HeadOf(d))
  BY DEF GroupsSound
<1>2. d.status \in Ref /\ Height(d.status) \in Int /\ Height(fin) \in Int /\ Len(d.hot) \in Nat
  BY <1>1, GroupsType, HeightType
<1>3. k \in Positions(d) /\ RefAt(d, k) = base
  BY <1>2, BasePosWorks
<1> HIDE DEF k
<1>4. /\ GroupsSound(r) /\ HeadOf(r) = base /\ r.status = d.status /\ On(d.status, base)
  BY <1>3, GroupsRolledBack DEF k
<1>5. GroupsFit(r, base)
  BY <1>4 DEF GroupsSound
<1>6. s \in Seq(Block) /\ On(base, LastOf(base, s)) /\ LastOf(base, s) \in Ref
  <2>1. r.applied \in Seq(Block) /\ OnlyChain(r.applied, base)
    BY <1>5, GroupsType DEF GroupsFit
  <2> QED BY <2>1, BatchOnChain
<1>7. On(d.status, LastOf(base, s))
  BY <1>2, <1>4, <1>6, AncestorTransitive
<1> QED BY <1>2, <1>4, <1>5, <1>6, <1>7 DEF EffectiveFinalizedHead

LEMMA TransactHot2Groups ==
    ASSUME NEW d, GroupsSound(d), NEW base \in Ref, NEW s, Batch(base, s),
           NEW fin \in Ref, IsBase(d, base), On(fin, LastOf(base, s))
    PROVE  GroupsSound(TransactHot2(d, [finalizedHead |-> fin, baseHead |-> base,
                                        newBlocks |-> s]))
<1> DEFINE info == [finalizedHead |-> fin, baseHead |-> base, newBlocks |-> s]
           r == RollbackTo(d, BasePos(d, base))
           e == EffectiveFinalizedHead(d, fin)
           u == CountUpTo(s, Height(e))
           nonce == d.nonce + 1
           x == Extended(r, s, u, e, nonce)
<1>1. /\ GroupsFit(r, base) /\ r.status = d.status /\ s \in Seq(Block)
      /\ e \in Ref /\ On(e, LastOf(base, s)) /\ Height(r.status) <= Height(e)
  BY GroupsHotSetup
<1>2. nonce \in Nat
  BY GroupsType DEF GroupsSound
<1>3. TransactHot2(d, info)
          = [ status    |-> e,
              nonce     |-> nonce,
              hot       |-> DeleteHotBlocks(r.hot \o HotRows(s, u, Len(r.applied)), Height(e)),
              applied   |-> r.applied \o s,
              templates |-> r.templates \cup TemplateRows(s, u, Height(e)) ]
  BY DEF TransactHot2
<1> HIDE DEF r, e, nonce
<1>4. u \in 0..Len(s) /\ \A i \in 1..u : Height(s[i]) <= Height(e)
  BY <1>1, CountUpToWorks, HeightType
<1>5. TransactHot2(d, info) = [x EXCEPT !.hot = DeleteHotBlocks(x.hot, Height(x.status))]
  <2> DEFINE H == r.hot \o HotRows(s, u, Len(r.applied))
             D == DeleteHotBlocks(H, Height(e))
             A == r.applied \o s
             T == r.templates \cup TemplateRows(s, u, Height(e))
  <2>1. x = [status |-> e, nonce |-> nonce, hot |-> H, applied |-> A, templates |-> T]
    BY DEF Extended
  <2>2. TransactHot2(d, info)
            = [status |-> e, nonce |-> nonce, hot |-> D, applied |-> A, templates |-> T]
    BY <1>3
  <2> HIDE DEF H, A, T, x, info
  <2>3. x.status = e /\ x.hot = H
    BY <2>1
  <2>4. [x EXCEPT !.hot = D]
            = [status |-> e, nonce |-> nonce, hot |-> D, applied |-> A, templates |-> T]
    <3> HIDE DEF D
    <3> QED BY <2>1
  <2> QED BY <2>2, <2>3, <2>4
<1> HIDE DEF u, info
<1>6. x = Extended(r, s, u, e, nonce)
  OBVIOUS
<1> HIDE DEF x
<1>7. GroupsFit(x, LastOf(base, s))
  BY <1>1, <1>2, <1>4, <1>6, ExtendedFits
<1> QED BY <1>5, <1>7, GroupsPruned DEF info

LEMMA TransactGroups ==
    ASSUME NEW d, GroupsSound(d), NEW base \in Ref, NEW s \in Deliveries(base),
           d.status = base
    PROVE  GroupsSound(Transact(d, [prevHead |-> base, nextHead |-> LastOf(base, s),
                                    newBlocks |-> s]))
<1> DEFINE t == LastOf(base, s)
           info == [prevHead |-> base, nextHead |-> t, newBlocks |-> s]
           r == RollbackTo(d, 0)
           u == Len(s)
           nonce == d.nonce + 1
           x == Extended(r, s, u, t, nonce)
<1>1. /\ GroupsFit(d, HeadOf(d)) /\ d \in DatabaseState
  BY DEF GroupsSound, GroupsFit
<1>2. 0 \in Positions(d) /\ RefAt(d, 0) = base /\ nonce \in Nat
  BY <1>1, GroupsType DEF Positions, RefAt
<1>3. GroupsSound(r) /\ HeadOf(r) = base /\ r.status = base
  BY <1>2, GroupsRolledBack
<1>4. Transact(d, info)
          = [ status    |-> t,
              nonce     |-> nonce,
              hot       |-> << >>,
              applied   |-> r.applied \o s,
              templates |-> r.templates \cup TemplateRows(s, u, Height(t)) ]
  BY DEF Transact
<1>5. r.hot = << >>
  <2>1. r.hot = SubSeq(d.hot, 1, 0)
    BY <1>1 DEF RollbackTo, DatabaseState
  <2>2. \A a \in Seq(HotRow) : SubSeq(a, 1, 0) = << >>
    OBVIOUS
  <2>3. d.hot \in Seq(HotRow)
    BY <1>1, GroupsType
  <2> HIDE DEF r
  <2> QED BY <2>1, <2>2, <2>3
<1> HIDE DEF r, nonce
<1>6. GroupsFit(r, base) /\ r.applied \in Seq(Block) /\ OnlyChain(r.applied, base)
  <2>1. GroupsFit(r, base)
    BY <1>3 DEF GroupsSound
  <2> QED BY <2>1, GroupsType DEF GroupsFit
<1>7. Batch(base, s)
  BY DEF Batch
<1>8. /\ s \in Seq(Block) /\ t \in Ref /\ On(base, t)
      /\ \A i \in 1..Len(s) : On(s[i], t) /\ s[i] \in Ref
  <2>1. /\ s \in Seq(Block) /\ t \in Ref /\ On(base, t)
        /\ \A i \in 1..Len(s) : On(s[i], t)
    BY <1>6, <1>7, BatchOnChain
  <2> QED BY <2>1 DEF Ref
<1>9. /\ u \in 0..Len(s) /\ \A i \in 1..u : Height(s[i]) <= Height(t)
      /\ Height(base) <= Height(t) /\ On(t, t)
  BY <1>8, AncestorHeight, AncestorReflexive
<1>10. x = Extended(r, s, u, t, nonce)
  OBVIOUS
<1> HIDE DEF x, t
<1>11. On(t, LastOf(base, s))
  BY <1>9 DEF t
<1>12. GroupsFit(x, LastOf(base, s))
  BY <1>2, <1>3, <1>6, <1>7, <1>8, <1>9, <1>10, <1>11, ExtendedFits
\* The whole batch is finalized, so there is no row.
<1>13. HotRows(s, u, Len(r.applied)) = << >>
  <2> DEFINE R == HotRows(s, u, Len(r.applied))
             n == Len(r.applied)
  <2>1. n \in Nat /\ u \in Nat
    BY <1>6, <1>8
  <2> HIDE DEF n
  <2>2. R = HotRows(s, u, n)
    BY DEF n
  <2> HIDE DEF R
  <2>3. R \in Seq(HotRow) /\ \E e \in [0..Len(R) -> u..Len(s)] : SharedOut(s, u, n, R, e)
    BY <1>8, <1>9, <2>1, <2>2, GroupRows
  <2>4. PICK e \in [0..Len(R) -> u..Len(s)] : SharedOut(s, u, n, R, e)
    BY <2>3
  <2>5. /\ e[0] = u /\ e[Len(R)] = Len(s)
        /\ \A j, k \in 0..Len(R) : j < k => e[j] < e[k]
    BY <2>4 DEF SharedOut
  <2>6. Len(R) = 0
    <3>1. Len(R) \in Nat
      BY <2>3
    <3>2. ~(0 < Len(R))
      <4>1. 0 \in 0..Len(R) /\ Len(R) \in 0..Len(R)
        BY <3>1
      <4> QED BY <2>1, <2>5, <4>1
    <3> QED BY <3>1, <3>2
  <2> QED BY <2>3, <2>6 DEF R
<1>14. x.hot = << >> /\ Len(x.hot) = 0
  <2>1. x.hot = r.hot \o HotRows(s, u, Len(r.applied))
    BY <1>10 DEF Extended
  <2> QED BY <1>5, <1>13, <2>1
<1>15. Transact(d, info) = x
  <2>1. x = [ status |-> t, nonce |-> nonce, hot |-> x.hot, applied |-> r.applied \o s,
              templates |-> r.templates \cup TemplateRows(s, u, Height(t)) ]
    BY <1>10 DEF Extended
  <2> QED BY <1>4, <1>14, <2>1
<1>16. HeadOf(x) = LastOf(base, s)
  <2>1. x.status = t
    BY <1>10 DEF Extended
  <2> QED BY <1>14, <2>1 DEF HeadOf, RefAt, t
<1>17. GroupsSound(x)
  BY <1>12, <1>14, <1>16 DEF GroupsSound
<1> QED BY <1>15, <1>17 DEF t

\* Every row of the registry is that of a finalized block or of a hot row, so connect()
\* finds nothing to repair.
LEMMA NothingToRepair ==
    ASSUME NEW d, GroupsSound(d)
    PROVE  RepairOrphans(d) = d
<1> DEFINE T == {t \in d.templates :
                    \/ t.height <= Height(d.status)
                    \/ \E j \in 1..Len(d.hot) : t.height = Height(d.hot[j].ref)}
<1>1. d \in DatabaseState /\ RegistryFits(d)
  BY DEF GroupsSound, GroupsFit
<1>2. T = d.templates
  <2>1. ASSUME NEW t \in d.templates
        PROVE  \/ t.height <= Height(d.status)
               \/ \E j \in 1..Len(d.hot) : t.height = Height(d.hot[j].ref)
    BY <1>1, <2>1 DEF RegistryFits, FiledRight
  <2> QED BY <2>1
<1>3. RepairOrphans(d) = [d EXCEPT !.templates = T]
  BY Zenon DEF RepairOrphans
<1> HIDE DEF T
<1> QED BY <1>1, <1>2, <1>3 DEF DatabaseState

LEMMA InitGroups == Init => GroupsInv
<1> SUFFICES ASSUME Init PROVE GroupsSound(db)
  BY DEF GroupsInv
<1>1. /\ db.status = Origin /\ db.hot = << >> /\ db.applied = << >> /\ db.templates = {}
      /\ Len(db.hot) = 0 /\ Len(db.applied) = 0
  BY DEF Init, EmptyDatabase
<1>2. Origin \in Ref
  BY DEF Ref
<1>3. db \in DatabaseState
  <2>1. << >> \in Seq(HotRow) /\ << >> \in Seq(Block)
    OBVIOUS
  <2> QED BY <1>2, <2>1 DEF Init, EmptyDatabase, DatabaseState
<1>4. HeadOf(db) = Origin /\ On(Origin, Origin)
  BY <1>1, <1>2, AncestorReflexive DEF HeadOf, RefAt
<1>5. OnlyChain(db.applied, Origin) /\ RowsClimb(db, Origin) /\ RegistryFits(db)
  BY <1>1 DEF OnlyChain, Ascending, RowsClimb, RegistryFits
<1>6. GroupsFit(db, Origin)
  BY <1>1, <1>2, <1>3, <1>4, <1>5 DEF GroupsFit
<1> QED BY <1>1, <1>4, <1>6 DEF GroupsSound

LEMMA NextGroups == GroupsInv /\ [Next]_db => GroupsInv'
<1> SUFFICES ASSUME GroupsInv, [Next]_db
             PROVE  GroupsSound(db')
  BY DEF GroupsInv
<1>1. GroupsSound(db)
  BY DEF GroupsInv
<1>2. CASE Connect
  BY <1>1, <1>2, NothingToRepair DEF Connect
<1>3. ASSUME NEW base \in Ref, NEW fin \in Ref, NEW s \in Deliveries(base) \cup {<< >>},
             SubmitHot(base, s, fin)
      PROVE  GroupsSound(db')
  <2>1. Batch(base, s)
    BY DEF Batch
  <2>2. IsBase(db, base) /\ On(fin, LastOf(base, s))
    BY <1>3 DEF SubmitHot, TransactHot2Asserts
  <2>3. db' = TransactHot2(db, [finalizedHead |-> fin, baseHead |-> base,
                                newBlocks |-> s])
    BY <1>3 DEF SubmitHot
  <2> QED BY <1>1, <2>1, <2>2, <2>3, TransactHot2Groups
<1>4. ASSUME NEW base \in Ref, NEW s \in Deliveries(base), SubmitFinal(base, s)
      PROVE  GroupsSound(db')
  <2>1. db.status = base
    BY <1>4 DEF SubmitFinal, TransactAsserts
  <2>2. db' = Transact(db, [prevHead |-> base, nextHead |-> LastOf(base, s),
                            newBlocks |-> s])
    BY <1>4 DEF SubmitFinal
  <2> QED BY <1>1, <2>1, <2>2, TransactGroups
<1>5. CASE UNCHANGED db
  BY <1>1, <1>5
<1> QED BY <1>2, <1>3, <1>4, <1>5 DEF Next

(***************************************************************************)
(* For every GroupDivisor and every size of batches: the hot rows climb the *)
(* chain of the head, each with the blocks that only it undoes, and every    *)
(* template is filed under the row of its block or stays for good.           *)
(***************************************************************************)
THEOREM GroupsInvAlways == Spec => []GroupsInv
<1>1. Init => GroupsInv
  BY InitGroups
<1>2. GroupsInv /\ [Next]_db => GroupsInv'
  BY NextGroups
<1> QED BY <1>1, <1>2, PTL DEF Spec

(***************************************************************************)
(* transactHot2() with groups: a fork back to any row leaves blocks of that *)
(* row's chain only, once and in order, with exactly their templates, and    *)
(* connect() finds no orphan in the registry.                                *)
(***************************************************************************)
THEOREM GroupsAlwaysKeepOneChain == Spec => []KeepsOneChain
<1>1. GroupsInv => KeepsOneChain
  <2>1. SUFFICES ASSUME GroupsSound(db)
                 PROVE  KeepsOneChain
    BY DEF GroupsInv
  <2>2. ASSUME NEW k \in Positions(db), NEW r, r = RollbackTo(db, k)
        PROVE  /\ OnlyChain(SubSeq(db.applied, 1, MarkAt(db, k)), RefAt(db, k))
               /\ {t.block : t \in r.templates}
                      = {r.applied[i] : i \in 1..Len(r.applied)} \cap Registering
    <3>1. /\ GroupsSound(r) /\ HeadOf(r) = RefAt(db, k)
          /\ r.applied = SubSeq(db.applied, 1, MarkAt(db, k))
      BY <2>1, <2>2, GroupsRolledBack
    <3>2. OnlyChain(r.applied, HeadOf(r)) /\ RegistryFits(r)
      BY <3>1 DEF GroupsSound, GroupsFit
    <3>3. ASSUME NEW t \in r.templates
          PROVE  t.block \in {r.applied[i] : i \in 1..Len(r.applied)} \cap Registering
      BY <3>2 DEF RegistryFits
    <3>4. ASSUME NEW i \in 1..Len(r.applied), r.applied[i] \in Registering
          PROVE  r.applied[i] \in {t.block : t \in r.templates}
      BY <3>2, <3>4 DEF RegistryFits
    <3> QED BY <3>1, <3>2, <3>3, <3>4
  <2>3. RepairOrphans(db) = db
    BY <2>1, NothingToRepair
  <2> QED BY <2>2, <2>3 DEF KeepsOneChain, RollbackKeepsOneChain, TemplatesFollowBlocks
<1> QED BY <1>1, GroupsInvAlways, PTL

(***************************************************************************)
(* connect() and getState() never fail their sanity check on a state that   *)
(* the transactions have left, with groups or without.                       *)
(***************************************************************************)
THEOREM ConnectAssertsAlwaysHold == Spec => []ConnectAssertsHold
<1>1. GroupsInv => ConnectAssertsHold
  <2>1. SUFFICES ASSUME GroupsSound(db), NEW j \in Positions(db), NEW k \in Positions(db), j < k
                 PROVE  Height(RefAt(db, j)) < Height(RefAt(db, k))
    BY DEF GroupsInv, ConnectAssertsHold
  <2>2. Len(db.hot) \in Nat
    BY <2>1, GroupsType DEF GroupsSound
  <2>3. j \in 0..Len(db.hot) /\ k \in 1..Len(db.hot)
    BY <2>1, <2>2 DEF Positions
  <2>4. RefAt(db, k) = db.hot[k].ref
    BY <2>3 DEF RefAt
  <2>5. CASE j = 0
    BY <2>1, <2>3, <2>4, <2>5 DEF RefAt, GroupsSound
  <2>6. CASE j # 0
    <3>1. j \in 1..Len(db.hot) /\ RefAt(db, j) = db.hot[j].ref
      BY <2>2, <2>3, <2>6 DEF RefAt
    <3> QED BY <2>1, <2>3, <2>4, <3>1 DEF GroupsSound, GroupsFit, RowsClimb
  <2> QED BY <2>5, <2>6
<1> QED BY <1>1, GroupsInvAlways, PTL
=============================================================================
