---------------------------- MODULE RunnerProofs ----------------------------
(***************************************************************************)
(* Proofs about the older processors.  About Runner, for every tree of       *)
(* blocks, every first block, number of confirmations and size of batches,   *)
(* and every bound on forks, crashes and failed requests.  About Archive,    *)
(* for all chains and disjoint ranges, every size of top directories, and    *)
(* every bound on crashes and changes of the finalized chain.                *)
(***************************************************************************)
EXTENDS MCRunner, BlockTreeProofs, FiniteSetTheorems

------------------------------------------------------------------------------
(***************************************************************************)
(* Blocks by their heights.                                                 *)
(***************************************************************************)

\* The height is that of a block of the chain, and At() finds it.
LEMMA AtWorks ==
    ASSUME NEW t \in Ref, NEW h \in -1..Height(t)
    PROVE  /\ At(t, h) \in Ref
           /\ Height(At(t, h)) = h
           /\ On(At(t, h), t)
           /\ h >= 0 => At(t, h) \in Block
<1>1. CASE h < 0
  <2>1. h = -1 /\ At(t, h) = Origin
    BY <1>1, HeightType DEF At
  <2>2. Origin \in Ref /\ Height(Origin) = -1
    BY TreeAssumption DEF Ref, Height
  <2> QED BY <2>1, <2>2 DEF On
<1>2. CASE h >= 0
  <2>1. h + 1 \in 1..Len(Path[t])
    BY <1>2, HeightType DEF Height
  <2>2. At(t, h) = Path[t][h + 1]
    BY <1>2 DEF At
  <2> QED BY <2>1, <2>2, PathBlocks DEF Height
<1> QED BY <1>1, <1>2, HeightType

LEMMA AtAncestor ==
    ASSUME NEW a \in Ref, NEW t \in Ref, On(a, t)
    PROVE  /\ Height(a) \in -1..Height(t)
           /\ At(t, Height(a)) = a
<1>1. Height(a) \in Int /\ Height(t) \in Int /\ -1 <= Height(a) /\ Height(a) <= Height(t)
  BY HeightType, AncestorHeight DEF Height
<1>2. Height(a) \in -1..Height(t)
  BY <1>1
<1> QED BY <1>2, AtWorks, AncestorUnique

\* A chain and one it begins with have the same blocks, as far as the latter goes.
LEMMA AtShared ==
    ASSUME NEW s \in Ref, NEW t \in Ref, On(s, t), NEW h \in -1..Height(s)
    PROVE  At(t, h) = At(s, h)
<1>1. h \in -1..Height(t)
  BY HeightType, AncestorHeight
<1>2. /\ At(s, h) \in Ref /\ At(t, h) \in Ref
      /\ Height(At(s, h)) = h /\ Height(At(t, h)) = h
      /\ On(At(s, h), s) /\ On(At(t, h), t)
  BY <1>1, AtWorks
<1>3. On(At(s, h), t)
  BY <1>2, AncestorTransitive
<1> QED BY <1>2, <1>3, AncestorUnique

\* Of two blocks of a chain, the higher one is built on the lower.
LEMMA AtOrder ==
    ASSUME NEW t \in Ref, NEW h \in -1..Height(t), NEW a \in Ref, On(a, t), Height(a) <= h
    PROVE  On(a, At(t, h))
BY AtWorks, AncestorLinear

LEMMA ParentIs ==
    ASSUME NEW b \in Block
    PROVE  /\ b \in Ref /\ Height(b) \in Nat
           /\ Parent(b) \in Ref
           /\ Height(Parent(b)) = Height(b) - 1
           /\ On(Parent(b), b)
           /\ Parent(b) = At(b, Height(b) - 1)
<1>1. b \in Ref /\ b # Origin
  BY TreeAssumption DEF Ref
<1>2. Len(Path[b]) \in Nat /\ Len(Path[b]) > 0
  BY <1>1, HeightType
<1>3. Height(b) \in Nat /\ Height(b) - 1 \in -1..Height(b)
  BY <1>2 DEF Height
<1>4. Parent(b) = At(b, Height(b) - 1)
  <2>1. CASE Len(Path[b]) > 1
    <3>1. ~(Height(b) - 1 < 0) /\ (Height(b) - 1) + 1 = Len(Path[b]) - 1
      BY <1>2, <2>1 DEF Height
    <3> QED BY <2>1, <3>1 DEF Parent, At
  <2>2. CASE ~(Len(Path[b]) > 1)
    <3>1. Height(b) - 1 < 0
      BY <1>2, <2>2 DEF Height
    <3> QED BY <2>2, <3>1 DEF Parent, At
  <2> QED BY <2>1, <2>2
<1> QED BY <1>1, <1>3, <1>4, AtWorks

\* The walk back to the local chain ends at the highest block that both chains have.
LEMMA CommonIs ==
    ASSUME NEW r \in Ref, NEW t \in Ref
    PROVE  /\ Common(r, t) \in Ref
           /\ On(Common(r, t), r) /\ On(Common(r, t), t)
           /\ \A a \in Ref : On(a, r) /\ On(a, t) => Height(a) <= Height(Common(r, t))
<1> DEFINE shared == {h \in -1..Height(r) : On(At(r, h), t)}
           below == {n \in 0..(Height(r) + 1) : Height(r) - n \in shared}
           high == CHOOSE h \in shared : \A k \in shared : k <= h
<1>1. Height(r) \in Int /\ -1 <= Height(r)
  BY HeightType DEF Height
<1>2. -1 \in shared
  BY <1>1 DEF At, On
<1>3. Height(r) + 1 \in below
  BY <1>1, <1>2
<1>4. PICK n \in below : \A m \in below : n <= m
  <2>1. below \subseteq Nat
    BY <1>1
  <2> HIDE DEF below
  <2> QED BY <1>3, <2>1, LeastNatural
<1>5. Height(r) - n \in shared /\ \A k \in shared : k <= Height(r) - n
  <2>1. SUFFICES ASSUME NEW k \in shared
                 PROVE  k <= Height(r) - n
    BY <1>4
  <2>2. k \in Int /\ -1 <= k /\ k <= Height(r)
    BY <1>1
  <2>3. Height(r) - k \in 0..(Height(r) + 1) /\ Height(r) - (Height(r) - k) = k
    BY <1>1, <2>2
  <2>4. Height(r) - k \in below
    BY <2>1, <2>3
  <2> QED BY <1>1, <1>4, <2>2, <2>4
<1>6. high \in shared /\ \A k \in shared : k <= high
  BY <1>5
<1>7. Common(r, t) = At(r, high)
  BY DEF Common
<1>8. /\ At(r, high) \in Ref /\ On(At(r, high), r) /\ On(At(r, high), t)
      /\ Height(At(r, high)) = high
  BY <1>6, AtWorks
<1>9. ASSUME NEW a \in Ref, On(a, r), On(a, t)
      PROVE  Height(a) <= high
  <2>1. Height(a) \in shared
    BY <1>9, AtAncestor
  <2> QED BY <1>6, <2>1
<1> QED BY <1>7, <1>8, <1>9

------------------------------------------------------------------------------
(***************************************************************************)
(* What is mapped.                                                          *)
(***************************************************************************)

\* A rollback leaves a prefix, and all that is at or below the height.
LEMMA UpToHeightIs ==
    ASSUME NEW s \in Seq(Block), NEW h \in Int
    PROVE  \E n \in 0..Len(s) :
               /\ UpToHeight(s, h) = SubSeq(s, 1, n)
               /\ \A i \in 1..n : Height(s[i]) <= h
               /\ n < Len(s) => Height(s[n + 1]) > h
<1> DEFINE Above == {n \in 0..Len(s) : n < Len(s) => Height(s[n + 1]) > h}
<1>1. Len(s) \in Above
  BY SMT
<1>2. PICK n \in Above : \A m \in Above : n <= m
  <2>1. Above \subseteq Nat
    OBVIOUS
  <2> HIDE DEF Above
  <2> QED BY <1>1, <2>1, LeastNatural
<1>3. ASSUME NEW i \in 1..n
      PROVE  Height(s[i]) <= h
  <2>1. i - 1 \notin Above
    BY <1>2, SMT
  <2>2. s[i] \in Ref
    BY <1>2, SMT DEF Ref
  <2>3. Height(s[i]) \in Int
    BY <2>2, HeightType
  <2>4. i - 1 \in 0..Len(s) /\ i - 1 < Len(s) /\ (i - 1) + 1 = i
    BY <1>2
  <2> QED BY <2>1, <2>3, <2>4
<1>4. n \in 0..Len(s) /\ (n < Len(s) => Height(s[n + 1]) > h)
  BY <1>2
<1> QED BY <1>3, <1>4 DEF UpToHeight

\* A slice of a chain that ends in the block at height to.
LEMMA SliceIs ==
    ASSUME NEW t \in Ref, NEW last \in Ref, On(last, t), NEW f \in Nat
    PROVE  LET s == Slice(t, f, Height(last))
           IN  /\ s \in Seq(Block)
               /\ Len(s) = IF f <= Height(last) THEN Height(last) - f + 1 ELSE 0
               /\ \A i \in 1..Len(s) : /\ On(s[i], last)
                                       /\ Height(s[i]) = f + i - 1
<1> DEFINE s == Slice(t, f, Height(last))
           to == Height(last)
<1>1. /\ Path[t] \in Seq(Block) /\ Len(Path[t]) \in Nat
      /\ to \in -1..Height(t) /\ Height(t) = Len(Path[t]) - 1
  BY HeightType, AtAncestor DEF Height
<1>2. s = SubSeq(Path[t], f + 1, to + 1)
  BY <1>1 DEF Slice, Max2
<1> HIDE DEF s, to
<1>3. CASE f <= to
  <2>1. /\ f + 1 \in 1..Len(Path[t]) /\ to + 1 \in (f + 1)..Len(Path[t])
    BY <1>1, <1>3
  <2>2. /\ s \in Seq(Block) /\ Len(s) = to - f + 1
        /\ \A i \in 1..(to - f + 1) : s[i] = Path[t][f + i]
    <3>1. f + 1 \in 1..Len(Path[t]) + 1 /\ to + 1 \in (f + 1) - 1..Len(Path[t])
      BY <1>1, <2>1
    <3>2. /\ SubSeq(Path[t], f + 1, to + 1) \in Seq(Block)
          /\ Len(SubSeq(Path[t], f + 1, to + 1))
                 = IF f + 1 <= to + 1 THEN (to + 1) - (f + 1) + 1 ELSE 0
          /\ \A i \in 1..((to + 1) - (f + 1) + 1) :
                 SubSeq(Path[t], f + 1, to + 1)[i] = Path[t][(f + 1) + i - 1]
      BY <1>1, <3>1, SubSeqProperties
    <3>3. f + 1 <= to + 1 /\ (to + 1) - (f + 1) + 1 = to - f + 1
      BY <1>1, <1>3
    <3>4. s \in Seq(Block) /\ Len(s) = to - f + 1
          /\ \A i \in 1..(to - f + 1) : s[i] = Path[t][(f + 1) + i - 1]
      BY <1>2, <3>2, <3>3, Zenon
    <3>5. \A i \in 1..(to - f + 1) : (f + 1) + i - 1 = f + i
      BY <1>1
    <3> QED BY <3>4, <3>5
  <2>3. ASSUME NEW i \in 1..(to - f + 1)
        PROVE  On(s[i], last) /\ Height(s[i]) = f + i - 1
    <3>1. f + i \in 1..Len(Path[t])
      BY <1>1, <1>3
    <3>2. s[i] \in Ref /\ On(s[i], t) /\ Height(s[i]) = f + i - 1
      BY <2>2, <3>1, PathBlocks DEF Height
    <3>3. Height(s[i]) <= Height(last)
      BY <1>1, <1>3, <3>2 DEF to
    <3> QED BY <3>2, <3>3, AncestorLinear
  <2> QED BY <1>3, <2>2, <2>3 DEF s, to
<1>4. CASE ~(f <= to)
  <2>1. s \in Seq(Block) /\ Len(s) = 0
    BY <1>1, <1>2, <1>4
  <2> QED BY <1>4, <2>1 DEF s, to
<1> QED BY <1>3, <1>4

\* The blocks above a common base give way to those of another chain: what is mapped is
\* that chain, and what is mapped up to the base stays.
LEMMA SpliceReflects ==
    ASSUME NEW m \in Seq(Block), NEW old \in Ref, Reflects(m, old),
           NEW base \in Ref, On(base, old),
           NEW t \in Ref, NEW new \in Ref, On(new, t), On(base, new),
           NEW f, f = Max2(From, Height(base) + 1)
    PROVE  LET s == UpToHeight(m, Height(base)) \o Slice(t, f, Height(new))
           IN  /\ s \in Seq(Block)
               /\ Reflects(s, new)
               /\ \A i \in 1..Len(m) : Height(m[i]) <= Height(base)
                                           => i <= Len(s) /\ s[i] = m[i]
<1> DEFINE up == UpToHeight(m, Height(base))
           sl == Slice(t, f, Height(new))
           s == up \o sl
           hb == Height(base)
<1>1. hb \in Int /\ -1 <= hb /\ Height(new) \in Int /\ From \in Nat
  BY HeightType, RunnerAssumption DEF Height
<1>2. f \in Nat /\ f >= From /\ f > hb /\ (f = From \/ f = hb + 1)
  BY <1>1 DEF Max2
<1>3. PICK n \in 0..Len(m) :
           /\ up = SubSeq(m, 1, n)
           /\ \A i \in 1..n : Height(m[i]) <= hb
           /\ n < Len(m) => Height(m[n + 1]) > hb
  BY <1>1, UpToHeightIs
<1>4. /\ up \in Seq(Block) /\ Len(up) = n
      /\ \A i \in 1..n : up[i] = m[i]
  BY <1>3
<1>5. /\ sl \in Seq(Block)
      /\ Len(sl) = IF f <= Height(new) THEN Height(new) - f + 1 ELSE 0
      /\ \A i \in 1..Len(sl) : On(sl[i], new) /\ Height(sl[i]) = f + i - 1
  BY <1>2, SliceIs
<1> HIDE DEF up, sl
<1>6. /\ s \in Seq(Block) /\ Len(s) = n + Len(sl)
      /\ \A i \in 1..n : s[i] = m[i]
      /\ \A j \in 1..Len(sl) : s[n + j] = sl[j]
  <2>1. /\ up \o sl \in Seq(Block) /\ Len(up \o sl) = Len(up) + Len(sl)
        /\ \A i \in 1..Len(up) : (up \o sl)[i] = up[i]
        /\ \A j \in 1..Len(sl) : (up \o sl)[Len(up) + j] = sl[j]
    <3>1. up \in Seq(Block) /\ sl \in Seq(Block)
      BY <1>4, <1>5
    <3> QED BY <3>1, ConcatPieces
  <2> QED BY <1>4, <2>1
<1>7. Len(sl) \in Nat /\ n \in Nat /\ n <= Len(m) /\ Len(m) \in Nat
  BY <1>3, <1>5
<1> HIDE DEF s
<1>8. /\ \A i \in 1..Len(m) : m[i] \in Ref /\ Height(m[i]) \in Int /\ On(m[i], old)
      /\ \A i, j \in 1..Len(m) : i < j => Height(m[i]) < Height(m[j])
      /\ \A b \in Relevant : On(b, old) => \E i \in 1..Len(m) : m[i] = b
  <2>1. \A i \in 1..Len(m) : m[i] \in Ref
    BY DEF Ref
  <2> QED BY <2>1, HeightType DEF Reflects, OnlyChain, Ascending
<1>9. ASSUME NEW i \in 1..Len(m), Height(m[i]) <= hb
      PROVE  i \in 1..n
  <2>1. SUFFICES ASSUME ~(i <= n)
                 PROVE  FALSE
    BY <1>7
  <2>2. n + 1 \in 1..Len(m) /\ n < Len(m)
    BY <1>7, <2>1
  <2>3. Height(m[n + 1]) > hb /\ Height(m[n + 1]) \in Int /\ Height(m[i]) \in Int
    BY <1>3, <1>8, <2>2
  <2>4. n + 1 = i \/ Height(m[n + 1]) < Height(m[i])
    BY <1>7, <1>8, <2>1, <2>2
  <2> QED BY <1>1, <1>9, <2>3, <2>4
<1>10. \A i \in 1..Len(s) : i \in 1..n \/ (i - n \in 1..Len(sl) /\ i = n + (i - n))
  BY <1>6, <1>7
<1>11. ASSUME NEW i \in 1..Len(s)
       PROVE  /\ On(s[i], new) /\ Height(s[i]) \in Int
              /\ i \in 1..n => Height(s[i]) <= hb
              /\ i \notin 1..n => Height(s[i]) = f + (i - n) - 1
  <2>1. CASE i \in 1..n
    <3>1. s[i] = m[i] /\ i \in 1..Len(m) /\ Height(m[i]) <= hb
      BY <1>3, <1>6, <1>7, <2>1
    <3>2. On(m[i], base)
      BY <1>8, <3>1, AncestorLinear
    <3> QED BY <1>8, <2>1, <3>1, <3>2, AncestorTransitive
  <2>2. CASE i \notin 1..n
    <3>1. i - n \in 1..Len(sl) /\ s[i] = sl[i - n]
      BY <1>6, <1>10, <2>2
    <3>2. f + (i - n) - 1 \in Int
      BY <1>2, <1>7
    <3> QED BY <1>5, <2>2, <3>1, <3>2
  <2> QED BY <2>1, <2>2
<1>12. ASSUME NEW i \in 1..Len(s), NEW j \in 1..Len(s), i < j
       PROVE  Height(s[i]) < Height(s[j])
  <2>1. CASE i \in 1..n /\ j \in 1..n
    <3>1. s[i] = m[i] /\ s[j] = m[j] /\ i \in 1..Len(m) /\ j \in 1..Len(m)
      BY <1>6, <1>7, <2>1
    <3> QED BY <1>8, <1>12, <3>1
  <2>2. CASE i \in 1..n /\ j \notin 1..n
    <3>1. Height(s[i]) <= hb /\ Height(s[j]) = f + (j - n) - 1 /\ Height(s[i]) \in Int
      BY <1>11, <2>2
    <3>2. j - n >= 1
      BY <1>10, <2>2
    <3> QED BY <1>1, <1>2, <1>7, <3>1, <3>2
  <2>3. CASE i \notin 1..n
    <3>1. j \notin 1..n
      BY <1>7, <1>12, <2>3
    <3>2. Height(s[i]) = f + (i - n) - 1 /\ Height(s[j]) = f + (j - n) - 1
      BY <1>11, <2>3, <3>1
    <3> QED BY <1>2, <1>7, <1>12, <3>2
  <2> QED BY <2>1, <2>2, <2>3
<1>13. OnlyChain(s, new)
  BY <1>11, <1>12 DEF OnlyChain, Ascending
<1>14. ASSUME NEW b \in Relevant, On(b, new)
       PROVE  \E i \in 1..Len(s) : s[i] = b
  <2>1. b \in Ref /\ Height(b) \in Int /\ Height(b) >= From
    BY RelevantAssumption, RunnerAssumption, HeightType DEF Ref
  <2>2. CASE Height(b) <= hb
    <3>1. On(b, base)
      BY <1>14, <2>1, <2>2, AncestorLinear
    <3>2. On(b, old)
      BY <2>1, <3>1, AncestorTransitive
    <3>3. PICK i \in 1..Len(m) : m[i] = b
      BY <1>8, <3>2
    <3>4. i \in 1..n
      BY <1>9, <2>2, <3>3
    <3>5. i \in 1..Len(s) /\ s[i] = b
      BY <1>6, <1>7, <3>3, <3>4
    <3> QED BY <3>5
  <2>3. CASE ~(Height(b) <= hb)
    <3>1. f <= Height(b) /\ Height(b) <= Height(new)
      BY <1>1, <1>2, <1>14, <2>1, <2>3, AncestorHeight
    <3> DEFINE j == Height(b) - f + 1
    <3>2. j \in 1..Len(sl) /\ f + j - 1 = Height(b)
      <4>1. f \in Int /\ Height(b) \in Int /\ Height(new) \in Int /\ Len(sl) = Height(new) - f + 1
        BY <1>1, <1>2, <1>5, <2>1, <3>1
      <4> QED BY <3>1, <4>1
    <3> HIDE DEF j
    <3>3. On(sl[j], new) /\ Height(sl[j]) = Height(b) /\ sl[j] \in Ref
      BY <1>5, <3>2 DEF Ref
    <3>4. sl[j] = b
      BY <1>14, <2>1, <3>3, AncestorUnique
    <3>5. n + j \in 1..Len(s) /\ s[n + j] = b
      BY <1>6, <1>7, <3>2, <3>4
    <3> QED BY <3>5
  <2> QED BY <2>2, <2>3
<1>15. Reflects(s, new)
  BY <1>13, <1>14 DEF Reflects
<1>16. \A i \in 1..Len(m) : Height(m[i]) <= hb => i <= Len(s) /\ s[i] = m[i]
  BY <1>6, <1>7, <1>9
<1> QED BY <1>6, <1>15, <1>16 DEF s, up, sl

------------------------------------------------------------------------------
(***************************************************************************)
(* Transactions.                                                            *)
(***************************************************************************)

\* What the database promises of a step: what is final stays so, and what is mapped up to
\* the finalized block stays in place.
KeepsFinal ==
    /\ On(db.final, db'.final)
    /\ \A i \in 1..Len(db.mapped) :
           Height(db.mapped[i]) <= Height(db.final)
               => i <= Len(db'.mapped) /\ db'.mapped[i] = db.mapped[i]

\* A transaction that replaces the blocks above a base, which is not below the finalized
\* block, is one the database promises.
LEMMA Replaced ==
    ASSUME DatabaseFits, NEW base \in Ref, NEW t \in Ref, NEW new \in Ref, NEW fin \in Ref,
           On(base, db.head), On(new, t), On(base, new), On(db.final, base),
           On(db.final, fin), On(fin, new), On(fin, node'.fin), Height(new) <= Height(node'.tip),
           NEW f, f = Max2(From, Height(base) + 1),
           db' = [final |-> fin, head |-> new,
                  mapped |-> UpToHeight(db.mapped, Height(base)) \o Slice(t, f, Height(new))]
    PROVE  DatabaseFits' /\ KeepsFinal
<1>1. /\ db.final \in Ref /\ db.head \in Ref /\ db.mapped \in Seq(Block)
      /\ Reflects(db.mapped, db.head) /\ Height(db.final) <= Height(base)
  BY AncestorHeight DEF DatabaseFits
<1>2. /\ db'.final = fin /\ db'.head = new
      /\ db'.mapped = UpToHeight(db.mapped, Height(base)) \o Slice(t, f, Height(new))
      /\ db' = [final |-> db'.final, head |-> db'.head, mapped |-> db'.mapped]
  OBVIOUS
<1>7. /\ db.mapped \in Seq(Block) /\ db.head \in Ref /\ Reflects(db.mapped, db.head)
      /\ base \in Ref /\ On(base, db.head) /\ t \in Ref /\ new \in Ref /\ On(new, t)
      /\ On(base, new) /\ f = Max2(From, Height(base) + 1)
  BY <1>1
<1> DEFINE m == UpToHeight(db.mapped, Height(base)) \o Slice(t, f, Height(new))
<1>3. /\ m \in Seq(Block)
      /\ Reflects(m, new)
      /\ \A i \in 1..Len(db.mapped) : Height(db.mapped[i]) <= Height(base)
             => i <= Len(m) /\ m[i] = db.mapped[i]
  <2>1. ASSUME NEW k, k = db.mapped
        PROVE  LET s == UpToHeight(k, Height(base)) \o Slice(t, f, Height(new))
               IN  /\ s \in Seq(Block)
                   /\ Reflects(s, new)
                   /\ \A i \in 1..Len(k) : Height(k[i]) <= Height(base)
                                           => i <= Len(s) /\ s[i] = k[i]
    <3>1. k \in Seq(Block) /\ Reflects(k, db.head)
      BY <1>7, <2>1
    <3> QED BY <1>7, <3>1, SpliceReflects
  <2> QED BY <2>1
<1> HIDE DEF m
<1>4. DatabaseFits'
  <2>1. db' \in [final : Ref, head : Ref, mapped : Seq(Block)] /\ db'.mapped = m
    BY <1>2, <1>3 DEF m
  <2> QED BY <1>2, <1>3, <2>1 DEF DatabaseFits
<1>5. \A i \in 1..Len(db.mapped) : Height(db.mapped[i]) <= Height(db.final)
             => Height(db.mapped[i]) <= Height(base)
  <2>1. \A i \in 1..Len(db.mapped) : db.mapped[i] \in Ref
    BY <1>1 DEF Ref
  <2> QED BY <1>1, <2>1, HeightType
<1>6. db'.mapped = m
  BY <1>2 DEF m
<1> QED BY <1>2, <1>3, <1>4, <1>5, <1>6 DEF KeepsFinal

\* transact() on top of the final block.
LEMMA Transacted ==
    ASSUME DatabaseFits, NEW t \in Ref, NEW next \in Ref, On(next, t), On(db.final, next),
           NEW f, f = Max2(From, Height(db.final) + 1),
           Transact(Slice(t, f, Height(next)), next),
           On(next, node'.fin), On(node'.fin, node'.tip), node'.fin \in Ref, node'.tip \in Ref
    PROVE  DatabaseFits' /\ KeepsFinal
<1>1. db.final \in Ref /\ On(db.final, db.head) /\ On(db.final, db.final) /\ On(next, next)
  BY AncestorReflexive DEF DatabaseFits
<1>2. On(next, node'.tip) /\ Height(next) <= Height(node'.tip)
  BY AncestorTransitive, AncestorHeight
<1> QED BY <1>1, <1>2, Replaced DEF Transact

\* transactHot2() from a base on.
LEMMA TransactedHot ==
    ASSUME DatabaseFits, NEW base \in Ref, NEW chain \in [final : Ref, head : Ref],
           On(base, db.head), On(base, chain.head), On(db.final, base),
           On(db.final, chain.final), On(chain.final, chain.head), On(chain.final, node'.fin),
           Height(chain.head) <= Height(node'.tip),
           TransactHot(base, chain)
    PROVE  DatabaseFits' /\ KeepsFinal
<1>1. chain.head \in Ref /\ chain.final \in Ref /\ On(chain.head, chain.head)
  BY AncestorReflexive
<1> QED BY <1>1, Replaced DEF TransactHot

------------------------------------------------------------------------------
(***************************************************************************)
(* The node.                                                                *)
(***************************************************************************)
LEMMA ConfirmedIs ==
    ASSUME NEW h \in Int
    PROVE  /\ Confirmed(h) \in Nat
           /\ Confirmed(h) <= (IF h < 0 THEN 0 ELSE h)
           /\ \A k \in Int : h <= k => Confirmed(h) <= Confirmed(k)
BY RunnerAssumption DEF Confirmed, Max2

\* What the runner knows of the node stays true when the node goes on.
LEMMA NodeGoes ==
    ASSUME RunnerInv, NodeFits', On(node.fin, node'.fin), Height(node.tip) <= Height(node'.tip),
           node.arch <= node'.arch, UNCHANGED << db, runVars, broken >>
    PROVE  RunnerInv'
<1> USE DEF RunnerInv
<1>1. /\ node.fin \in Ref /\ node.tip \in Ref /\ node'.fin \in Ref /\ node'.tip \in Ref
      /\ node.arch \in Int /\ node'.arch \in Int
  BY DEF NodeFits, Ref
<1>2. /\ Height(node.fin) \in Int /\ Height(node'.fin) \in Int
      /\ Height(node.tip) \in Int /\ Height(node'.tip) \in Int
      /\ Height(node.fin) <= Height(node'.fin)
  BY <1>1, HeightType, AncestorHeight
<1>3. UNCHANGED << db, phase, state, cold, target, heads, goto, broken >>
  BY DEF runVars
<1>4. Confirmed(Height(node.tip)) <= Confirmed(Height(node'.tip))
      /\ Confirmed(Height(node.tip)) \in Nat /\ Confirmed(Height(node'.tip)) \in Nat
  BY <1>2, ConfirmedIs
<1>5. DatabaseFits'
  <2>1. On(db.final, node'.fin)
    BY <1>1, AncestorTransitive DEF DatabaseFits
  <2>2. Height(db.head) \in Int
    BY HeightType DEF DatabaseFits
  <2> QED BY <1>2, <1>3, <2>1, <2>2 DEF DatabaseFits
<1>6. ProcessFits'
  BY <1>3 DEF ProcessFits
<1>7. ColdFits'
  <2>1. /\ cold.from \in Int /\ cold.beg \in Int /\ cold.top \in Int /\ cold.min \in Int
    BY DEF ColdFits
  <2>2. NextRequested' = NextRequested
    BY <1>3 DEF NextRequested
  <2> QED BY <1>1, <1>2, <1>3, <2>1, <2>2 DEF ColdFits
<1>8. TargetFits'
  <2>1. NextRequested' = NextRequested
    BY <1>3 DEF NextRequested
  <2> QED BY <1>2, <1>3, <1>4, <2>1 DEF TargetFits
<1>9. ASSUME NEW head \in Ref, Height(head) \in Nat, Vouched(head)
      PROVE  On(At(head, Confirmed(Height(head))), node'.fin)
  <2>1. Confirmed(Height(head)) \in -1..Height(head)
    BY <1>9, ConfirmedIs
  <2>2. At(head, Confirmed(Height(head))) \in Ref
    BY <2>1, AtWorks
  <2> QED BY <1>1, <1>9, <2>2, AncestorTransitive DEF Vouched
<1>10. ASSUME NEW head \in Ref, head # Origin
       PROVE  Height(head) \in Nat
  BY <1>10, ParentIs DEF Ref
<1>11. HeadsFit'
  <2>1. CASE heads.queue # Origin
    <3>1. heads.queue \in Ref /\ Height(heads.queue) \in Nat
      BY <1>10, <2>1 DEF HeadsFit
    <3>2. On(At(heads.queue, Confirmed(Height(heads.queue))), node'.fin)
      BY <1>9, <2>1, <3>1 DEF HeadsFit
    <3> QED BY <1>2, <1>3, <2>1, <3>1, <3>2 DEF HeadsFit, Vouched
  <2> QED BY <1>3, <2>1 DEF HeadsFit
<1>12. GotoFits'
  <2>1. CASE goto # NoGoto /\ goto.hash # Origin
    <3>1. goto.hash \in Ref /\ Height(goto.hash) \in Nat
      BY <1>10, <2>1 DEF GotoFits
    <3>2. On(At(goto.hash, Confirmed(Height(goto.hash))), node'.fin)
      BY <1>9, <2>1, <3>1 DEF GotoFits
    <3> QED BY <1>2, <1>3, <2>1, <3>1, <3>2 DEF GotoFits, Vouched
  <2>2. CASE ~(goto # NoGoto /\ goto.hash # Origin)
    BY <1>2, <1>3, <2>2 DEF GotoFits
  <2> QED BY <2>1, <2>2
<1> QED BY <1>5, <1>6, <1>7, <1>8, <1>11, <1>12

\* A new tip, which is not lower and keeps what is final.
LEMMA TipMoves ==
    ASSUME RunnerInv, NEW b \in Block, On(node.fin, b), Height(node.tip) <= Height(b),
           node' = Moved(b), UNCHANGED << db, runVars, broken >>
    PROVE  RunnerInv'
<1> DEFINE c == Confirmed(Height(b))
           deep == At(b, c)
           fin == IF Height(deep) > Height(node.fin) THEN deep ELSE node.fin
<1>1. /\ node \in [tip : Block, fin : Block, arch : Int, news : BOOLEAN]
      /\ Confirmed(Height(node.tip)) <= Height(node.fin)
      /\ node.arch <= Height(node.fin)
  BY DEF RunnerInv, NodeFits
<1>2. /\ b \in Ref /\ Height(b) \in Nat /\ node.fin \in Ref /\ node.tip \in Ref
      /\ Height(node.fin) \in Int
  BY <1>1, ParentIs
<1>3. c \in 0..Height(b) /\ c \in -1..Height(b)
  BY <1>2, ConfirmedIs
<1> HIDE DEF c
<1>4. deep \in Block /\ deep \in Ref /\ Height(deep) = c /\ On(deep, b)
  BY <1>2, <1>3, AtWorks
<1> HIDE DEF deep
<1>5. /\ fin \in Block /\ On(fin, b) /\ On(node.fin, fin) /\ c <= Height(fin)
      /\ Height(node.fin) <= Height(fin)
  <2>1. CASE Height(deep) > Height(node.fin)
    <3>1. fin = deep /\ Height(node.fin) <= Height(deep)
      BY <1>2, <1>3, <1>4, <2>1
    <3> QED BY <1>2, <1>3, <1>4, <3>1, AncestorLinear
  <2>2. CASE ~(Height(deep) > Height(node.fin))
    <3>1. fin = node.fin
      BY <2>2
    <3> QED BY <1>1, <1>2, <1>3, <1>4, <2>2, <3>1, AncestorReflexive
  <2> QED BY <2>1, <2>2
<1>6. node' = [node EXCEPT !.tip = b, !.news = (phase = "hot"), !.fin = fin]
  BY DEF Moved, fin, deep, c, Confirmed
<1> HIDE DEF fin
<1>7. /\ node' \in [tip : Block, fin : Block, arch : Int, news : BOOLEAN]
      /\ node'.tip = b /\ node'.fin = fin /\ node'.arch = node.arch
  BY <1>1, <1>5, <1>6
<1>8. NodeFits'
  <2>1. Height(fin) \in Int
    BY <1>5, ParentIs
  <2> QED BY <1>1, <1>2, <1>5, <1>7, <2>1 DEF NodeFits, c
<1> QED BY <1>1, <1>2, <1>5, <1>7, <1>8, NodeGoes

LEMMA NewBlockGoes ==
    ASSUME RunnerInv, NewBlock
    PROVE  RunnerInv' /\ db' = db
<1>1. PICK b \in Block : Parent(b) = node.tip /\ node' = Moved(b)
                         /\ UNCHANGED << db, runVars, used, broken >>
  BY DEF NewBlock
<1>2. /\ node.fin \in Ref /\ node.tip \in Ref /\ On(node.fin, node.tip)
  BY DEF RunnerInv, NodeFits, Ref
<1>3. b \in Ref /\ On(node.tip, b) /\ Height(node.tip) <= Height(b)
  BY <1>1, ParentIs
<1>4. On(node.fin, b)
  BY <1>2, <1>3, AncestorTransitive
<1> QED BY <1>1, <1>3, <1>4, TipMoves

LEMMA ReorgGoes ==
    ASSUME RunnerInv, Reorg
    PROVE  RunnerInv' /\ db' = db
<1>1. PICK b \in Block : /\ On(node.fin, b) /\ Height(b) >= Height(node.tip)
                         /\ node' = Moved(b)
                         /\ UNCHANGED << db, runVars, broken >>
  BY DEF Reorg
<1>2. Height(node.tip) \in Int /\ Height(b) \in Int
  BY ParentIs DEF RunnerInv, NodeFits
<1> QED BY <1>1, <1>2, TipMoves

LEMMA ArchiveGrowsGoes ==
    ASSUME RunnerInv, ArchiveGrows
    PROVE  RunnerInv' /\ db' = db
<1>1. /\ node \in [tip : Block, fin : Block, arch : Int, news : BOOLEAN]
      /\ node.arch < Height(node.fin)
      /\ node' = [node EXCEPT !.arch = @ + 1]
      /\ UNCHANGED << db, runVars, used, broken >>
  BY DEF RunnerInv, NodeFits, ArchiveGrows
<1>2. /\ node' \in [tip : Block, fin : Block, arch : Int, news : BOOLEAN]
      /\ node'.arch = node.arch + 1 /\ node'.tip = node.tip /\ node'.fin = node.fin
  BY <1>1
<1>3. Height(node.fin) \in Int /\ Height(node.tip) \in Int /\ On(node.fin, node.fin)
  BY <1>1, ParentIs, AncestorReflexive
<1>4. NodeFits'
  BY <1>1, <1>2, <1>3 DEF RunnerInv, NodeFits
<1> QED BY <1>1, <1>2, <1>3, <1>4, NodeGoes

------------------------------------------------------------------------------
(***************************************************************************)
(* Finalized blocks.                                                        *)
(***************************************************************************)

\* What a step of the process does to the database.
StepsOn ==
    \/ db' = db
    \/ /\ KeepsFinal
       /\ phase \in {"archive", "cold"} /\ ~ Lagging => Height(db'.head) >= Height(db.head)

\* The types and bounds that the steps need.
LEMMA InvFacts ==
    ASSUME RunnerInv
    PROVE  /\ node.fin \in Block /\ node.fin \in Ref /\ node.tip \in Block /\ node.tip \in Ref
           /\ node.arch \in Int /\ node.arch <= Height(node.fin)
           /\ Height(node.fin) \in Nat /\ Height(node.tip) \in Nat
           /\ On(node.fin, node.tip) /\ Height(node.fin) <= Height(node.tip)
           /\ db.final \in Ref /\ db.head \in Ref
           /\ Height(db.final) \in Int /\ Height(db.head) \in Int
           /\ Height(db.final) >= -1
           /\ On(db.final, db.head) /\ On(db.final, node.fin) /\ On(db.final, node.tip)
           /\ Height(db.final) <= Height(db.head)
           /\ Height(db.final) <= Height(node.fin)
           /\ Height(db.head) <= Height(node.tip)
           /\ target \in Int
           /\ cold.from \in Int /\ cold.beg \in Int /\ cold.top \in Int /\ cold.min \in Int
           /\ state.final \in Ref /\ state.head \in Ref
<1>1. /\ node.fin \in Block /\ node.tip \in Block /\ node.arch \in Int
      /\ node.arch <= Height(node.fin) /\ On(node.fin, node.tip)
  BY DEF RunnerInv, NodeFits
<1>2. /\ node.fin \in Ref /\ node.tip \in Ref
      /\ Height(node.fin) \in Nat /\ Height(node.tip) \in Nat
  BY <1>1, ParentIs
<1>3. /\ db.final \in Ref /\ db.head \in Ref /\ On(db.final, db.head) /\ On(db.final, node.fin)
      /\ Height(db.head) <= Height(node.tip)
  BY DEF RunnerInv, DatabaseFits
<1>4. /\ Height(db.final) \in Int /\ Height(db.head) \in Int /\ Height(db.final) >= -1
  BY <1>3, HeightType DEF Height
<1>5. /\ On(db.final, node.tip) /\ Height(db.final) <= Height(db.head)
      /\ Height(db.final) <= Height(node.fin) /\ Height(node.fin) <= Height(node.tip)
  BY <1>1, <1>2, <1>3, AncestorTransitive, AncestorHeight
<1>6. /\ target \in Int
      /\ cold.from \in Int /\ cold.beg \in Int /\ cold.top \in Int /\ cold.min \in Int
      /\ state.final \in Ref /\ state.head \in Ref
  BY DEF RunnerInv, TargetFits, ColdFits, ProcessFits
<1> QED BY <1>1, <1>2, <1>3, <1>4, <1>5, <1>6

LEMMA StateFacts ==
    ASSUME RunnerInv, phase # "down"
    PROVE  /\ state.final = db.final /\ state.head = db.head
           /\ state = [final |-> db.final, head |-> db.head]
           /\ NextRequested = Max2(From, Height(db.final) + 1)
           /\ NextRequested \in Nat /\ NextRequested >= From
           /\ NextRequested > Height(db.final)
<1>1. state = [final |-> db.final, head |-> db.head]
  BY DEF RunnerInv, ProcessFits
<1>2. Height(db.final) \in Int /\ Height(db.final) >= -1 /\ From \in Nat
  BY InvFacts, RunnerAssumption
<1>3. state.final = db.final /\ state.head = db.head
  BY <1>1
<1> QED BY <1>1, <1>2, <1>3 DEF NextRequested, Max2

\* The finalized heights that the node may report are those of final blocks.
LEMMA FinalizedHeightsAre ==
    ASSUME RunnerInv, NEW h \in FinalizedHeights
    PROVE  /\ h \in 0..Height(node.fin)
           /\ ~ Lagging => h = Confirmed(Height(node.tip))
<1>1. /\ Height(node.tip) \in Nat /\ Height(node.fin) \in Nat
      /\ Confirmed(Height(node.tip)) <= Height(node.fin)
  BY InvFacts DEF RunnerInv, NodeFits
<1>2. PICK k \in IF Lagging THEN 0..Height(node.tip) ELSE {Height(node.tip)} : h = Confirmed(k)
  BY DEF FinalizedHeights, Confirmed
<1>3. k \in Int /\ k <= Height(node.tip)
  BY <1>1, <1>2, RunnerAssumption
<1>4. /\ Confirmed(k) \in Nat /\ Confirmed(k) <= Confirmed(Height(node.tip))
      /\ Confirmed(Height(node.tip)) \in Nat
  BY <1>1, <1>3, ConfirmedIs
<1> QED BY <1>1, <1>2, <1>4

\* A commit of finalized blocks up to the height to, from the last final block on.
LEMMA Committed ==
    ASSUME RunnerInv, phase # "down", node' = node,
           NEW to \in Height(db.final)..Height(node.fin),
           NEW last, last = At(node.fin, to),
           NEW f, f = NextRequested,
           Transact(Slice(node.fin, f, to), last) \/ (f > to /\ Transact(<< >>, last)),
           state' = [final |-> last, head |-> last]
    PROVE  /\ DatabaseFits' /\ KeepsFinal
           /\ last \in Ref /\ Height(last) = to
           /\ db'.final = last /\ db'.head = last
           /\ state' \in [final : Ref, head : Ref]
           /\ state' = [final |-> db'.final, head |-> db'.head]
           /\ NextRequested' = Max2(From, to + 1)
<1>1. /\ node.fin \in Ref /\ node.tip \in Ref /\ to \in -1..Height(node.fin)
      /\ On(db.final, node.fin) /\ db.final \in Ref /\ Height(db.final) <= to
      /\ On(node.fin, node.tip)
  BY InvFacts
<1>2. last \in Ref /\ Height(last) = to /\ On(last, node.fin) /\ On(db.final, last)
  BY <1>1, AtWorks, AtOrder
<1>3. f = Max2(From, Height(db.final) + 1) /\ f \in Nat
  BY StateFacts
<1>4. Transact(Slice(node.fin, f, Height(last)), last)
  <2>1. CASE f > to
    <3>1. /\ Slice(node.fin, f, Height(last)) \in Seq(Block)
          /\ Len(Slice(node.fin, f, Height(last))) = 0
      BY <1>1, <1>2, <1>3, <2>1, SliceIs
    <3>2. Slice(node.fin, f, Height(last)) = << >>
      BY <3>1
    <3> QED BY <1>2, <3>2
  <2> QED BY <1>2, <2>1
<1>5. DatabaseFits' /\ KeepsFinal
  BY <1>1, <1>2, <1>3, <1>4, Transacted DEF RunnerInv
<1>6. db'.final = last /\ db'.head = last
  BY <1>4 DEF Transact
<1>7. state'.final = last
  OBVIOUS
<1> QED BY <1>2, <1>5, <1>6, <1>7 DEF NextRequested

\* What does not concern the hot blocks leaves alone what is known of them.
LEMMA HotStays ==
    ASSUME RunnerInv, node' = node, heads' = heads, goto' = goto, phase # "hot"
    PROVE  HeadsFit' /\ GotoFits'
<1>1. goto = NoGoto
  BY DEF RunnerInv, GotoFits
<1>2. HeadsFit'
  BY DEF RunnerInv, HeadsFit, Vouched
<1> QED BY <1>1, <1>2 DEF RunnerInv, GotoFits

LEMMA ConnectGoes ==
    ASSUME RunnerInv, Connect
    PROVE  RunnerInv' /\ StepsOn
<1>1. /\ phase = "down" /\ phase' = "connected" /\ state' = [final |-> db.final, head |-> db.head]
      /\ UNCHANGED << node, db, cold, target, heads, goto, used, broken >>
  BY DEF Connect
<1>2. HeadsFit' /\ GotoFits'
  BY <1>1, HotStays
<1>3. NodeFits' /\ DatabaseFits' /\ ColdFits'
  BY <1>1 DEF RunnerInv, NodeFits, DatabaseFits, ColdFits
<1>4. ProcessFits'
  BY <1>1, InvFacts DEF ProcessFits
<1>5. TargetFits'
  BY <1>1 DEF RunnerInv, TargetFits
<1> QED BY <1>1, <1>2, <1>3, <1>4, <1>5 DEF RunnerInv, StepsOn

\* The stream of finalized blocks as it starts.
LEMMA ColdStarts ==
    ASSUME RunnerInv, phase # "down", UNCHANGED << node, db, state >>, cold' = ColdStart,
           phase' = "archive" => node.arch > Height(state.head)
    PROVE  ColdFits' /\ cold'.min = Height(db.head)
<1>1. /\ NextRequested \in Nat /\ state.head = db.head /\ NextRequested' = NextRequested
  BY StateFacts DEF NextRequested
<1>2. /\ Height(db.head) \in Int /\ Height(node.fin) \in Nat
  BY InvFacts
<1>3. /\ cold' \in [from : Int, beg : Int, top : Int, min : Int]
      /\ cold'.from = NextRequested /\ cold'.beg = NextRequested
      /\ cold'.top = -1 /\ cold'.min = Height(db.head)
  BY <1>1, <1>2 DEF ColdStart
<1> QED BY <1>1, <1>2, <1>3 DEF ColdFits

LEMMA StartArchiveGoes ==
    ASSUME RunnerInv, StartArchive
    PROVE  RunnerInv' /\ StepsOn
<1>1. /\ phase = "connected"
      /\ UNCHANGED << node, db, state, target, heads, goto, used, broken >>
      /\ \/ node.arch > Height(state.head) /\ phase' = "archive" /\ cold' = ColdStart
         \/ phase' = "rpc" /\ cold' = cold
  BY DEF StartArchive
<1>2. HeadsFit' /\ GotoFits'
  BY <1>1, HotStays
<1>3. NodeFits' /\ DatabaseFits' /\ ProcessFits'
  BY <1>1 DEF RunnerInv, NodeFits, DatabaseFits, ProcessFits
<1>4. ColdFits'
  <2>1. CASE cold' = cold /\ phase' = "rpc"
    BY <1>1, <2>1 DEF RunnerInv, ColdFits
  <2>2. CASE node.arch > Height(state.head) /\ phase' = "archive" /\ cold' = ColdStart
    BY <1>1, <2>2, ColdStarts
  <2> QED BY <1>1, <2>1, <2>2
<1>5. TargetFits'
  BY <1>1 DEF RunnerInv, TargetFits
<1> QED BY <1>1, <1>2, <1>3, <1>4, <1>5 DEF RunnerInv, StepsOn

LEMMA ReadTopGoes ==
    ASSUME RunnerInv, ReadTop
    PROVE  RunnerInv' /\ StepsOn
<1>1. /\ phase \in {"archive", "cold"}
      /\ UNCHANGED << node, db, phase, state, target, heads, goto, used, broken >>
  BY DEF ReadTop
<1>2. PICK high \in IF phase = "archive" THEN {node.arch} ELSE FinalizedHeights :
           cold' = [cold EXCEPT !.top = high]
  BY DEF ReadTop
<1>3. high \in Int /\ high <= Height(node.fin)
  BY <1>2, InvFacts, FinalizedHeightsAre
<1>4. cold \in [from : Int, beg : Int, top : Int, min : Int]
  BY DEF RunnerInv, ColdFits
<1>5. /\ cold' \in [from : Int, beg : Int, top : Int, min : Int]
      /\ cold'.from = cold.from /\ cold'.beg = cold.beg /\ cold'.min = cold.min
      /\ cold'.top = high
  BY <1>2, <1>3, <1>4
<1>6. NextRequested' = NextRequested
  BY <1>1 DEF NextRequested
<1>7. ColdFits'
  BY <1>1, <1>3, <1>5, <1>6 DEF RunnerInv, ColdFits
<1>8. HeadsFit' /\ GotoFits'
  BY <1>1, HotStays
<1>9. NodeFits' /\ DatabaseFits' /\ ProcessFits'
  BY <1>1 DEF RunnerInv, NodeFits, DatabaseFits, ProcessFits
<1>10. TargetFits'
  BY <1>1, <1>5, <1>6 DEF RunnerInv, TargetFits
<1> QED BY <1>1, <1>7, <1>8, <1>9, <1>10 DEF RunnerInv, StepsOn

LEMMA FinalBatchGoes ==
    ASSUME RunnerInv, FinalBatch
    PROVE  RunnerInv' /\ StepsOn
<1>1. PICK to \in cold.beg..Min2(cold.top, cold.beg + BatchSize - 1) :
          /\ phase \in {"archive", "cold"}
          /\ IF to < cold.min
             THEN cold' = [cold EXCEPT !.beg = to + 1] /\ UNCHANGED << db, state >>
             ELSE /\ Transact(Slice(node.fin, cold.from, to), At(node.fin, to))
                  /\ state' = [final |-> At(node.fin, to), head |-> At(node.fin, to)]
                  /\ cold' = [cold EXCEPT !.from = to + 1, !.beg = to + 1]
          /\ UNCHANGED << node, phase, target, heads, goto, used, broken >>
  BY DEF FinalBatch
<1>2. /\ cold \in [from : Int, beg : Int, top : Int, min : Int]
      /\ cold.from = NextRequested /\ cold.from <= cold.beg
      /\ cold.top <= Height(node.fin)
      /\ Height(db.head) = cold.min \/ Height(db.head) = cold.from - 1
      /\ phase = "archive" => cold.min < node.arch
      /\ cold.from < cold.beg => cold.beg - 1 <= Height(node.fin)
  BY <1>1 DEF RunnerInv, ColdFits
<1>3. /\ cold.from \in Int /\ cold.beg \in Int /\ cold.top \in Int /\ cold.min \in Int
      /\ BatchSize \in Nat /\ Height(node.fin) \in Nat /\ Height(db.final) \in Int
      /\ NextRequested \in Nat /\ NextRequested > Height(db.final) /\ NextRequested >= From
      /\ From \in Nat
  BY <1>1, InvFacts, StateFacts, RunnerAssumption
<1>4. /\ to \in Int /\ cold.beg <= to /\ to <= Height(node.fin)
      /\ to \in Height(db.final)..Height(node.fin)
  <2>1. Min2(cold.top, cold.beg + BatchSize - 1) \in Int
        /\ Min2(cold.top, cold.beg + BatchSize - 1) <= cold.top
    BY <1>3 DEF Min2
  <2>2. to \in Int /\ cold.beg <= to /\ to <= cold.top
    BY <1>1, <1>3, <2>1
  <2> QED BY <1>2, <1>3, <2>2
<1>5. NodeFits' /\ HeadsFit' /\ GotoFits'
  BY <1>1, HotStays DEF RunnerInv, NodeFits
<1>6. CASE to < cold.min
  <2>1. /\ cold' \in [from : Int, beg : Int, top : Int, min : Int]
        /\ cold'.from = cold.from /\ cold'.beg = to + 1 /\ cold'.top = cold.top
        /\ cold'.min = cold.min
    BY <1>1, <1>2, <1>4, <1>6
  <2>2. NextRequested' = NextRequested /\ db' = db
    BY <1>1, <1>6 DEF NextRequested
  <2>3. ColdFits'
    BY <1>1, <1>2, <1>3, <1>4, <2>1, <2>2 DEF ColdFits
  <2>4. DatabaseFits' /\ ProcessFits'
    BY <1>1, <1>6 DEF RunnerInv, DatabaseFits, ProcessFits
  <2>5. TargetFits'
    BY <1>1, <2>1, <2>2 DEF RunnerInv, TargetFits
  <2> QED BY <1>5, <2>2, <2>3, <2>4, <2>5 DEF RunnerInv, StepsOn
<1>7. CASE ~(to < cold.min)
  <2> DEFINE last == At(node.fin, to)
  <2>1. /\ Transact(Slice(node.fin, cold.from, to), last)
        /\ state' = [final |-> last, head |-> last]
        /\ cold' = [cold EXCEPT !.from = to + 1, !.beg = to + 1]
        /\ phase # "down" /\ node' = node
    BY <1>1, <1>7
  <2>2. /\ DatabaseFits' /\ KeepsFinal
        /\ last \in Ref /\ Height(last) = to
        /\ db'.final = last /\ db'.head = last
        /\ state' \in [final : Ref, head : Ref]
        /\ state' = [final |-> db'.final, head |-> db'.head]
        /\ NextRequested' = Max2(From, to + 1)
    <3> HIDE DEF last
    <3> USE DEF last
    <3> QED BY <1>2, <1>4, <2>1, Committed
  <2> HIDE DEF last
  <2>3. /\ cold' \in [from : Int, beg : Int, top : Int, min : Int]
        /\ cold'.from = to + 1 /\ cold'.beg = to + 1 /\ cold'.top = cold.top
        /\ cold'.min = cold.min
    <3>1. /\ cold \in [from : Int, beg : Int, top : Int, min : Int]
          /\ to + 1 \in Int
          /\ cold' = [cold EXCEPT !.from = to + 1, !.beg = to + 1]
      BY <1>2, <1>4, <2>1
    <3> QED BY <3>1
  <2>4. NextRequested' = to + 1
    BY <1>2, <1>3, <1>4, <2>2 DEF Max2
  <2>5. Height(db'.head) = to
    BY <2>2
  <2>6. ColdFits'
    BY <1>1, <1>2, <1>3, <1>4, <2>3, <2>4, <2>5 DEF ColdFits
  <2>7. ProcessFits'
    BY <1>1, <2>2 DEF RunnerInv, ProcessFits
  <2>8. TargetFits'
    BY <1>1, <2>3 DEF RunnerInv, TargetFits
  <2>9. Height(db'.head) >= Height(db.head)
    BY <1>2, <1>3, <1>4, <1>7, <2>5
  <2> QED BY <1>5, <2>2, <2>6, <2>7, <2>8, <2>9 DEF RunnerInv, StepsOn
<1> QED BY <1>6, <1>7

\* What was kept is committed when the stream ends, or there is nothing to commit.
LEMMA FinalEndsCommits ==
    ASSUME RunnerInv, FinalEnds
    PROVE  /\ node' = node
           /\ DatabaseFits' /\ (db' = db \/ KeepsFinal)
           /\ state' = [final |-> db'.final, head |-> db'.head] /\ state' \in [final : Ref, head : Ref]
           /\ NextRequested' = cold.beg
           /\ db' = db \/ (Height(db'.head) = cold.beg - 1 /\ cold.from < cold.beg)
<1>1. /\ phase \in {"archive", "cold"} /\ phase # "down"
      /\ IF cold.from < cold.beg
         THEN /\ Transact(Slice(node.fin, cold.from, cold.beg - 1), At(node.fin, cold.beg - 1))
              /\ state' = [final |-> At(node.fin, cold.beg - 1), head |-> At(node.fin, cold.beg - 1)]
         ELSE UNCHANGED << db, state >>
      /\ UNCHANGED << node, target, heads, goto, used, broken >>
  BY DEF FinalEnds
<1>2. /\ cold.from = NextRequested /\ cold.from <= cold.beg
      /\ cold.from < cold.beg => cold.beg - 1 <= Height(node.fin)
  BY <1>1 DEF RunnerInv, ColdFits
<1>3. /\ cold.from \in Int /\ cold.beg \in Int
      /\ Height(node.fin) \in Nat /\ Height(db.final) \in Int
      /\ NextRequested \in Nat /\ NextRequested > Height(db.final) /\ NextRequested >= From
      /\ From \in Nat
      /\ state = [final |-> db.final, head |-> db.head]
  BY <1>1, InvFacts, StateFacts, RunnerAssumption
<1>4. CASE cold.from < cold.beg
  <2> DEFINE to == cold.beg - 1
             last == At(node.fin, to)
  <2>1. to \in Height(db.final)..Height(node.fin)
    BY <1>2, <1>3, <1>4
  <2>2. /\ DatabaseFits' /\ KeepsFinal
        /\ last \in Ref /\ Height(last) = to
        /\ db'.final = last /\ db'.head = last
        /\ state' \in [final : Ref, head : Ref]
        /\ state' = [final |-> db'.final, head |-> db'.head]
        /\ NextRequested' = Max2(From, to + 1)
    BY <1>1, <1>2, <1>4, <2>1, Committed
  <2>3. NextRequested' = cold.beg
    BY <1>2, <1>3, <1>4, <2>2 DEF Max2
  <2>4. Height(db'.head) = cold.beg - 1
    BY <2>2
  <2> QED BY <1>1, <1>4, <2>2, <2>3, <2>4
<1>5. CASE ~(cold.from < cold.beg)
  <2>1. UNCHANGED << db, state, node >> /\ cold.beg = NextRequested
    BY <1>1, <1>2, <1>3, <1>5
  <2>2. DatabaseFits'
    BY <2>1 DEF RunnerInv, DatabaseFits
  <2>3. NextRequested' = NextRequested
    BY <2>1 DEF NextRequested
  <2>4. state \in [final : Ref, head : Ref]
    BY DEF RunnerInv, ProcessFits
  <2>5. state' = [final |-> db'.final, head |-> db'.head] /\ state' \in [final : Ref, head : Ref]
    BY <1>3, <2>1, <2>4
  <2>6. node' = node
    BY <2>1
  <2>7. db' = db
    BY <2>1
  <2>8. NextRequested' = cold.beg
    BY <2>1, <2>3
  <2> QED BY <2>2, <2>5, <2>6, <2>7, <2>8, Zenon
<1> QED BY <1>4, <1>5

LEMMA FinalEndsGoes ==
    ASSUME RunnerInv, FinalEnds
    PROVE  RunnerInv' /\ StepsOn
<1>1. /\ phase \in {"archive", "cold"}
      /\ cold' = NoCold /\ phase' = IF phase = "archive" THEN "rpc" ELSE "advance"
      /\ UNCHANGED << node, target, heads, goto, broken >>
  BY DEF FinalEnds
<1>2. PICK high \in IF phase = "archive" THEN {node.arch} ELSE FinalizedHeights : high < cold.beg
  BY DEF FinalEnds
<1>3. /\ DatabaseFits' /\ (db' = db \/ KeepsFinal)
      /\ state' = [final |-> db'.final, head |-> db'.head] /\ state' \in [final : Ref, head : Ref]
      /\ NextRequested' = cold.beg
      /\ db' = db \/ (Height(db'.head) = cold.beg - 1 /\ cold.from < cold.beg)
  BY FinalEndsCommits
<1>4. /\ Height(db.head) = cold.min \/ Height(db.head) = cold.from - 1
      /\ phase = "archive" => cold.min < node.arch
  BY <1>1 DEF RunnerInv, ColdFits
<1>5. /\ cold.from \in Int /\ cold.beg \in Int /\ cold.min \in Int /\ node.arch \in Int
      /\ target \in Int
  BY InvFacts
<1>6. ~ Lagging /\ phase = "cold" => cold.min < target /\ target < cold.beg
  <2>1. SUFFICES ASSUME ~ Lagging, phase = "cold"
                 PROVE  cold.min < target /\ target < cold.beg
    OBVIOUS
  <2>2. high \in FinalizedHeights
    BY <1>2, <2>1
  <2>3. high = Confirmed(Height(node.tip)) /\ high \in Int
    BY <2>1, <2>2, FinalizedHeightsAre
  <2>4. cold.min < target /\ target <= Confirmed(Height(node.tip))
    BY <2>1 DEF RunnerInv, TargetFits
  <2> QED BY <1>2, <1>5, <2>3, <2>4
<1>7. NodeFits' /\ HeadsFit' /\ GotoFits'
  BY <1>1, HotStays DEF RunnerInv, NodeFits
<1>8. ProcessFits'
  BY <1>1, <1>3 DEF ProcessFits
<1>9. ColdFits'
  BY <1>1 DEF ColdFits, NoCold
<1>10. TargetFits'
  BY <1>1, <1>3, <1>5, <1>6 DEF RunnerInv, TargetFits
<1>11. StepsOn
  <2>1. CASE db' = db
    BY <2>1 DEF StepsOn
  <2>2. CASE db' # db
    <3>1. KeepsFinal /\ Height(db'.head) = cold.beg - 1 /\ cold.from < cold.beg
      BY <1>3, <2>2
    <3>2. ~ Lagging => cold.min <= cold.beg - 1
      <4>1. phase = "archive" => high = node.arch
        BY <1>2
      <4>2. phase = "archive" => cold.min <= cold.beg - 1
        BY <1>2, <1>4, <1>5, <4>1
      <4> QED BY <1>1, <1>5, <1>6, <4>2
    <3>3. ~ Lagging => Height(db'.head) >= Height(db.head)
      BY <1>4, <1>5, <3>1, <3>2
    <3> QED BY <3>1, <3>3 DEF StepsOn
  <2> QED BY <2>1, <2>2
<1> QED BY <1>3, <1>7, <1>8, <1>9, <1>10, <1>11 DEF RunnerInv

LEMMA StartRpcGoes ==
    ASSUME RunnerInv, StartRpc
    PROVE  RunnerInv' /\ StepsOn
<1>1. /\ phase = "rpc"
      /\ UNCHANGED << node, db, state, heads, goto, used, broken >>
      /\ \/ /\ target' \in FinalizedHeights
            /\ \/ target' > Height(state.head) /\ phase' = "cold" /\ cold' = ColdStart
               \/ ~(target' > Height(state.head)) /\ phase' = "advance" /\ cold' = cold
         \/ phase' = "down" /\ UNCHANGED << target, cold >>
  BY DEF StartRpc
<1>2. NodeFits' /\ HeadsFit' /\ GotoFits'
  BY <1>1, HotStays DEF RunnerInv, NodeFits
<1>3. DatabaseFits' /\ ProcessFits'
  BY <1>1 DEF RunnerInv, DatabaseFits, ProcessFits
<1>4. state.head = db.head /\ Height(db.head) \in Int
  BY <1>1, StateFacts, InvFacts
<1>5. CASE phase' = "down" /\ UNCHANGED << target, cold >>
  <2>1. ColdFits' /\ TargetFits'
    BY <1>1, <1>5 DEF RunnerInv, ColdFits, TargetFits
  <2> QED BY <1>1, <1>2, <1>3, <2>1 DEF RunnerInv, StepsOn
<1>6. CASE /\ target' \in FinalizedHeights
           /\ target' > Height(state.head) /\ phase' = "cold" /\ cold' = ColdStart
  <2>1. /\ target' \in 0..Height(node.fin)
        /\ ~ Lagging => target' = Confirmed(Height(node.tip))
    BY <1>6, FinalizedHeightsAre
  <2>2. ColdFits' /\ cold'.min = Height(db.head)
    BY <1>1, <1>6, ColdStarts
  <2>3. target' \in Int /\ cold'.min < target'
        /\ (~ Lagging => target' <= Confirmed(Height(node.tip)))
    BY <1>4, <1>6, <2>1, <2>2, InvFacts
  <2>4. TargetFits'
    BY <1>1, <1>6, <2>1, <2>3 DEF RunnerInv, TargetFits
  <2> QED BY <1>1, <1>2, <1>3, <2>2, <2>4 DEF RunnerInv, StepsOn
<1>7. CASE /\ target' \in FinalizedHeights
           /\ ~(target' > Height(state.head)) /\ phase' = "advance" /\ cold' = cold
  <2>1. target' \in 0..Height(node.fin)
    BY <1>7, FinalizedHeightsAre
  <2>2. ColdFits'
    BY <1>1, <1>7 DEF RunnerInv, ColdFits
  <2>3. target' \in Int
    BY <2>1, InvFacts
  <2>4. TargetFits'
    BY <1>1, <1>4, <1>7, <2>1, <2>3 DEF RunnerInv, TargetFits
  <2> QED BY <1>1, <1>2, <1>3, <2>2, <2>4 DEF RunnerInv, StepsOn
<1> QED BY <1>1, <1>5, <1>6, <1>7

\* The processor is advanced to a final block below which nothing is requested.
LEMMA AdvanceGoes ==
    ASSUME RunnerInv, Advance
    PROVE  RunnerInv' /\ StepsOn
<1>1. /\ phase = "advance"
      /\ UNCHANGED << node, cold, target, heads, goto, used >>
      /\ \/ /\ target > Height(state.head) /\ NextRequested > target
            /\ Transact(<< >>, At(node.fin, target))
            /\ state' = [final |-> At(node.fin, target), head |-> At(node.fin, target)]
            /\ phase' = "hot" /\ broken' = broken
         \/ /\ target > Height(state.head) /\ ~(NextRequested > target)
            /\ broken' = TRUE /\ phase' = "down" /\ UNCHANGED << db, state >>
         \/ phase' = "hot" /\ UNCHANGED << db, state, broken >>
  BY DEF Advance
<1>2. NodeFits' /\ HeadsFit' /\ GotoFits'
  BY <1>1, HotStays DEF RunnerInv, NodeFits
<1>3. state.head = db.head /\ Height(db.head) \in Int /\ Height(db.final) \in Int
      /\ Height(db.final) <= Height(db.head) /\ NextRequested \in Nat
      /\ Height(node.fin) \in Nat
  BY <1>1, StateFacts, InvFacts
<1>4. target \in Int /\ target \in 0..Height(node.fin)
      /\ (~ Lagging /\ target > Height(db.head) => NextRequested > target)
  BY <1>1 DEF RunnerInv, TargetFits
<1>5. ColdFits'
  BY <1>1 DEF RunnerInv, ColdFits
<1>6. CASE phase' = "hot" /\ UNCHANGED << db, state, broken >>
  <2>1. DatabaseFits' /\ ProcessFits' /\ TargetFits'
    BY <1>1, <1>6 DEF RunnerInv, DatabaseFits, ProcessFits, TargetFits
  <2> QED BY <1>2, <1>5, <1>6, <2>1 DEF RunnerInv, StepsOn
<1>7. CASE /\ target > Height(state.head) /\ ~(NextRequested > target)
           /\ broken' = TRUE /\ phase' = "down" /\ UNCHANGED << db, state >>
  <2>1. DatabaseFits' /\ ProcessFits' /\ TargetFits'
    BY <1>1, <1>3, <1>4, <1>7 DEF RunnerInv, DatabaseFits, ProcessFits, TargetFits
  <2> QED BY <1>2, <1>5, <1>7, <2>1 DEF RunnerInv, StepsOn
<1>8. CASE /\ target > Height(state.head) /\ NextRequested > target
           /\ Transact(<< >>, At(node.fin, target))
           /\ state' = [final |-> At(node.fin, target), head |-> At(node.fin, target)]
           /\ phase' = "hot" /\ broken' = broken
  <2>1. target \in Height(db.final)..Height(node.fin)
    BY <1>3, <1>4, <1>8
  <2>2. /\ DatabaseFits' /\ KeepsFinal
        /\ state' \in [final : Ref, head : Ref]
        /\ state' = [final |-> db'.final, head |-> db'.head]
    BY <1>1, <1>8, <2>1, Committed
  <2>3. ProcessFits' /\ TargetFits'
    BY <1>1, <1>8, <2>2 DEF RunnerInv, ProcessFits, TargetFits
  <2> QED BY <1>1, <1>2, <1>5, <2>2, <2>3 DEF RunnerInv, StepsOn
<1> QED BY <1>1, <1>6, <1>7, <1>8

LEMMA CrashGoes ==
    ASSUME RunnerInv, Crash
    PROVE  RunnerInv' /\ StepsOn
<1>1. /\ phase' = "down" /\ heads' = NoHeads(heads.polling) /\ goto' = NoGoto /\ cold' = NoCold
      /\ UNCHANGED << node, db, state, target, broken >>
  BY DEF Crash
<1>2. NodeFits' /\ DatabaseFits' /\ ProcessFits' /\ TargetFits' /\ ColdFits'
  BY <1>1 DEF RunnerInv, NodeFits, DatabaseFits, ProcessFits, TargetFits, ColdFits, NoCold
<1>3. heads.polling \in BOOLEAN /\ Origin \in Ref
  BY DEF RunnerInv, HeadsFit, Ref
<1>4. HeadsFit' /\ GotoFits'
  BY <1>1, <1>3 DEF HeadsFit, NoHeads, GotoFits, NoGoto
<1> QED BY <1>1, <1>2, <1>4 DEF RunnerInv, StepsOn

------------------------------------------------------------------------------
(***************************************************************************)
(* Hot blocks.                                                              *)
(***************************************************************************)

\* finalize() moves the finalized block up the chain, to a height that is final.
LEMMA FinalizeIs ==
    ASSUME NEW chain \in [final : Ref, head : Ref], On(chain.final, chain.head),
           NEW h \in Nat, NEW fin \in Ref, On(chain.final, fin),
           Height(chain.final) < h /\ h <= Height(chain.head) => On(At(chain.head, h), fin),
           NEW next, next = Finalize(chain, h)
    PROVE  /\ next \in [final : Ref, head : Ref]
           /\ next.head = chain.head
           /\ On(chain.final, next.final) /\ On(next.final, next.head) /\ On(next.final, fin)
<1>1. chain.final \in Ref /\ chain.head \in Ref
  OBVIOUS
<1>2. Height(chain.final) \in Int /\ Height(chain.head) \in Int
  BY <1>1, HeightType
<1>3. CASE h > Height(chain.head) \/ h <= Height(chain.final)
  <2>1. next = chain
    BY <1>3 DEF Finalize
  <2> QED BY <1>1, <2>1, AncestorReflexive
<1>4. CASE ~(h > Height(chain.head) \/ h <= Height(chain.final))
  <2>1. Height(chain.final) < h /\ h <= Height(chain.head) /\ h \in -1..Height(chain.head)
    BY <1>2, <1>4
  <2> DEFINE a == At(chain.head, h)
  <2>2. a \in Ref /\ On(a, chain.head) /\ On(chain.final, a)
    BY <1>1, <1>2, <2>1, AtWorks, AtOrder
  <2>3. next = [chain EXCEPT !.final = a]
    BY <1>4 DEF Finalize
  <2>4. On(a, fin)
    BY <2>1
  <2> HIDE DEF a
  <2>5. /\ next \in [final : Ref, head : Ref]
        /\ next.head = chain.head /\ next.final = a
    BY <2>2, <2>3
  <2> QED BY <2>2, <2>4, <2>5
<1> QED BY <1>3, <1>4

LEMMA NotifiedGoes ==
    ASSUME RunnerInv, Notified
    PROVE  RunnerInv' /\ StepsOn
<1>1. /\ node' = [node EXCEPT !.news = FALSE]
      /\ heads' = [heads EXCEPT !.queue = node.tip]
      /\ UNCHANGED << db, phase, state, cold, target, goto, used, broken >>
  BY DEF Notified
<1>2. /\ node \in [tip : Block, fin : Block, arch : Int, news : BOOLEAN]
      /\ heads \in [polling : BOOLEAN, prev : Int, queue : Ref]
  BY DEF RunnerInv, NodeFits, HeadsFit
<1>3. /\ node' \in [tip : Block, fin : Block, arch : Int, news : BOOLEAN]
      /\ node'.tip = node.tip /\ node'.fin = node.fin /\ node'.arch = node.arch
  BY <1>1, <1>2
<1>4. /\ heads' \in [polling : BOOLEAN, prev : Int, queue : Ref] /\ heads'.queue = node.tip
  BY <1>1, <1>2, InvFacts
<1>5. NodeFits' /\ DatabaseFits' /\ ProcessFits'
  BY <1>1, <1>3 DEF RunnerInv, NodeFits, DatabaseFits, ProcessFits
<1>6. ColdFits' /\ TargetFits'
  <2>1. NextRequested' = NextRequested
    BY <1>1 DEF NextRequested
  <2> QED BY <1>1, <1>3, <2>1 DEF RunnerInv, ColdFits, TargetFits
<1>7. GotoFits'
  BY <1>1, <1>3 DEF RunnerInv, GotoFits, Vouched
<1>8. On(At(node.tip, Confirmed(Height(node.tip))), node.fin)
  <2>1. /\ node.tip \in Ref /\ node.fin \in Ref /\ Height(node.tip) \in Nat
        /\ On(node.fin, node.tip) /\ Confirmed(Height(node.tip)) <= Height(node.fin)
    BY InvFacts DEF RunnerInv, NodeFits
  <2>2. Confirmed(Height(node.tip)) \in -1..Height(node.tip)
    BY <2>1, ConfirmedIs
  <2> QED BY <2>1, <2>2, AtWorks, AncestorLinear
<1>9. Height(node.tip) <= Height(node.tip)
  BY InvFacts
<1>10. HeadsFit'
  BY <1>3, <1>4, <1>8, <1>9 DEF HeadsFit, Vouched
<1> QED BY <1>1, <1>5, <1>6, <1>7, <1>10 DEF RunnerInv, StepsOn

\* goto() about a height that the node has, by its hash or not.
LEMMA GotoGoes ==
    ASSUME RunnerInv, phase = "hot", UNCHANGED << node, phase, cold, target >>, HeadsFit',
           NEW hash \in Ref, NEW height \in 0..Height(node.tip),
           hash = Origin => Height(db.head) <= height,
           hash # Origin => Height(hash) = height /\ Vouched(hash),
           Goto(height, hash)
    PROVE  RunnerInv' /\ StepsOn
<1>1. /\ state.final = db.final /\ state.head = db.head
      /\ state = [final |-> db.final, head |-> db.head]
      /\ state \in [final : Ref, head : Ref]
  BY StateFacts DEF RunnerInv, ProcessFits
<1>2. /\ node.fin \in Ref /\ node.tip \in Ref /\ Height(node.tip) \in Nat
      /\ db.final \in Ref /\ db.head \in Ref
      /\ Height(db.final) \in Int /\ Height(db.head) \in Int /\ Height(db.final) >= -1
      /\ On(db.final, db.head) /\ On(db.final, node.fin)
      /\ Height(db.final) <= Height(db.head) /\ Height(db.head) <= Height(node.tip)
      /\ target \in Int
  BY InvFacts
<1>3. height \in Nat /\ Confirmed(height) \in Nat /\ Confirmed(height) <= height
  BY <1>2, ConfirmedIs
<1> DEFINE fin == Confirmed(height)
           chain == Finalize(state, fin)
<1>4. NodeFits' /\ ColdFits'
  BY DEF RunnerInv, NodeFits, ColdFits
<1>5. ~ Lagging => broken = FALSE
  BY DEF RunnerInv, TargetFits
<1>6. CASE IsKnownBlock(state, height, hash)
  <2>1. /\ state' = chain /\ goto' = NoGoto /\ broken' = broken
        /\ IF chain # state THEN TransactHot(chain.head, chain) ELSE db' = db
    BY <1>6 DEF Goto, Confirmed
  <2>2. Height(db.final) < fin /\ fin <= Height(db.head) => On(At(db.head, fin), node.fin)
    <3>1. SUFFICES ASSUME Height(db.final) < fin, fin <= Height(db.head)
                   PROVE  On(At(db.head, fin), node.fin)
      OBVIOUS
    <3>2. Height(db.final) < height
      BY <1>2, <1>3, <3>1
    <3>3. hash # Origin /\ On(hash, db.head)
      BY <1>1, <1>2, <1>3, <1>6, <3>2 DEF IsKnownBlock
    <3>4. Height(hash) = height /\ On(At(hash, fin), node.fin)
      BY <3>3 DEF Vouched
    <3>5. fin \in -1..Height(hash)
      BY <1>3, <3>4
    <3> HIDE DEF fin
    <3> QED BY <1>2, <3>3, <3>4, <3>5, AtShared
  <2> HIDE DEF fin
  <2>3. fin \in Nat
    BY <1>3 DEF fin
  <2>4. /\ chain \in [final : Ref, head : Ref] /\ chain.head = db.head
        /\ On(db.final, chain.final) /\ On(chain.final, db.head) /\ On(chain.final, node.fin)
    <3>1. On(state.final, state.head) /\ On(state.final, node.fin)
          /\ (Height(state.final) < fin /\ fin <= Height(state.head)
                => On(At(state.head, fin), node.fin))
      BY <1>1, <1>2, <2>2
    <3>2. \A next : next = Finalize(state, fin) =>
             /\ next \in [final : Ref, head : Ref] /\ next.head = state.head
             /\ On(state.final, next.final) /\ On(next.final, next.head) /\ On(next.final, node.fin)
      BY <1>1, <1>2, <2>3, <3>1, FinalizeIs
    <3> QED BY <1>1, <3>2
  <2> HIDE DEF chain
  <2>5. DatabaseFits' /\ StepsOn /\ state' = [final |-> db'.final, head |-> db'.head]
    <3>1. CASE chain = state
      <4>1. db' = db /\ state' = state
        BY <2>1, <3>1
      <4> QED BY <1>1, <4>1 DEF RunnerInv, DatabaseFits, StepsOn
    <3>2. CASE chain # state
      <4>1. TransactHot(db.head, chain)
        BY <2>1, <2>4, <3>2
      <4>2. On(db.head, db.head) /\ On(db.final, db.head)
        BY <1>2, AncestorReflexive
      <4>3. DatabaseFits' /\ KeepsFinal
        BY <1>2, <2>4, <4>1, <4>2, TransactedHot DEF RunnerInv
      <4>4. db'.final = chain.final /\ db'.head = chain.head
        BY <4>1 DEF TransactHot
      <4> QED BY <2>1, <2>4, <4>3, <4>4 DEF StepsOn
    <3> QED BY <3>1, <3>2
  <2>6. ProcessFits'
    BY <2>1, <2>4, <2>5 DEF ProcessFits
  <2>7. TargetFits'
    BY <1>2, <1>5, <2>1 DEF RunnerInv, TargetFits
  <2>8. GotoFits'
    BY <1>1, <2>1 DEF GotoFits, NoGoto, Ref
  <2> QED BY <1>4, <2>5, <2>6, <2>7, <2>8 DEF RunnerInv
<1>7. CASE ~ IsKnownBlock(state, height, hash)
  <2> DEFINE from == Min2(Height(db.head) + 1, height)
  <2>1. /\ goto' = [from |-> from, to |-> height, fin |-> fin, hash |-> hash, failed |-> FALSE]
        /\ UNCHANGED << db, state, broken >>
    BY <1>1, <1>7 DEF Goto, Confirmed
  <2>2. from \in Int /\ from <= height /\ Height(db.final) < from
    <3>1. Height(db.final) < height
      BY <1>1, <1>2, <1>3, <1>7 DEF IsKnownBlock
    <3> QED BY <1>2, <1>3, <3>1 DEF Min2
  <2> HIDE DEF from, fin
  <2>3. fin \in Int /\ fin = Confirmed(height)
    BY <1>3 DEF fin
  <2>4. /\ goto' \in [from : Int, to : Int, fin : Int, hash : Ref, failed : BOOLEAN]
        /\ goto'.from = from /\ goto'.to = height /\ goto'.fin = fin /\ goto'.hash = hash
    BY <1>3, <2>1, <2>2, <2>3
  <2>5. GotoFits'
    BY <2>1, <2>2, <2>3, <2>4 DEF GotoFits, Vouched
  <2>6. DatabaseFits' /\ ProcessFits' /\ TargetFits'
    BY <1>2, <2>1 DEF RunnerInv, DatabaseFits, ProcessFits, TargetFits
  <2> QED BY <1>4, <2>1, <2>5, <2>6 DEF RunnerInv, StepsOn
<1> QED BY <1>6, <1>7

LEMMA PollGoes ==
    ASSUME RunnerInv, Poll
    PROVE  RunnerInv' /\ StepsOn
<1>1. /\ phase = "hot" /\ heads' = [heads EXCEPT !.prev = Height(node.tip)]
      /\ Goto(Height(node.tip), Origin)
      /\ UNCHANGED << node, phase, cold, target >>
  BY DEF Poll
<1>2. Height(node.tip) \in Nat /\ Height(db.head) <= Height(node.tip)
  BY InvFacts
<1>3. HeadsFit'
  <2>1. heads \in [polling : BOOLEAN, prev : Int, queue : Ref]
    BY DEF RunnerInv, HeadsFit
  <2>2. /\ heads' \in [polling : BOOLEAN, prev : Int, queue : Ref]
        /\ heads'.queue = heads.queue
    BY <1>1, <1>2, <2>1
  <2> QED BY <1>1, <2>2 DEF RunnerInv, HeadsFit, Vouched
<1>4. Origin \in Ref /\ Height(node.tip) \in 0..Height(node.tip)
  BY <1>2 DEF Ref
<1> QED BY <1>1, <1>2, <1>3, <1>4, GotoGoes

LEMMA TakeHeadGoes ==
    ASSUME RunnerInv, TakeHead
    PROVE  RunnerInv' /\ StepsOn
<1>1. /\ phase = "hot" /\ heads.queue # Origin
      /\ heads' = [heads EXCEPT !.prev = Max2(@, Height(heads.queue)), !.queue = Origin]
      /\ \/ Goto(Height(heads.queue), heads.queue)
         \/ UNCHANGED << db, state, goto, broken >>
      /\ UNCHANGED << node, phase, cold, target >>
  BY DEF TakeHead
<1>2. /\ heads \in [polling : BOOLEAN, prev : Int, queue : Ref]
      /\ Height(heads.queue) <= Height(node.tip) /\ Vouched(heads.queue)
  BY <1>1 DEF RunnerInv, HeadsFit
<1>3. heads.queue \in Block /\ heads.queue \in Ref /\ heads.prev \in Int
  BY <1>1, <1>2 DEF Ref
<1>4. Height(heads.queue) \in 0..Height(node.tip) /\ Height(heads.queue) \in Int
  BY <1>2, <1>3, ParentIs, InvFacts
<1>5. HeadsFit'
  <2>1. Max2(heads.prev, Height(heads.queue)) \in Int /\ Origin \in Ref
    BY <1>3, <1>4 DEF Max2, Ref
  <2>2. /\ heads' \in [polling : BOOLEAN, prev : Int, queue : Ref]
        /\ heads'.queue = Origin
    BY <1>1, <1>2, <2>1
  <2> QED BY <2>2 DEF HeadsFit
<1>6. CASE Goto(Height(heads.queue), heads.queue)
  <2> DEFINE hash == heads.queue
  <2>1. hash \in Ref /\ hash # Origin /\ Height(hash) \in 0..Height(node.tip) /\ Vouched(hash)
        /\ Goto(Height(hash), hash)
    BY <1>1, <1>2, <1>3, <1>4, <1>6
  <2> HIDE DEF hash
  <2> QED BY <1>1, <1>5, <2>1, GotoGoes
<1>7. CASE UNCHANGED << db, state, goto, broken >>
  <2>1. NodeFits' /\ DatabaseFits' /\ ProcessFits' /\ ColdFits' /\ TargetFits' /\ GotoFits'
    BY <1>1, <1>7
       DEF RunnerInv, NodeFits, DatabaseFits, ProcessFits, ColdFits, TargetFits, GotoFits, Vouched
  <2> QED BY <1>5, <1>7, <2>1 DEF RunnerInv, StepsOn
<1> QED BY <1>1, <1>6, <1>7

LEMMA RetryGoes ==
    ASSUME RunnerInv, Retry
    PROVE  RunnerInv' /\ StepsOn
<1>1. /\ phase = "hot" /\ goto.failed
      /\ Goto(goto.to, goto.hash)
      /\ UNCHANGED << node, phase, cold, target, heads, used >>
  BY DEF Retry
<1>2. goto # NoGoto
  BY <1>1 DEF NoGoto
<1>3. /\ goto.hash \in Ref /\ goto.to \in 0..Height(node.tip)
      /\ goto.hash = Origin => Height(db.head) <= goto.to
      /\ goto.hash # Origin => Height(goto.hash) = goto.to /\ Vouched(goto.hash)
  BY <1>2 DEF RunnerInv, GotoFits
<1>4. HeadsFit'
  BY <1>1 DEF RunnerInv, HeadsFit, Vouched
<1> QED BY <1>1, <1>3, <1>4, GotoGoes

LEMMA HotFailsGoes ==
    ASSUME RunnerInv, HotFails
    PROVE  RunnerInv' /\ StepsOn
<1>1. /\ phase = "hot" /\ goto.from <= goto.to
      /\ goto' = [goto EXCEPT !.failed = TRUE]
      /\ UNCHANGED << node, db, phase, state, cold, target, heads, broken >>
  BY DEF HotFails, Asking
<1>2. goto # NoGoto /\ goto \in [from : Int, to : Int, fin : Int, hash : Ref, failed : BOOLEAN]
  BY <1>1 DEF NoGoto, RunnerInv, GotoFits
<1>3. /\ goto' \in [from : Int, to : Int, fin : Int, hash : Ref, failed : BOOLEAN]
      /\ goto'.from = goto.from /\ goto'.to = goto.to /\ goto'.fin = goto.fin
      /\ goto'.hash = goto.hash /\ goto'.failed = TRUE
  BY <1>1, <1>2
<1>4. GotoFits'
  <2>1. /\ phase = "hot" /\ goto.to \in 0..Height(node.tip) /\ goto.from <= goto.to
        /\ goto.fin = Confirmed(goto.to)
        /\ IF goto.hash = Origin THEN Height(db.head) <= goto.to
           ELSE Height(goto.hash) = goto.to /\ Vouched(goto.hash)
    BY <1>2 DEF RunnerInv, GotoFits
  <2>2. ~(~ goto'.failed)
    BY <1>3
  <2> QED BY <1>1, <1>3, <2>1, <2>2 DEF GotoFits, Vouched
<1>5. NodeFits' /\ DatabaseFits' /\ ProcessFits' /\ ColdFits' /\ TargetFits' /\ HeadsFit'
  BY <1>1 DEF RunnerInv, NodeFits, DatabaseFits, ProcessFits, ColdFits, TargetFits, HeadsFit, Vouched
<1> QED BY <1>1, <1>4, <1>5 DEF RunnerInv, StepsOn

\* The blocks of a batch go on top of the local chain, at or above its final block, or
\* replace a part of it that is.
LEMMA HotBatchGoes ==
    ASSUME RunnerInv, HotBatch
    PROVE  RunnerInv' /\ StepsOn
<1> DEFINE wanted == Min2(goto.to, goto.from + BatchSize - 1)
           first == At(node.tip, goto.from)
<1>1. PICK to \in goto.from..wanted :
          LET next == MoveToBlocks(state, At(node.tip, to), goto.fin)
          IN  IF Reachable(state, first)
              THEN /\ TransactHot(Base(state, first), next)
                   /\ state' = next
                   /\ goto' = IF to < wanted THEN [goto EXCEPT !.failed = TRUE]
                              ELSE IF to = goto.to THEN NoGoto
                              ELSE [goto EXCEPT !.from = to + 1]
                   /\ UNCHANGED broken
              ELSE /\ broken' = TRUE
                   /\ goto' = NoGoto
                   /\ UNCHANGED << db, state >>
  BY DEF HotBatch
<1>2. /\ phase = "hot" /\ goto.from <= goto.to /\ ~ goto.failed
      /\ UNCHANGED << node, phase, cold, target, heads >>
  BY DEF HotBatch, Asking
<1>3. /\ goto # NoGoto
      /\ goto \in [from : Int, to : Int, fin : Int, hash : Ref, failed : BOOLEAN]
      /\ goto.to \in 0..Height(node.tip)
      /\ goto.fin = Confirmed(goto.to)
      /\ IF goto.hash = Origin THEN Height(db.head) <= goto.to
         ELSE Height(goto.hash) = goto.to /\ Vouched(goto.hash)
      /\ Height(db.final) < goto.from
  BY <1>2 DEF NoGoto, RunnerInv, GotoFits
<1>4. /\ state.final = db.final /\ state.head = db.head
      /\ state = [final |-> db.final, head |-> db.head]
      /\ state \in [final : Ref, head : Ref]
  BY <1>2, StateFacts DEF RunnerInv, ProcessFits
<1>5. /\ node.fin \in Ref /\ node.tip \in Ref /\ Height(node.tip) \in Nat
      /\ Height(node.fin) \in Nat
      /\ db.final \in Ref /\ db.head \in Ref
      /\ Height(db.final) \in Int /\ Height(db.final) >= -1
      /\ On(db.final, db.head) /\ On(db.final, node.fin) /\ On(db.final, node.tip)
      /\ On(node.fin, node.tip)
      /\ Confirmed(Height(node.tip)) <= Height(node.fin)
      /\ target \in Int
  BY InvFacts DEF RunnerInv, NodeFits
<1>6. /\ goto.from \in Int /\ goto.to \in Int /\ goto.from >= 0
      /\ goto.to <= Height(node.tip) /\ to \in Int /\ goto.from <= to /\ to <= goto.to
      /\ wanted <= goto.to /\ wanted \in Int
  <2>1. goto.from \in Int /\ goto.to \in Int /\ goto.from >= 0 /\ goto.to <= Height(node.tip)
    BY <1>3, <1>5
  <2>2. wanted \in Int /\ wanted <= goto.to
    BY <2>1, RunnerAssumption DEF Min2
  <2> HIDE DEF wanted
  <2>3. to \in goto.from..wanted
    OBVIOUS
  <2> QED BY <2>1, <2>2, <2>3
<1> HIDE DEF wanted
<1> DEFINE base == Base(state, first)
           parent == At(node.tip, goto.from - 1)
           new == At(node.tip, to)
           next == MoveToBlocks(state, new, goto.fin)
<1>7. /\ goto.from \in -1..Height(node.tip) /\ goto.from - 1 \in -1..Height(node.tip)
      /\ to \in -1..Height(node.tip)
  BY <1>5, <1>6
<1>8. /\ new \in Ref /\ Height(new) = to /\ On(new, node.tip)
      /\ parent \in Ref /\ Height(parent) = goto.from - 1 /\ On(parent, node.tip)
  BY <1>7, <1>5, AtWorks
<1>9. Parent(first) = parent
  <2>1. first \in Block /\ first \in Ref /\ Height(first) = goto.from /\ On(first, node.tip)
    BY <1>5, <1>6, <1>7, AtWorks
  <2>2. Parent(first) \in Ref /\ Height(Parent(first)) = goto.from - 1 /\ On(Parent(first), first)
    BY <2>1, ParentIs
  <2>3. On(Parent(first), node.tip)
    BY <1>5, <2>1, <2>2, AncestorTransitive
  <2> HIDE DEF first, parent
  <2> QED BY <1>5, <1>8, <2>2, <2>3, AncestorUnique
<1>10. /\ On(db.final, parent) /\ On(db.final, new) /\ On(parent, new)
  <2> HIDE DEF parent, new
  <2>1. Height(db.final) <= Height(parent) /\ Height(db.final) <= Height(new)
        /\ Height(parent) <= Height(new)
    BY <1>3, <1>5, <1>6, <1>8
  <2> QED BY <1>5, <1>8, <2>1, AncestorLinear
<1>11. /\ base \in Ref /\ On(base, db.head) /\ On(base, parent)
       /\ Height(db.final) <= Height(base)
  <2>1. base = Common(db.head, parent)
    BY <1>4, <1>9 DEF Base
  <2> HIDE DEF base, parent
  <2> QED BY <1>5, <1>8, <1>10, <2>1, CommonIs
<1>12. Reachable(state, first)
  BY <1>4, <1>5, <1>11, HeightType DEF Reachable
<1> HIDE DEF base, parent
<1>13. On(db.final, base) /\ On(base, new)
  BY <1>5, <1>8, <1>10, <1>11, AncestorLinear, AncestorTransitive
<1>14. /\ next \in [final : Ref, head : Ref] /\ next.head = new
       /\ On(db.final, next.final) /\ On(next.final, new) /\ On(next.final, node.fin)
  <2> DEFINE chain == [state EXCEPT !.head = new]
  <2>1. chain \in [final : Ref, head : Ref] /\ chain.final = db.final /\ chain.head = new
    BY <1>4, <1>8
  <2>2. goto.fin \in Nat /\ goto.fin <= Height(node.fin)
    <3>1. Confirmed(goto.to) \in Nat /\ Confirmed(goto.to) <= Confirmed(Height(node.tip))
          /\ Confirmed(Height(node.tip)) \in Nat
      BY <1>5, <1>6, ConfirmedIs
    <3> QED BY <1>3, <1>5, <3>1
  <2>3. Height(db.final) < goto.fin /\ goto.fin <= Height(new)
          => On(At(new, goto.fin), node.fin)
    <3>1. SUFFICES ASSUME goto.fin <= Height(new)
                   PROVE  On(At(new, goto.fin), node.fin)
      OBVIOUS
    <3> HIDE DEF new
    <3>2. goto.fin \in -1..Height(new) /\ goto.fin \in -1..Height(node.fin)
      BY <1>5, <1>6, <1>8, <2>2, <3>1
    <3>3. At(new, goto.fin) = At(node.tip, goto.fin)
      BY <1>5, <1>8, <3>2, AtShared
    <3>4. At(node.fin, goto.fin) = At(node.tip, goto.fin)
      BY <1>5, <3>2, AtShared
    <3> QED BY <1>5, <3>2, <3>3, <3>4, AtWorks
  <2>4. next = Finalize(chain, goto.fin)
    BY DEF MoveToBlocks
  <2> HIDE DEF chain, next, new
  <2>5. /\ On(chain.final, chain.head) /\ On(chain.final, node.fin)
        /\ Height(chain.final) < goto.fin /\ goto.fin <= Height(chain.head)
             => On(At(chain.head, goto.fin), node.fin)
    BY <1>5, <1>10, <2>1, <2>3
  <2>6. /\ next \in [final : Ref, head : Ref] /\ next.head = chain.head
        /\ On(chain.final, next.final) /\ On(next.final, next.head) /\ On(next.final, node.fin)
    BY <1>5, <2>1, <2>2, <2>4, <2>5, FinalizeIs
  <2> QED BY <2>1, <2>6
<1>15. /\ TransactHot(base, next) /\ state' = next /\ broken' = broken
       /\ goto' = IF to < wanted THEN [goto EXCEPT !.failed = TRUE]
                  ELSE IF to = goto.to THEN NoGoto
                  ELSE [goto EXCEPT !.from = to + 1]
  BY <1>1, <1>12 DEF base
<1> HIDE DEF next, first, new
<1>16. /\ DatabaseFits' /\ KeepsFinal
       /\ db'.final = next.final /\ db'.head = new
  <2>1. On(base, next.head) /\ On(next.final, next.head) /\ Height(next.head) <= Height(node'.tip)
        /\ On(next.final, node'.fin)
    BY <1>2, <1>5, <1>6, <1>8, <1>13, <1>14
  <2>2. DatabaseFits' /\ KeepsFinal
    BY <1>11, <1>13, <1>14, <1>15, <2>1, TransactedHot DEF RunnerInv
  <2>3. db'.final = next.final /\ db'.head = next.head
    BY <1>15 DEF TransactHot
  <2> QED BY <1>14, <2>2, <2>3
<1>17. ProcessFits'
  <2>1. state' = [final |-> db'.final, head |-> db'.head]
    BY <1>14, <1>15, <1>16
  <2> QED BY <1>2, <1>14, <1>15, <2>1 DEF ProcessFits
<1>18. NodeFits' /\ ColdFits' /\ TargetFits' /\ HeadsFit'
  BY <1>2, <1>15 DEF RunnerInv, NodeFits, ColdFits, TargetFits, HeadsFit, Vouched
<1>19. GotoFits'
  <2>1. /\ phase' = "hot" /\ node' = node
        /\ Height(db'.head) = to /\ Height(db'.final) <= to
        /\ Height(db'.final) \in Int
    <3>1. Height(db'.final) <= Height(new) /\ Height(db'.final) \in Int
      BY <1>8, <1>14, <1>16, AncestorHeight, HeightType
    <3> QED BY <1>2, <1>8, <1>16, <3>1
  <2>2. CASE to < wanted
    <3>1. /\ goto' \in [from : Int, to : Int, fin : Int, hash : Ref, failed : BOOLEAN]
          /\ goto'.from = goto.from /\ goto'.to = goto.to /\ goto'.fin = goto.fin
          /\ goto'.hash = goto.hash /\ goto'.failed = TRUE
      BY <1>3, <1>15, <2>2
    <3> QED BY <1>2, <1>3, <1>6, <2>1, <3>1 DEF GotoFits, Vouched
  <2>3. CASE ~(to < wanted) /\ to = goto.to
    <3>1. goto' = NoGoto /\ NoGoto \in [from : Int, to : Int, fin : Int, hash : Ref, failed : BOOLEAN]
      BY <1>15, <2>3 DEF NoGoto, Ref
    <3> QED BY <3>1 DEF GotoFits
  <2>4. CASE ~(to < wanted) /\ to # goto.to
    <3>1. /\ goto' \in [from : Int, to : Int, fin : Int, hash : Ref, failed : BOOLEAN]
          /\ goto'.from = to + 1 /\ goto'.to = goto.to /\ goto'.fin = goto.fin
          /\ goto'.hash = goto.hash
      <4>1. goto' = [goto EXCEPT !.from = to + 1] /\ to + 1 \in Int
        BY <1>6, <1>15, <2>4
      <4> QED BY <1>3, <4>1
    <3>2. to + 1 <= goto.to /\ Height(db'.final) < to + 1 /\ to <= goto.to
      BY <1>6, <2>1, <2>4
    <3> QED BY <1>2, <1>3, <2>1, <3>1, <3>2 DEF GotoFits, Vouched
  <2> QED BY <2>2, <2>3, <2>4
<1>20. StepsOn
  BY <1>2, <1>16 DEF StepsOn
<1> QED BY <1>16, <1>17, <1>18, <1>19, <1>20 DEF RunnerInv

------------------------------------------------------------------------------
(***************************************************************************)
(* The invariant, and what follows from it.                                 *)
(***************************************************************************)
LEMMA RunnerInit ==
    ASSUME Init
    PROVE  RunnerInv
<1>1. PICK b \in Block : /\ Height(b) = 0
                         /\ node = [tip |-> b, fin |-> b, arch |-> -1, news |-> FALSE]
  BY DEF Init
<1>2. /\ db = [final |-> Origin, head |-> Origin, mapped |-> << >>]
      /\ phase = "down" /\ state = [final |-> Origin, head |-> Origin]
      /\ cold = [from |-> 0, beg |-> 0, top |-> -1, min |-> -1] /\ target = -1
      /\ goto = NoGoto /\ broken = FALSE
  BY DEF Init, NoCold
<1>3. PICK polling \in BOOLEAN : heads = [polling |-> polling, prev |-> -1, queue |-> Origin]
  BY DEF Init, NoHeads
<1>4. Origin \in Ref /\ b \in Ref /\ Height(Origin) = -1
  BY TreeAssumption DEF Ref, Height
<1>5. NodeFits
  <2>1. /\ node \in [tip : Block, fin : Block, arch : Int, news : BOOLEAN]
        /\ node.tip = b /\ node.fin = b /\ node.arch = -1
    BY <1>1
  <2>2. On(b, b) /\ Confirmed(Height(b)) <= Height(b) /\ -1 <= Height(b)
    BY <1>1, <1>4, AncestorReflexive, ConfirmedIs
  <2> QED BY <2>1, <2>2 DEF NodeFits
<1>6. DatabaseFits
  <2>1. /\ db \in [final : Ref, head : Ref, mapped : Seq(Block)]
        /\ db.final = Origin /\ db.head = Origin /\ db.mapped = << >>
    BY <1>2, <1>4
  <2>2. ASSUME NEW r \in Relevant, On(r, Origin)
        PROVE  FALSE
    <3>1. r \in Block /\ Len(Path[r]) \in Nat /\ Len(Path[r]) > 0
      BY RelevantAssumption, TreeAssumption, HeightType DEF Ref
    <3>2. Len(Path[r]) <= Len(Path[Origin]) /\ Len(Path[Origin]) = 0
      BY <2>2, <3>1, TreeAssumption DEF On
    <3> QED BY <3>1, <3>2
  <2>3. Reflects(<< >>, Origin)
    BY <2>2 DEF Reflects, OnlyChain, Ascending
  <2>4. Height(db.head) <= Height(node.tip)
    BY <1>1, <1>4, <2>1
  <2> QED BY <2>1, <2>3, <2>4 DEF DatabaseFits, On
<1>7. ProcessFits
  BY <1>2, <1>4 DEF ProcessFits
<1>8. ColdFits /\ TargetFits
  BY <1>2 DEF ColdFits, TargetFits
<1>9. HeadsFit
  BY <1>3, <1>4 DEF HeadsFit
<1>10. GotoFits
  BY <1>2, <1>4 DEF GotoFits, NoGoto
<1> QED BY <1>5, <1>6, <1>7, <1>8, <1>9, <1>10 DEF RunnerInv

LEMMA RunnerNext ==
    ASSUME RunnerInv, [Next]_vars
    PROVE  RunnerInv' /\ StepsOn
<1>1. CASE NewBlock \/ Reorg \/ ArchiveGrows
  BY <1>1, NewBlockGoes, ReorgGoes, ArchiveGrowsGoes DEF StepsOn
<1>2. CASE Connect \/ StartArchive \/ ReadTop \/ FinalBatch \/ FinalEnds \/ StartRpc \/ Advance
  BY <1>2, ConnectGoes, StartArchiveGoes, ReadTopGoes, FinalBatchGoes, FinalEndsGoes,
     StartRpcGoes, AdvanceGoes
<1>3. CASE Notified \/ Poll \/ TakeHead \/ HotBatch \/ HotFails \/ Retry
  BY <1>3, NotifiedGoes, PollGoes, TakeHeadGoes, HotBatchGoes, HotFailsGoes, RetryGoes
<1>4. CASE Crash
  BY <1>4, CrashGoes
<1>5. CASE UNCHANGED vars
  <2>1. UNCHANGED << node, db, phase, state, cold, target, heads, goto, broken >>
    BY <1>5 DEF vars
  <2>2. NextRequested' = NextRequested
    BY <2>1 DEF NextRequested
  <2>3. NodeFits' /\ DatabaseFits' /\ ProcessFits' /\ HeadsFit' /\ GotoFits'
    BY <2>1 DEF RunnerInv, NodeFits, DatabaseFits, ProcessFits, HeadsFit, GotoFits, Vouched
  <2>4. ColdFits' /\ TargetFits'
    BY <2>1, <2>2 DEF RunnerInv, ColdFits, TargetFits
  <2> QED BY <2>1, <2>3, <2>4 DEF RunnerInv, StepsOn
<1> QED BY <1>1, <1>2, <1>3, <1>4, <1>5 DEF Next

(***************************************************************************)
(* However the archive, the node and its replicas, the requests and the      *)
(* process itself behave, the runner's stream of finalized blocks goes on    *)
(* where the database ends and stays below what is final, HotProcessor never *)
(* asks for blocks at or below the final one, and the heights that the head  *)
(* loops take for finalized are those of final blocks.                       *)
(***************************************************************************)
THEOREM RunnerInvAlways == Spec => []RunnerInv
<1>1. Init => RunnerInv
  BY RunnerInit
<1>2. RunnerInv /\ [Next]_vars => RunnerInv'
  BY RunnerNext
<1> QED BY <1>1, <1>2, PTL DEF Spec

(***************************************************************************)
(* The database the runner drives, through the archive, the cold and the hot *)
(* blocks of the node, forks, failed requests and restarts, is one that      *)
(* indexes one chain without gaps and undoes nothing that is final: each     *)
(* transaction of handleFinalizedBlocks(), the advance to the finalized head *)
(* and HotProcessor is a step of IndexedChain.                               *)
(***************************************************************************)
THEOREM RunnerIndexesOneChain == Spec => IndexesOneChain
<1> DEFINE abs == << db.final, db.head, db.mapped >>
<1>1. Init => Index!Init
  BY DEF Init, Index!Init
<1>2. ASSUME RunnerInv, RunnerInv', StepsOn
      PROVE  [Index!Update]_abs
  <2>1. CASE db' = db
    BY <2>1
  <2>2. CASE KeepsFinal
    <3>1. /\ db'.final \in Ref /\ db'.head \in Ref
          /\ On(db'.final, db'.head) /\ Reflects(db'.mapped, db'.head)
      BY <1>2 DEF RunnerInv, DatabaseFits
    <3>2. Index!On(db.final, db'.final) /\ Index!On(db'.final, db'.head)
      BY <2>2, <3>1 DEF KeepsFinal, On, Index!On
    <3>3. Index!Reflects(db'.mapped, db'.head)
      BY <3>1 DEF Reflects, OnlyChain, Ascending, On, Height,
                  Index!Reflects, Index!OnlyChain, Index!Ascending, Index!On, Index!Height
    <3>4. Index!Permanent
      BY <2>2 DEF KeepsFinal, Height, Index!Permanent, Index!Height
    <3> QED BY <3>1, <3>2, <3>3, <3>4 DEF Index!Update, Index!Ref, Ref
  <2> QED BY <1>2, <2>1, <2>2 DEF StepsOn
<1>3. RunnerInv /\ RunnerInv' /\ [Next]_vars => [Index!Update]_abs
  BY <1>2, RunnerNext
<1> QED BY <1>1, <1>3, RunnerInvAlways, PTL DEF Spec, IndexesOneChain, Index!Spec

(***************************************************************************)
(* When the node never reports a height that is behind what it reported,     *)
(* nothing the runner takes for granted fails it: its view of the database   *)
(* is the database, what it calls final is final for the node, and neither   *)
(* the assertion of the advance in run() nor that of moveToBlocks(), that a  *)
(* fork starts within the local chain, fails.                                *)
(***************************************************************************)
THEOREM RunnerAlwaysSound ==
    ASSUME ~ Lagging
    PROVE  Spec => []RunnerIsSound
<1>1. RunnerInv => RunnerIsSound
  <2> SUFFICES ASSUME RunnerInv
               PROVE  TypeOK /\ FinalIsFinal /\ NothingBreaks
    BY DEF RunnerIsSound
  <2>1. FinalIsFinal /\ NothingBreaks
    BY DEF RunnerInv, DatabaseFits, TargetFits, FinalIsFinal, NothingBreaks
  <2>2. goto.from <= goto.to => phase = "hot"
    BY DEF RunnerInv, GotoFits, NoGoto
  <2> QED BY <2>1, <2>2 DEF RunnerInv, DatabaseFits, ProcessFits, TypeOK
<1> QED BY <1>1, RunnerInvAlways, PTL

(***************************************************************************)
(* Then, too, going over to finalized blocks, of the archive or the node,    *)
(* never takes the index below the hot blocks it held: minimumCommitHeight   *)
(* keeps the batches back until they reach them, and the stream does not end *)
(* before.                                                                   *)
(***************************************************************************)
THEOREM RunnerNeverStepsBack ==
    ASSUME ~ Lagging
    PROVE  Spec => NoStepBack
<1>1. RunnerInv /\ [Next]_vars
          => [(phase \in {"archive", "cold"}) => (Height(db'.head) >= Height(db.head))]_db
  BY RunnerNext DEF StepsOn
<1> QED BY <1>1, RunnerInvAlways, PTL DEF Spec, NoStepBack
------------------------------------------------------------------------------
(***************************************************************************)
(* Archive: the chains that are dumped.                                      *)
(***************************************************************************)
\* The blocks of a chain with numbers from a on, below b.
Part(c, a, b) == SubSeq(c, Dumper!Below(c, a) + 1, Dumper!Below(c, b))

LEMMA ChainIs ==
    ASSUME NEW c \in DumpedChains
    PROVE  /\ c \in Seq(Dumper!Blocks) /\ Len(c) \in Nat
           /\ \A k \in 1..Len(c) : c[k] \in Dumper!Blocks /\ c[k].number \in Nat
           /\ \A k, l \in 1..Len(c) : k < l => c[k].number < c[l].number
<1>1. /\ c \in Seq(Dumper!Blocks)
      /\ \A k \in 1..Len(c) : c[k].number \in Nat
      /\ \A k, l \in 1..Len(c) : k < l => c[k].number < c[l].number
  BY OlderProcessorsAssumption DEF Dumper!ArchiveAssumption, Dumper!ChainsAssumption
<1>2. Len(c) \in Nat /\ \A k \in 1..Len(c) : c[k] \in Dumper!Blocks
  BY <1>1
<1> QED BY <1>1, <1>2

LEMMA BlockIs ==
    ASSUME NEW b \in Dumper!Blocks
    PROVE  /\ b.number \in Nat /\ b # Dumper!NoBlock
           /\ \E c \in DumpedChains : \E k \in 1..Len(c) : c[k] = b
<1>1. PICK c \in DumpedChains : b \in Dumper!ToSet(c)
  BY DEF Dumper!Blocks
<1>2. PICK k \in 1..Len(c) : c[k] = b
  <2>1. DOMAIN c = 1..Len(c)
    BY ChainIs
  <2> QED BY <1>1, <2>1 DEF Dumper!ToSet
<1>3. b.number \in Nat
  BY <1>2, ChainIs
<1>4. b # Dumper!NoBlock
  BY <1>3 DEF Dumper!NoBlock
<1> QED BY <1>2, <1>3, <1>4

LEMMA SameCountingOfChunks ==
    /\ \A S : Dumper!Cardinality(S) = Cardinality(S)
    /\ \A S : Dumper!IsFiniteSet(S) = IsFiniteSet(S)
BY DEF Dumper!Cardinality, Cardinality, Dumper!IsFiniteSet, IsFiniteSet

\* The blocks below a number are the first ones.
LEMMA BelowIs ==
    ASSUME NEW c \in DumpedChains, NEW n \in Int
    PROVE  /\ Dumper!Below(c, n) \in 0..Len(c)
           /\ \A l \in 1..Len(c) : c[l].number < n <=> l <= Dumper!Below(c, n)
<1> DEFINE Above == {k \in 0..Len(c) : k < Len(c) => ~ (c[k + 1].number < n)}
<1>1. Len(c) \in Nat /\ \A k \in 1..Len(c) : c[k].number \in Nat
  BY ChainIs
<1>2. PICK m \in Above : \A k \in Above : m <= k
  <2>1. Len(c) \in Above /\ Above \subseteq Nat
    BY <1>1
  <2> HIDE DEF Above
  <2> QED BY <2>1, LeastNatural
<1>3. m \in 0..Len(c)
  OBVIOUS
<1>4. ASSUME NEW l \in 1..Len(c)
      PROVE  c[l].number < n <=> l <= m
  <2>1. CASE l <= m
    <3>1. l - 1 \notin Above
      <4>1. l - 1 < m /\ m \in Int /\ l - 1 \in Int
        BY <1>1, <1>3, <2>1
      <4> HIDE DEF Above
      <4> QED BY <1>2, <4>1
    <3>2. l - 1 \in 0..Len(c) /\ l - 1 < Len(c) /\ (l - 1) + 1 = l
      BY <1>1
    <3> QED BY <2>1, <3>1, <3>2
  <2>2. CASE l > m
    <3>1. m + 1 \in 1..Len(c) /\ m < Len(c)
      BY <1>1, <1>3, <2>2
    <3>2. ~ (c[m + 1].number < n)
      BY <1>2, <3>1
    <3>3. l = m + 1 \/ c[m + 1].number < c[l].number
      BY <1>1, <1>3, <2>2, <3>1, ChainIs
    <3> QED BY <1>1, <1>3, <2>2, <3>1, <3>2, <3>3
  <2> QED BY <1>1, <1>3, <2>1, <2>2
<1>5. {k \in 1..Len(c) : c[k].number < n} = 1..m
  BY <1>1, <1>3, <1>4
<1>6. Cardinality(1..m) = m
  BY <1>1, <1>3, FS_Interval
<1>7. Dumper!Below(c, n) = m
  BY <1>5, <1>6, SameCountingOfChunks, Zenon DEF Dumper!Below
<1> QED BY <1>3, <1>4, <1>7

LEMMA BelowUnique ==
    ASSUME NEW c \in DumpedChains, NEW n \in Int, NEW k \in 0..Len(c),
           \A l \in 1..Len(c) : c[l].number < n <=> l <= k
    PROVE  Dumper!Below(c, n) = k
<1> DEFINE m == Dumper!Below(c, n)
<1>1. Len(c) \in Nat /\ m \in 0..Len(c) /\ \A l \in 1..Len(c) : c[l].number < n <=> l <= m
  BY BelowIs, ChainIs
<1> HIDE DEF m
<1>2. ~ (m < k)
  <2> SUFFICES ASSUME m < k PROVE FALSE
    OBVIOUS
  <2>1. k \in 1..Len(c)  BY <1>1
  <2> QED BY <1>1, <2>1
<1>3. ~ (k < m)
  <2> SUFFICES ASSUME k < m PROVE FALSE
    OBVIOUS
  <2>1. m \in 1..Len(c)  BY <1>1
  <2> QED BY <1>1, <2>1
<1>4. m = k  BY <1>1, <1>2, <1>3
<1> QED BY <1>4 DEF m

LEMMA BelowGrows ==
    ASSUME NEW c \in DumpedChains, NEW a \in Int, NEW b \in Int, a <= b
    PROVE  Dumper!Below(c, a) <= Dumper!Below(c, b)
<1> DEFINE m == Dumper!Below(c, a)
           k == Dumper!Below(c, b)
<1>1. /\ Len(c) \in Nat /\ m \in 0..Len(c) /\ k \in 0..Len(c)
      /\ \A l \in 1..Len(c) : c[l].number < a <=> l <= m
      /\ \A l \in 1..Len(c) : c[l].number < b <=> l <= k
      /\ \A l \in 1..Len(c) : c[l].number \in Nat
  BY BelowIs, ChainIs
<1> HIDE DEF m, k
<1>2. CASE m = 0  BY <1>1, <1>2 DEF m, k
<1>3. CASE m # 0
  <2>1. m \in 1..Len(c)  BY <1>1, <1>3
  <2>2. c[m].number < a /\ c[m].number \in Nat  BY <1>1, <2>1
  <2>3. c[m].number < b  BY <2>2
  <2>4. m <= k  BY <1>1, <2>1, <2>3
  <2> QED BY <2>4 DEF m, k
<1> QED BY <1>2, <1>3

\* Up to a block, and with it.
LEMMA BelowNext ==
    ASSUME NEW c \in DumpedChains, NEW k \in 1..Len(c)
    PROVE  Dumper!Below(c, c[k].number + 1) = k
<1>1. Len(c) \in Nat /\ \A l \in 1..Len(c) : c[l].number \in Nat
  BY ChainIs
<1>2. ASSUME NEW l \in 1..Len(c)
      PROVE  c[l].number < c[k].number + 1 <=> l <= k
  <2>1. l < k => c[l].number < c[k].number
    BY ChainIs
  <2>2. k < l => c[k].number < c[l].number
    BY ChainIs
  <2> QED BY <1>1, <2>1, <2>2
<1>3. c[k].number + 1 \in Int /\ k \in 0..Len(c)
  BY <1>1
<1> QED BY <1>2, <1>3, BelowUnique

LEMMA PartIs ==
    ASSUME NEW c \in DumpedChains, NEW a \in Int, NEW b \in Int
    PROVE  /\ Part(c, a, b) \in Seq(Dumper!Blocks)
           /\ b <= a => Part(c, a, b) = << >>
           /\ Dumper!InRange(c, [from |-> a, to |-> b - 1]) = Part(c, a, b)
<1>1. /\ Dumper!Below(c, a) \in 0..Len(c) /\ Dumper!Below(c, b) \in 0..Len(c) /\ Len(c) \in Nat
      /\ \A k \in 1..Len(c) : c[k] \in Dumper!Blocks
  BY BelowIs, ChainIs
<1>2. Part(c, a, b) \in Seq(Dumper!Blocks)
  BY <1>1, SubSeqProperties DEF Part
<1>3. b <= a => Part(c, a, b) = << >>
  <2> SUFFICES ASSUME b <= a PROVE Part(c, a, b) = << >>
    OBVIOUS
  <2>1. Dumper!Below(c, b) <= Dumper!Below(c, a)
    BY BelowGrows
  <2>2. Dumper!Below(c, b) < Dumper!Below(c, a) + 1
    BY <1>1, <2>1
  <2> QED BY <1>1, <2>2, SubSeqEmpty DEF Part
<1>4. (b - 1) + 1 = b
  OBVIOUS
<1>5. Dumper!InRange(c, [from |-> a, to |-> b - 1]) = Part(c, a, b)
  BY <1>4 DEF Dumper!InRange, Part
<1> QED BY <1>2, <1>3, <1>5

\* A batch s, up to the n-th block, goes on from the blocks below f.
GoesOnFrom(c, a, f, t, n, s) ==
    /\ s \in Seq(Dumper!Blocks) /\ s # << >>
    /\ n \in 1..Len(c) /\ Dumper!Last(s) = c[n]
    /\ Dumper!Below(c, f) + 1 \in 1..Len(c) /\ Head(s) = c[Dumper!Below(c, f) + 1]
    /\ f <= c[n].number /\ c[n].number <= t
    /\ Part(c, a, f) \o s = Part(c, a, c[n].number + 1)

LEMMA BatchIs ==
    ASSUME NEW c \in DumpedChains, NEW a \in Int, NEW f \in Int, NEW t \in Int, a <= f,
           NEW n \in Dumper!Below(c, f) + 1..Dumper!Below(c, t + 1),
           NEW s, s = SubSeq(c, Dumper!Below(c, f) + 1, n)
    PROVE  GoesOnFrom(c, a, f, t, n, s)
<1> DEFINE i == Dumper!Below(c, f)
           j == Dumper!Below(c, t + 1)
           h == Dumper!Below(c, a)
<1>1. /\ i \in 0..Len(c) /\ j \in 0..Len(c) /\ h \in 0..Len(c) /\ Len(c) \in Nat
      /\ \A l \in 1..Len(c) : c[l] \in Dumper!Blocks /\ c[l].number \in Nat
      /\ \A l \in 1..Len(c) : c[l].number < f <=> l <= i
      /\ \A l \in 1..Len(c) : c[l].number < t + 1 <=> l <= j
      /\ c \in Seq(Dumper!Blocks)
  <2>1. t + 1 \in Int
    OBVIOUS
  <2>2. j \in 0..Len(c) /\ \A l \in 1..Len(c) : c[l].number < t + 1 <=> l <= j
    BY <2>1, BelowIs
  <2>3. i \in 0..Len(c) /\ \A l \in 1..Len(c) : c[l].number < f <=> l <= i
    BY BelowIs
  <2>4. h \in 0..Len(c)
    BY BelowIs
  <2> HIDE DEF i, j, h
  <2> QED BY <2>2, <2>3, <2>4, ChainIs
<1>2. h <= i
  BY BelowGrows
<1>3. Dumper!Below(c, c[n].number + 1) = n
  BY <1>1, BelowNext
<1>4. /\ n \in i + 1..j /\ s = SubSeq(c, i + 1, n)
      /\ Part(c, a, f) = SubSeq(c, h + 1, i)
      /\ Part(c, a, c[n].number + 1) = SubSeq(c, h + 1, n)
  BY <1>3 DEF Part
<1> HIDE DEF i, j, h
<1>5. n \in 1..Len(c) /\ i + 1 \in 1..Len(c) /\ i + 1 <= n
  BY <1>1, <1>4
<1>6. \A k \in i + 1..n : c[k] \in Dumper!Blocks
  BY <1>1, <1>5
<1>7. /\ s \in Seq(Dumper!Blocks) /\ Len(s) = n - (i + 1) + 1
      /\ \A k \in 1..n - (i + 1) + 1 : s[k] = c[(i + 1) + k - 1]
  <2>1. i + 1 \in Int /\ n \in Int
    BY <1>5
  <2>2. /\ SubSeq(c, i + 1, n) \in Seq(Dumper!Blocks)
        /\ Len(SubSeq(c, i + 1, n)) = IF i + 1 <= n THEN n - (i + 1) + 1 ELSE 0
        /\ \A k \in 1..n - (i + 1) + 1 : SubSeq(c, i + 1, n)[k] = c[(i + 1) + k - 1]
    BY <1>6, <2>1, SubSeqProperties
  <2> QED BY <1>4, <1>5, <2>2, Zenon
<1>8. Len(s) \in Nat \ {0} /\ s[Len(s)] = c[n] /\ s[1] = c[i + 1]
  <2>1. i \in Int /\ n \in Int /\ i + 1 <= n
    BY <1>1, <1>5
  <2>2. Len(s) = n - i /\ n - i \in 1..n - (i + 1) + 1 /\ 1 \in 1..n - (i + 1) + 1
    BY <1>7, <2>1
  <2>3. s[n - i] = c[(i + 1) + (n - i) - 1] /\ s[1] = c[(i + 1) + 1 - 1]
    BY <1>7, <2>2
  <2>4. (i + 1) + (n - i) - 1 = n /\ (i + 1) + 1 - 1 = i + 1
    BY <2>1
  <2>5. n - i \in Nat \ {0}
    BY <2>1
  <2> QED BY <2>2, <2>3, <2>4, <2>5, Zenon
<1>9. s # << >> /\ Dumper!Last(s) = c[n] /\ Head(s) = c[i + 1]
  <2>1. s # << >>
    BY <1>7, <1>8
  <2>2. Head(s) = s[1]
    BY <1>7, <2>1
  <2> QED BY <1>8, <2>1, <2>2, Zenon DEF Dumper!Last
<1>10. f <= c[n].number /\ c[n].number <= t
  BY <1>1, <1>4, <1>5
<1>11. SubSeq(c, h + 1, i) \o SubSeq(c, i + 1, n) = SubSeq(c, h + 1, n)
  <2>1. h + 1 \in 1..Len(c) + 1 /\ i \in (h + 1) - 1..Len(c) /\ n \in i..Len(c)
    BY <1>1, <1>2, <1>5 DEF h, i
  <2> QED BY <1>1, <2>1, ConcatAdjacentSubSeq
<1> QED BY <1>4, <1>5, <1>7, <1>9, <1>10, <1>11 DEF i, GoesOnFrom

\* Two chains that share a block are the same up to it.
LEMMA SamePart ==
    ASSUME NEW c \in DumpedChains, NEW d \in DumpedChains,
           NEW k \in 1..Len(c), NEW l \in 1..Len(d), c[k] = d[l]
    PROVE  /\ k = l
           /\ \A i \in 1..k : c[i] = d[i]
           /\ \A a, b \in Int : b <= c[k].number + 1 => Part(c, a, b) = Part(d, a, b)
<1>1. /\ c \in Seq(Dumper!Blocks) /\ d \in Seq(Dumper!Blocks) /\ Len(c) \in Nat /\ Len(d) \in Nat
      /\ \A i \in 1..Len(c) : c[i] \in Dumper!Blocks /\ c[i].number \in Nat
      /\ \A i \in 1..Len(d) : d[i] \in Dumper!Blocks /\ d[i].number \in Nat
      /\ \A i, j \in 1..Len(c) : i < j => c[i].number < c[j].number
      /\ \A i, j \in 1..Len(d) : i < j => d[i].number < d[j].number
  BY ChainIs
<1>2. SubSeq(c, 1, k) = SubSeq(d, 1, l)
  BY OlderProcessorsAssumption DEF Dumper!ArchiveAssumption, Dumper!ChainsAssumption
<1>3. /\ Len(SubSeq(c, 1, k)) = k - 1 + 1
      /\ \A i \in 1..k - 1 + 1 : SubSeq(c, 1, k)[i] = c[1 + i - 1]
  <2>1. \A i \in 1..k : c[i] \in Dumper!Blocks  BY <1>1
  <2> QED BY <2>1, SubSeqProperties
<1>4. /\ Len(SubSeq(d, 1, l)) = l - 1 + 1
      /\ \A i \in 1..l - 1 + 1 : SubSeq(d, 1, l)[i] = d[1 + i - 1]
  <2>1. \A i \in 1..l : d[i] \in Dumper!Blocks  BY <1>1
  <2> QED BY <2>1, SubSeqProperties
<1>5. k = l
  BY <1>2, <1>3, <1>4
<1>6. ASSUME NEW i \in 1..k PROVE c[i] = d[i]
  <2>1. i \in 1..k - 1 + 1 /\ 1 + i - 1 = i  OBVIOUS
  <2> QED BY <1>2, <1>3, <1>4, <1>5, <2>1
<1>7. ASSUME NEW b \in Int, b <= c[k].number + 1
      PROVE  Dumper!Below(c, b) = Dumper!Below(d, b) /\ Dumper!Below(c, b) \in 0..k
  <2> DEFINE m == Dumper!Below(c, b)
  <2>1. m \in 0..Len(c) /\ \A i \in 1..Len(c) : c[i].number < b <=> i <= m
    BY BelowIs
  <2>2. m <= Dumper!Below(c, c[k].number + 1) /\ Dumper!Below(c, c[k].number + 1) = k
    <3>1. c[k].number + 1 \in Int  BY <1>1
    <3> QED BY <1>7, <3>1, BelowGrows, BelowNext
  <2> HIDE DEF m
  <2>3. m \in 0..k /\ m \in 0..Len(d)
    BY <1>1, <1>5, <2>1, <2>2
  <2>4. ASSUME NEW i \in 1..Len(d)
        PROVE  d[i].number < b <=> i <= m
    <3>1. CASE i <= k
      <4>1. i \in 1..k /\ i \in 1..Len(c)  BY <1>1, <3>1
      <4> QED BY <1>6, <2>1, <4>1
    <3>2. CASE i > k
      <4>1. k \in 1..Len(d)  BY <1>5
      <4>2. d[k].number < d[i].number  BY <1>1, <3>2, <4>1
      <4>3. d[k] = c[k]  BY <1>6
      <4> QED BY <1>1, <1>7, <2>3, <3>2, <4>1, <4>2, <4>3
    <3> QED BY <3>1, <3>2
  <2>5. Dumper!Below(d, b) = m
    BY <2>3, <2>4, BelowUnique
  <2> QED BY <2>3, <2>5 DEF m
<1>8. ASSUME NEW a \in Int, NEW b \in Int, b <= c[k].number + 1
      PROVE  Part(c, a, b) = Part(d, a, b)
  <2>1. CASE b <= a
    BY <2>1, PartIs
  <2>2. CASE a < b
    <3> DEFINE i == Dumper!Below(c, a)
               j == Dumper!Below(c, b)
    <3>1. a <= c[k].number + 1
      BY <1>1, <1>8, <2>2
    <3>2. /\ i \in 0..k /\ j \in 0..k
          /\ Part(c, a, b) = SubSeq(c, i + 1, j) /\ Part(d, a, b) = SubSeq(d, i + 1, j)
      BY <1>7, <1>8, <3>1 DEF Part
    <3> HIDE DEF i, j
    <3>3. \A m \in i + 1..j : m \in 1..k /\ c[m] = d[m]
      BY <1>6, <3>2
    <3>4. SubSeq(c, i + 1, j) = SubSeq(d, i + 1, j)
      BY <3>2, <3>3
    <3> QED BY <3>2, <3>4
  <2> QED BY <2>1, <2>2
<1> QED BY <1>5, <1>6, <1>8

LEMMA ParentBefore ==
    ASSUME NEW c \in DumpedChains, NEW k \in 1..Len(c)
    PROVE  Dumper!Parent(c[k]) = IF k = 1 THEN Dumper!NoBlock ELSE c[k - 1]
<1> DEFINE b == c[k]
           d == CHOOSE d \in DumpedChains : \E l \in 1..Len(d) : d[l] = b
           l == CHOOSE l \in 1..Len(d) : d[l] = b
<1>1. d \in DumpedChains /\ \E i \in 1..Len(d) : d[i] = b
  OBVIOUS
<1>2. l \in 1..Len(d) /\ d[l] = b
  BY <1>1
<1>3. Dumper!Parent(b) = IF l = 1 THEN Dumper!NoBlock ELSE d[l - 1]
  BY DEF Dumper!Parent
<1> HIDE DEF d, l
<1>4. k = l /\ \A i \in 1..k : c[i] = d[i]
  BY <1>1, <1>2, SamePart
<1>5. k # 1 => d[k - 1] = c[k - 1]
  <2> SUFFICES ASSUME k # 1 PROVE d[k - 1] = c[k - 1]
    OBVIOUS
  <2>1. k - 1 \in 1..k
    BY ChainIs
  <2> QED BY <1>4, <2>1
<1> QED BY <1>3, <1>4, <1>5, Zenon
------------------------------------------------------------------------------
(***************************************************************************)
(* Archive: ranges, chunks and top directories.                              *)
(***************************************************************************)
LEMMA RangeIs ==
    ASSUME NEW w \in Writer
    PROVE  DumpedRanges[w].from \in Nat /\ DumpedRanges[w].to \in Nat
BY OlderProcessorsAssumption DEF Dumper!ArchiveAssumption

\* A number is in the range of one writer.
LEMMA OneOwner ==
    ASSUME NEW v \in Writer, NEW w \in Writer,
           NEW n \in DumpedRanges[v].from..DumpedRanges[v].to,
           n \in DumpedRanges[w].from..DumpedRanges[w].to
    PROVE  v = w
<1>1. v # w => \/ DumpedRanges[v].to < DumpedRanges[w].from
               \/ DumpedRanges[w].to < DumpedRanges[v].from
  BY OlderProcessorsAssumption DEF Dumper!ArchiveAssumption
<1> QED BY <1>1, RangeIs

\* A writer whose range ends above a number of another range begins above that range.
LEMMA RangesApart ==
    ASSUME NEW v \in Writer, NEW w \in Writer, v # w, NEW n \in Int,
           n \in DumpedRanges[v].from..DumpedRanges[v].to, n <= DumpedRanges[w].to
    PROVE  DumpedRanges[v].to < DumpedRanges[w].from
<1>1. \/ DumpedRanges[v].to < DumpedRanges[w].from
      \/ DumpedRanges[w].to < DumpedRanges[v].from
  BY OlderProcessorsAssumption DEF Dumper!ArchiveAssumption
<1> QED BY <1>1, RangeIs

DumperPhases == {"down", "dumping", "saving", "writing", "done"}

Dumpers ==
    [phase : DumperPhases, top : Nat, filed : Nat, next : Nat, from : Nat,
     prev : Dumper!Blocks \cup {Dumper!NoBlock}, buffer : Seq(Dumper!Blocks)]

LEMMA Typed ==
    ASSUME Dumper!TypeOK
    PROVE  /\ source \in DumpedChains
           /\ \A t \in tops : t \in Nat
           /\ writer \in [Writer -> Dumpers]
BY DEF Dumper!TypeOK, Dumpers, DumperPhases

LEMMA LastIs ==
    ASSUME NEW s \in Seq(Dumper!Blocks), s # << >>
    PROVE  Dumper!Last(s) \in Dumper!Blocks /\ Dumper!Last(s).number \in Nat
<1>1. Len(s) \in 1..Len(s)
  OBVIOUS
<1>2. s[Len(s)] \in Dumper!Blocks
  BY <1>1
<1> QED BY <1>2, BlockIs DEF Dumper!Last

LEMMA ChunkTyped ==
    ASSUME Dumper!TypeOK, NEW c \in chunks
    PROVE  /\ c.top \in Nat /\ c.from \in Nat /\ c.blocks \in Seq(Dumper!Blocks)
           /\ c.blocks # << >> => Dumper!To(c) \in Nat /\ Dumper!Last(c.blocks) \in Dumper!Blocks
<1>1. c \in [top : Nat, from : Nat, blocks : Seq(Dumper!Blocks)]
  BY DEF Dumper!TypeOK
<1> QED BY <1>1, LastIs DEF Dumper!To

LEMMA WriterTyped ==
    ASSUME Dumper!TypeOK, NEW w \in Writer
    PROVE  /\ writer[w] \in Dumpers
           /\ writer[w].phase \in DumperPhases
           /\ writer[w].top \in Nat /\ writer[w].filed \in Nat /\ writer[w].next \in Nat
           /\ writer[w].from \in Nat
           /\ writer[w].prev \in Dumper!Blocks \cup {Dumper!NoBlock}
           /\ writer[w].buffer \in Seq(Dumper!Blocks)
<1>1. writer[w] \in Dumpers
  BY Typed
<1> QED BY <1>1 DEF Dumpers

\* A chunk and its top directory are in the range of one writer.
LEMMA ChunkOwner ==
    ASSUME Dumper!ArchiveInv, NEW c \in chunks
    PROVE  \E w \in Writer :
               /\ c \in Dumper!Filed(w)
               /\ c.top \in DumpedRanges[w].from..DumpedRanges[w].to
               /\ Dumper!To(c) <= DumpedRanges[w].to
<1>1. PICK w \in Writer : /\ c \in Dumper!Filed(w) /\ DumpedRanges[w].from <= c.top
                          /\ Dumper!To(c) <= DumpedRanges[w].to
  BY DEF Dumper!ArchiveInv, Dumper!ChunkFits
<1>2. c.top <= c.from /\ c.top \in Nat /\ c.from \in Nat
  BY ChunkTyped DEF Dumper!ArchiveInv, Dumper!ChunkFits
<1>3. c.from <= DumpedRanges[w].to
  BY <1>1, <1>2 DEF Dumper!Filed
<1> QED BY <1>1, <1>2, <1>3, RangeIs

LEMMA OwnChunk ==
    ASSUME Dumper!ArchiveInv, NEW w \in Writer, NEW c \in chunks,
           \/ c \in Dumper!Filed(w)
           \/ c.top \in DumpedRanges[w].from..DumpedRanges[w].to
    PROVE  /\ c \in Dumper!Filed(w)
           /\ c.top \in DumpedRanges[w].from..DumpedRanges[w].to
           /\ c.from \in DumpedRanges[w].from..DumpedRanges[w].to
           /\ Dumper!To(c) <= DumpedRanges[w].to /\ c.from <= Dumper!To(c)
           /\ c.top \in Dumper!OwnTops(w) /\ c.top <= c.from
           /\ c.top \in Nat /\ c.from \in Nat /\ Dumper!To(c) \in Nat
<1>1. PICK v \in Writer : /\ c \in Dumper!Filed(v)
                          /\ c.top \in DumpedRanges[v].from..DumpedRanges[v].to
                          /\ Dumper!To(c) <= DumpedRanges[v].to
  BY ChunkOwner
<1>2. c.from \in DumpedRanges[v].from..DumpedRanges[v].to
  BY <1>1 DEF Dumper!Filed
<1>3. v = w
  BY <1>1, <1>2, OneOwner DEF Dumper!Filed
<1>4. c.top \in tops /\ c.top <= c.from /\ c.from <= Dumper!To(c) /\ c.blocks # << >>
  BY DEF Dumper!ArchiveInv, Dumper!ChunkFits
<1>5. c.top \in Nat /\ c.from \in Nat /\ Dumper!To(c) \in Nat
  BY <1>4, ChunkTyped DEF Dumper!ArchiveInv
<1> QED BY <1>1, <1>2, <1>3, <1>4, <1>5 DEF Dumper!OwnTops

LEMMA GreatestOf ==
    ASSUME NEW S, S \subseteq Nat, S # {}, NEW b \in Nat, \A x \in S : x <= b
    PROVE  \E x \in S : \A y \in S : y <= x
<1> DEFINE T == {n \in Nat : b - n \in S}
<1>1. T # {}
  <2>1. PICK x \in S : TRUE
    OBVIOUS
  <2>2. b - x \in Nat /\ b - (b - x) = x
    BY <2>1
  <2>3. b - x \in T
    BY <2>1, <2>2
  <2> QED BY <2>3
<1>2. PICK n \in T : \A m \in T : n <= m
  <2> HIDE DEF T
  <2>1. T \subseteq Nat
    BY DEF T
  <2> QED BY <1>1, <2>1, LeastNatural
<1>3. ASSUME NEW y \in S
      PROVE  y <= b - n
  <2>1. b - y \in Nat /\ b - (b - y) = y /\ y \in Nat
    BY <1>3
  <2>2. b - y \in T
    BY <1>3, <2>1
  <2>3. n <= b - y /\ n \in Nat
    BY <1>2, <2>2
  <2> QED BY <2>1, <2>3
<1> QED BY <1>2, <1>3

LEMMA LastTopIs ==
    ASSUME Dumper!TypeOK, NEW w \in Writer, NEW t0 \in tops, t0 <= DumpedRanges[w].to
    PROVE  /\ Dumper!LastTop(w) \in tops /\ Dumper!LastTop(w) <= DumpedRanges[w].to
           /\ Dumper!LastTop(w) \in Nat
           /\ \A t \in tops : t <= DumpedRanges[w].to => t <= Dumper!LastTop(w)
<1> DEFINE S == {t \in tops : t <= DumpedRanges[w].to}
<1>1. S \subseteq Nat /\ S # {} /\ \A t \in S : t <= DumpedRanges[w].to
  BY Typed
<1>2. PICK x \in S : \A y \in S : y <= x
  <2> HIDE DEF S
  <2> QED BY <1>1, RangeIs, GreatestOf
<1>3. Dumper!Max(S) \in S /\ \A y \in S : Dumper!Max(S) >= y
  <2>1. \A y \in S : x >= y
    <3> HIDE DEF S
    <3> QED BY <1>1, <1>2
  <2> HIDE DEF S
  <2> QED BY <1>2, <2>1 DEF Dumper!Max
<1>4. Dumper!LastTop(w) = Dumper!Max(S)
  BY DEF Dumper!LastTop
<1> HIDE DEF S
<1>5. Dumper!LastTop(w) \in S /\ \A y \in S : Dumper!LastTop(w) >= y
  BY <1>3, <1>4
<1> USE DEF S
<1> QED BY <1>5, Typed

\* The chunks of a top directory have one writer, a first and a last one.
LEMMA DirIs ==
    ASSUME Dumper!ArchiveInv, NEW t, Dumper!Dir(t) # {}
    PROVE  /\ \E v \in Writer : /\ t \in DumpedRanges[v].from..DumpedRanges[v].to
                                /\ Dumper!Dir(t) \subseteq Dumper!Filed(v)
           /\ Dumper!LastOf(Dumper!Dir(t)) \in Dumper!Dir(t)
           /\ \A c \in Dumper!Dir(t) : c.from <= Dumper!LastOf(Dumper!Dir(t)).from
           /\ Dumper!FirstOf(Dumper!Dir(t)) \in Dumper!Dir(t)
           /\ \A c \in Dumper!Dir(t) : c.from >= Dumper!FirstOf(Dumper!Dir(t)).from
<1> DEFINE dir == Dumper!Dir(t)
           S == {c.from : c \in dir}
<1>1. \A c \in dir : c \in chunks /\ c.top = t
  BY DEF Dumper!Dir
<1>2. PICK c0 \in dir : TRUE
  OBVIOUS
<1>3. PICK v \in Writer : t \in DumpedRanges[v].from..DumpedRanges[v].to
  BY <1>1, <1>2, ChunkOwner
<1>4. dir \subseteq Dumper!Filed(v)
  BY <1>1, <1>3, OwnChunk
<1>5. \A c \in dir : c.from \in Nat /\ c.from <= DumpedRanges[v].to
  BY <1>1, <1>3, OwnChunk
<1>6. S \subseteq Nat /\ S # {} /\ \A n \in S : n <= DumpedRanges[v].to
  BY <1>2, <1>5
<1>7. \E c \in dir : \A d \in dir : d.from <= c.from
  <2> HIDE DEF S
  <2>1. PICK n \in S : \A m \in S : m <= n
    BY <1>6, RangeIs, GreatestOf
  <2> QED BY <2>1 DEF S
<1>8. \E c \in dir : \A d \in dir : d.from >= c.from
  <2> HIDE DEF S
  <2>1. PICK n \in S : \A m \in S : n <= m
    BY <1>6, LeastNatural
  <2>2. \A m \in S : m >= n
    BY <1>6, <2>1
  <2> QED BY <2>1, <2>2 DEF S
<1> HIDE DEF dir
<1>9. Dumper!LastOf(dir) \in dir /\ \A c \in dir : c.from <= Dumper!LastOf(dir).from
  BY <1>7 DEF Dumper!LastOf
<1>10. Dumper!FirstOf(dir) \in dir /\ \A c \in dir : c.from >= Dumper!FirstOf(dir).from
  BY <1>8 DEF Dumper!FirstOf
<1> QED BY <1>3, <1>4, <1>9, <1>10 DEF dir
------------------------------------------------------------------------------
(***************************************************************************)
(* Archive: where a dumper goes on.                                          *)
(***************************************************************************)
LEMMA GreaterOf ==
    ASSUME NEW a \in Nat, NEW b \in Nat
    PROVE  Dumper!Max({a, b}) = IF a >= b THEN a ELSE b
<1> DEFINE S == {a, b}
           m == IF a >= b THEN a ELSE b
<1>1. m \in S /\ \A y \in S : m >= y
  OBVIOUS
<1>2. \A x \in S : (\A y \in S : x >= y) => x = m
  OBVIOUS
<1> HIDE DEF S, m
<1>3. Dumper!Max(S) \in S /\ \A y \in S : Dumper!Max(S) >= y
  BY <1>1 DEF Dumper!Max
<1>4. Dumper!Max(S) = m
  BY <1>2, <1>3
<1> QED BY <1>4 DEF S, m

LEMMA EmptyRange ==
    ASSUME Dumper!ArchiveInv, NEW w \in Writer, Dumper!OwnTops(w) = {}
    PROVE  Dumper!Filed(w) = {} /\ Dumper!EndsAt(w, DumpedRanges[w].from)
<1>1. Dumper!Filed(w) = {}
  BY OwnChunk DEF Dumper!Filed
<1>2. Dumper!RangeFits(w)
  BY DEF Dumper!ArchiveInv
<1>3. PICK n \in {DumpedRanges[w].from} \cup {Dumper!To(c) + 1 : c \in Dumper!Filed(w)} :
          Dumper!EndsAt(w, n)
  BY <1>2 DEF Dumper!RangeFits
<1>4. n = DumpedRanges[w].from
  BY <1>1
<1> QED BY <1>1, <1>3, <1>4

\* Behind the last chunk of the last top directory of a range there is nothing.
LEMMA EndsBehind ==
    ASSUME Dumper!ArchiveInv, NEW w \in Writer, NEW t \in Dumper!OwnTops(w),
           \A u \in Dumper!OwnTops(w) : u <= t,
           NEW last \in Dumper!Dir(t), \A c \in Dumper!Dir(t) : c.from <= last.from
    PROVE  Dumper!EndsAt(w, Dumper!To(last) + 1)
<1>1. t \in Nat /\ t \in DumpedRanges[w].from..DumpedRanges[w].to /\ t \in tops
  BY Typed DEF Dumper!OwnTops, Dumper!ArchiveInv
<1>2. /\ last \in chunks /\ last.top = t
  BY DEF Dumper!Dir
<1>3. /\ last \in Dumper!Filed(w) /\ last.from \in Nat /\ Dumper!To(last) \in Nat
      /\ last.from <= Dumper!To(last) /\ DumpedRanges[w].from <= last.from
      /\ last.top <= last.from
  BY <1>1, <1>2, OwnChunk, RangeIs
<1>4. ASSUME NEW c \in Dumper!Filed(w)
      PROVE  Dumper!To(c) < Dumper!To(last) + 1
  <2>1. /\ c \in chunks /\ c.top \in Dumper!OwnTops(w) /\ c.from \in Nat /\ Dumper!To(c) \in Nat
        /\ c.top \in Nat /\ c.from <= Dumper!To(c)
    BY <1>4, OwnChunk DEF Dumper!Filed
  <2>2. /\ \A u \in tops : u > c.top => u > Dumper!To(c)
        /\ \A d \in chunks : c.from <= d.from /\ d.from <= Dumper!To(c) => c = d
    BY <2>1 DEF Dumper!ArchiveInv, Dumper!ChunkFits
  <2>3. CASE c.top = t
    <3>1. c.from <= last.from
      BY <2>1, <2>3 DEF Dumper!Dir
    <3>2. c = last \/ last.from > Dumper!To(c)
      BY <1>2, <1>3, <2>1, <2>2, <3>1
    <3> QED BY <1>3, <2>1, <3>2
  <2>4. CASE c.top # t
    <3>1. t > c.top
      BY <1>1, <2>1, <2>4
    <3>2. t > Dumper!To(c)
      BY <1>1, <2>2, <3>1
    <3> QED BY <1>1, <1>2, <1>3, <2>1, <3>2
  <2> QED BY <2>3, <2>4
<1>5. PICK n : Dumper!EndsAt(w, n)
  BY DEF Dumper!ArchiveInv, Dumper!RangeFits
<1>6. /\ n \in Nat /\ \A c \in Dumper!Filed(w) : Dumper!To(c) < n
      /\ \A m \in DumpedRanges[w].from..n - 1 :
             \E c \in Dumper!Filed(w) : m \in c.from..Dumper!To(c)
  BY <1>5 DEF Dumper!EndsAt
<1>7. Dumper!To(last) + 1 <= n
  BY <1>3, <1>6
<1>8. \A m \in DumpedRanges[w].from..(Dumper!To(last) + 1) - 1 : m \in DumpedRanges[w].from..n - 1
  BY <1>3, <1>6, <1>7, RangeIs
<1>9. Dumper!To(last) + 1 \in Nat /\ DumpedRanges[w].from <= Dumper!To(last) + 1
  BY <1>3, RangeIs
<1> QED BY <1>4, <1>6, <1>8, <1>9 DEF Dumper!EndsAt

\* What append() finds.
GoesOn(w, s, n) ==
    /\ Dumper!EndsAt(w, n)
    /\ s.top \in Nat /\ DumpedRanges[w].from <= s.top /\ s.top <= n
    /\ Dumper!Dir(s.top) = {} => s.top = n
    /\ \A t \in Dumper!OwnTops(w) : t <= s.top
    /\ IF s.dir = {} THEN n = s.top /\ (storage = "s3" => Dumper!Filed(w) = {})
       ELSE /\ Dumper!LastOf(s.dir) \in Dumper!Filed(w)
            /\ n = Dumper!To(Dumper!LastOf(s.dir)) + 1
    /\ s.dir \subseteq chunks

LEMMA StartIs ==
    ASSUME Dumper!ArchiveInv, NEW w \in Writer, NEW s, s = Dumper!AppendState(w)
    PROVE  /\ ~ Dumper!Overlapping(w)
           /\ GoesOn(w, s, IF s.dir = {} THEN s.top ELSE Dumper!To(Dumper!LastOf(s.dir)) + 1)
<1> DEFINE from == DumpedRanges[w].from
           to == DumpedRanges[w].to
           t == Dumper!LastTop(w)
           dir == Dumper!Dir(t)
<1>1. from \in Nat /\ to \in Nat /\ Dumper!TypeOK /\ \A u \in tops : u \in Nat
  BY RangeIs, Typed DEF Dumper!ArchiveInv
<1>2. ASSUME Dumper!OwnTops(w) = {}, s = [top |-> from, dir |-> {}]
      PROVE  GoesOn(w, s, IF s.dir = {} THEN s.top ELSE Dumper!To(Dumper!LastOf(s.dir)) + 1)
  <2>1. Dumper!Filed(w) = {} /\ Dumper!EndsAt(w, from)
    BY <1>2, EmptyRange
  <2>2. s.top = from /\ s.dir = {}
    BY <1>2
  <2> QED BY <1>1, <1>2, <2>1, <2>2 DEF GoesOn
<1>3. CASE \A u \in tops : u > to
  <2>1. Dumper!OwnTops(w) = {}
    BY <1>1, <1>3 DEF Dumper!OwnTops
  <2>2. s = [top |-> from, dir |-> {}]
    BY <1>3 DEF Dumper!AppendState
  <2>3. ~ Dumper!Overlapping(w)
    BY <1>1, <1>3 DEF Dumper!Overlapping
  <2> QED BY <1>2, <2>1, <2>2, <2>3
<1>4. CASE \E u \in tops : ~ (u > to)
  <2>1. PICK u \in tops : u <= to
    BY <1>1, <1>4
  <2>2. t \in tops /\ t <= to /\ t \in Nat /\ \A x \in tops : x <= to => x <= t
    BY <1>1, <2>1, LastTopIs
  <2>3. s = IF dir = {} THEN [top |-> Dumper!Max({t, from}), dir |-> {}]
            ELSE IF Dumper!FirstOf(dir).from < from THEN [top |-> from, dir |-> {}]
            ELSE [top |-> t, dir |-> dir]
    BY <1>4 DEF Dumper!AppendState
  <2>4. Dumper!Overlapping(w) =>
            /\ dir # {}
            /\ IF Dumper!FirstOf(dir).from < from THEN Dumper!To(Dumper!LastOf(dir)) >= from
               ELSE Dumper!To(Dumper!LastOf(dir)) > to
    BY DEF Dumper!Overlapping
  <2>5. Dumper!Max({t, from}) = IF t >= from THEN t ELSE from
    BY <1>1, <2>2, GreaterOf
  <2> HIDE DEF t, dir
  <2>6. CASE t < from
    <3>1. Dumper!OwnTops(w) = {}
      <4>1. ASSUME NEW x \in Dumper!OwnTops(w)
            PROVE  FALSE
        <5>1. x \in tops /\ x \in Nat /\ from <= x /\ x <= to
          BY <1>1, <4>1 DEF Dumper!OwnTops
        <5>2. x <= t
          BY <2>2, <5>1
        <5> QED BY <1>1, <2>2, <2>6, <5>1, <5>2
      <4> QED BY <4>1
    <3>2. CASE dir = {}
      <4>1. s = [top |-> from, dir |-> {}]
        BY <1>1, <2>2, <2>3, <2>5, <2>6, <3>2
      <4> QED BY <1>2, <2>4, <3>1, <3>2, <4>1
    <3>3. CASE dir # {}
      <4>1. PICK v \in Writer : /\ t \in DumpedRanges[v].from..DumpedRanges[v].to
                                /\ dir \subseteq Dumper!Filed(v)
        BY <3>3, DirIs DEF dir
      <4>2. Dumper!LastOf(dir) \in dir /\ Dumper!FirstOf(dir) \in dir
        BY <3>3, DirIs DEF dir
      <4>3. v # w
        BY <1>1, <2>2, <2>6, <4>1
      <4>4. DumpedRanges[v].to < from /\ DumpedRanges[v].to \in Nat
        BY <2>2, <4>1, <4>3, RangesApart, RangeIs
      <4>5. Dumper!FirstOf(dir).from <= DumpedRanges[v].to /\ Dumper!FirstOf(dir).from \in Nat
        <5>1. Dumper!FirstOf(dir) \in chunks /\ Dumper!FirstOf(dir) \in Dumper!Filed(v)
          BY <4>1, <4>2 DEF Dumper!Filed
        <5> QED BY <5>1, OwnChunk, RangeIs
      <4>6. Dumper!To(Dumper!LastOf(dir)) <= DumpedRanges[v].to /\ Dumper!To(Dumper!LastOf(dir)) \in Nat
        <5>1. Dumper!LastOf(dir) \in chunks /\ Dumper!LastOf(dir) \in Dumper!Filed(v)
          BY <4>1, <4>2 DEF Dumper!Filed
        <5> QED BY <5>1, OwnChunk
      <4>7. Dumper!FirstOf(dir).from < from /\ ~ (Dumper!To(Dumper!LastOf(dir)) >= from)
        BY <1>1, <4>4, <4>5, <4>6
      <4>8. s = [top |-> from, dir |-> {}]
        BY <2>3, <3>3, <4>7
      <4> QED BY <1>2, <2>4, <3>1, <4>7, <4>8
    <3> QED BY <3>2, <3>3
  <2>7. CASE t >= from
    <3>1. t \in Dumper!OwnTops(w) /\ \A x \in Dumper!OwnTops(w) : x <= t
      BY <1>1, <2>2, <2>7 DEF Dumper!OwnTops
    <3>2. CASE dir = {}
      <4>1. s.top = t /\ s.dir = {}
        BY <1>1, <2>2, <2>3, <2>5, <2>7, <3>2
      <4>2. Dumper!EndsAt(w, t)
        BY <3>1, <3>2 DEF Dumper!ArchiveInv, Dumper!RangeFits, dir
      <4>3. storage # "s3"
        BY <2>2, <3>2 DEF Dumper!ArchiveInv, Dumper!TopFits, dir
      <4>4. t <= t
        BY <2>2
      <4> QED BY <2>2, <2>4, <2>7, <3>1, <3>2, <4>1, <4>2, <4>3, <4>4 DEF GoesOn
    <3>3. CASE dir # {}
      <4>1. Dumper!LastOf(dir) \in dir /\ Dumper!FirstOf(dir) \in dir
            /\ \A c \in dir : c.from <= Dumper!LastOf(dir).from
        BY <3>3, DirIs DEF dir
      <4>2. \A c \in dir : c \in chunks /\ c.top = t
        BY DEF dir, Dumper!Dir
      <4>3. t \in from..to
        BY <3>1 DEF Dumper!OwnTops
      <4>4. \A c \in dir : /\ c \in Dumper!Filed(w) /\ c.from \in from..to
                           /\ Dumper!To(c) <= to /\ Dumper!To(c) \in Nat
                           /\ c.top <= c.from /\ c.from <= Dumper!To(c)
        BY <4>2, <4>3, OwnChunk
      <4>5. ~ (Dumper!FirstOf(dir).from < from) /\ ~ (Dumper!To(Dumper!LastOf(dir)) > to)
        BY <1>1, <4>1, <4>4
      <4>6. s.top = t /\ s.dir = dir
        BY <2>3, <3>3, <4>5
      <4>7. Dumper!EndsAt(w, Dumper!To(Dumper!LastOf(dir)) + 1)
        BY <3>1, <4>1, EndsBehind DEF dir
      <4>8. t <= Dumper!To(Dumper!LastOf(dir)) + 1
        BY <1>1, <2>2, <4>1, <4>2, <4>4
      <4>9. s.dir \subseteq chunks /\ s.dir # {} /\ Dumper!Dir(s.top) # {}
        BY <3>3, <4>2, <4>6 DEF dir
      <4> QED BY <2>2, <2>4, <2>7, <3>1, <4>1, <4>4, <4>5, <4>6, <4>7, <4>8, <4>9 DEF GoesOn
    <3> QED BY <3>2, <3>3
  <2> QED BY <1>1, <2>2, <2>6, <2>7
<1> QED BY <1>3, <1>4
------------------------------------------------------------------------------
(***************************************************************************)
(* Archive: steps of a dumper that write nothing.                            *)
(***************************************************************************)
Up == {"dumping", "saving", "writing"}

\* WriterFits() and Linked() of the state that a dumper goes to.
TopOf(i) == IF i.filed >= TopDirSize THEN i.next ELSE i.top

Fits(w, i) ==
    i.phase \in Up =>
        /\ Dumper!EndsAt(w, i.next)
        /\ DumpedRanges[w].from <= i.top /\ i.top <= i.next
        /\ Dumper!Dir(i.top) = {} => i.top = i.next
        /\ IF i.phase = "writing"
           THEN TopOf(i) \in tops /\ \A t \in Dumper!OwnTops(w) : t <= TopOf(i)
           ELSE \A t \in Dumper!OwnTops(w) : t <= i.top
        /\ i.from <= DumpedRanges[w].to + 1
        /\ i.prev # Dumper!NoBlock => i.prev.number = i.from - 1
        /\ IF i.buffer = << >>
           THEN i.phase = "dumping" /\ i.from = i.next
           ELSE Dumper!Last(i.buffer) = i.prev /\ i.next < i.from
        /\ storage = "s3" /\ i.prev = Dumper!NoBlock => Dumper!Filed(w) = {}

FiledOf(w, chain) ==
    \A c \in Dumper!Filed(w) : c.blocks = Part(chain, c.from, Dumper!To(c) + 1)

InMemoryOf(i, chain) ==
    i.phase \in Up =>
        /\ i.buffer = Part(chain, i.next, i.from)
        /\ i.prev # Dumper!NoBlock => \E k \in 1..Len(chain) : chain[k] = i.prev

AllOf(w, i, chain) ==
    i.phase = "done" /\ (spent.switches = 0 \/ Dumper!NoticesSwitches(w)) =>
        \A k \in 1..Len(chain) :
            chain[k].number \in DumpedRanges[w].from..DumpedRanges[w].to =>
                \E c \in Dumper!Filed(w) : chain[k].number \in c.from..Dumper!To(c)

Links(w, i, chain) ==
    /\ spent.switches = 0 => chain = source
    /\ FiledOf(w, chain) /\ InMemoryOf(i, chain) /\ AllOf(w, i, chain)

LEMMA FitsIs ==
    ASSUME NEW w \in Writer
    PROVE  Dumper!WriterFits(w) <=> Fits(w, writer[w])
BY DEF Dumper!WriterFits, Fits, Up, TopOf, Dumper!NextTop

LEMMA LinksIs ==
    ASSUME NEW w \in Writer, writer[w] \in Dumpers
    PROVE  Dumper!Linked(w) <=> \E chain \in DumpedChains : Links(w, writer[w], chain)
<1>1. ASSUME NEW chain \in DumpedChains
      PROVE  Dumper!InRange(chain, [from |-> writer[w].next, to |-> writer[w].from - 1])
                 = Part(chain, writer[w].next, writer[w].from)
  BY PartIs DEF Dumpers
<1>2. ASSUME NEW chain \in DumpedChains, NEW c \in Dumper!Filed(w)
      PROVE  Dumper!InRange(chain, [from |-> c.from, to |-> Dumper!To(c)])
                 = Part(chain, c.from, Dumper!To(c) + 1)
  BY DEF Dumper!InRange, Part
<1> QED BY <1>1, <1>2 DEF Dumper!Linked, Links, FiledOf, InMemoryOf, AllOf, Up

LEMMA LinkedIs ==
    ASSUME Dumper!ArchiveInv, NEW w \in Writer, storage = "s3" \/ spent.switches = 0
    PROVE  \E chain \in DumpedChains : Links(w, writer[w], chain)
<1>1. writer[w] \in Dumpers /\ Dumper!Linked(w)
  BY Typed DEF Dumper!ArchiveInv
<1> HIDE DEF Links
<1> QED BY <1>1, LinksIs

LEMMA WriterStep ==
    ASSUME Dumper!ArchiveInv, NEW w \in Writer, NEW i \in Dumpers,
           writer' = [writer EXCEPT ![w] = i],
           UNCHANGED << source, storage, tops, chunks >>,
           spent' \in [crashes : Nat, switches : Nat], spent'.switches = spent.switches,
           Fits(w, i),
           storage = "s3" \/ spent.switches = 0 =>
               \E chain \in DumpedChains : Links(w, i, chain)
    PROVE  Dumper!ArchiveInv'
<1>1. Dumper!TypeOK'
  <2>1. writer' \in [Writer -> Dumpers]
    BY Typed DEF Dumper!ArchiveInv
  <2> QED BY <2>1 DEF Dumper!ArchiveInv, Dumper!TypeOK, Dumpers, DumperPhases
<1>2. /\ writer'[w] = i /\ writer \in [Writer -> Dumpers]
      /\ \A v \in Writer : v # w => writer'[v] = writer[v]
  BY Typed DEF Dumper!ArchiveInv
<1>3. /\ \A c \in chunks' : Dumper!ChunkFits(c)'
      /\ \A t \in tops' : Dumper!TopFits(t)'
      /\ \A v \in Writer : Dumper!RangeFits(v)'
  BY DEF Dumper!ArchiveInv, Dumper!ChunkFits, Dumper!TopFits, Dumper!RangeFits, Dumper!EndsAt,
         Dumper!OwnTops, Dumper!Filed, Dumper!Dir
<1>4. ASSUME NEW v \in Writer
      PROVE  Dumper!WriterFits(v)'
  <2>1. Fits(v, writer'[v])
    BY <1>2, FitsIs DEF Dumper!ArchiveInv
  <2> QED BY <2>1 DEF Dumper!WriterFits, Fits, Up, TopOf, Dumper!NextTop, Dumper!EndsAt,
                      Dumper!OwnTops, Dumper!Filed, Dumper!Dir
<1>5. ASSUME NEW v \in Writer, storage = "s3" \/ spent.switches = 0
      PROVE  Dumper!Linked(v)'
  <2>1. PICK chain \in DumpedChains : Links(v, writer'[v], chain)
    BY <1>2, <1>5, LinksIs DEF Dumper!ArchiveInv
  <2>2. writer'[v] \in Dumpers
    BY <1>2
  <2>3. Dumper!InRange(chain, [from |-> writer'[v].next, to |-> writer'[v].from - 1])
            = Part(chain, writer'[v].next, writer'[v].from)
    BY <2>2, PartIs DEF Dumpers
  <2>4. \A c \in Dumper!Filed(v) :
            Dumper!InRange(chain, [from |-> c.from, to |-> Dumper!To(c)])
                = Part(chain, c.from, Dumper!To(c) + 1)
    BY DEF Dumper!InRange, Part
  <2>5. Dumper!Filed(v)' = Dumper!Filed(v) /\ source' = source
    BY DEF Dumper!Filed
  <2> QED BY <2>1, <2>3, <2>4, <2>5
          DEF Dumper!Linked, Links, FiledOf, InMemoryOf, AllOf, Up
<1>6. storage' = storage
  OBVIOUS
<1> QED BY <1>1, <1>3, <1>4, <1>5, <1>6 DEF Dumper!ArchiveInv

\* A dumper that has died.
LEMMA DownFits ==
    ASSUME Dumper!ArchiveInv, NEW w \in Writer
    PROVE  /\ Dumper!Down \in Dumpers /\ Fits(w, Dumper!Down)
           /\ storage = "s3" \/ spent.switches = 0 =>
                  \E chain \in DumpedChains : Links(w, Dumper!Down, chain)
<1>1. Dumper!Down \in Dumpers /\ Dumper!Down.phase = "down"
  <2>1. << >> \in Seq(Dumper!Blocks)
    OBVIOUS
  <2> QED BY <2>1 DEF Dumper!Down, Dumpers, DumperPhases
<1>2. Fits(w, Dumper!Down)
  BY <1>1 DEF Fits, Up
<1>3. ASSUME storage = "s3" \/ spent.switches = 0
      PROVE  \E chain \in DumpedChains : Links(w, Dumper!Down, chain)
  <2>1. PICK chain \in DumpedChains : Links(w, writer[w], chain)
    BY <1>3, LinksIs, Typed DEF Dumper!ArchiveInv
  <2> QED BY <1>1, <2>1 DEF Links, InMemoryOf, AllOf, Up
<1> QED BY <1>1, <1>2, <1>3
LEMMA LastOfPart ==
    ASSUME NEW c \in DumpedChains, NEW a \in Int, NEW b \in Int, Part(c, a, b) # << >>
    PROVE  \E k \in 1..Len(c) : c[k] = Dumper!Last(Part(c, a, b))
<1> DEFINE i == Dumper!Below(c, a)
           j == Dumper!Below(c, b)
<1>1. i \in 0..Len(c) /\ j \in 0..Len(c) /\ Len(c) \in Nat
      /\ \A k \in 1..Len(c) : c[k] \in Dumper!Blocks
  BY BelowIs, ChainIs
<1>2. Part(c, a, b) = SubSeq(c, i + 1, j)
  BY DEF Part
<1> HIDE DEF i, j
<1>3. i + 1 <= j
  BY <1>1, <1>2, SubSeqEmpty
<1>4. /\ Len(SubSeq(c, i + 1, j)) = IF i + 1 <= j THEN j - (i + 1) + 1 ELSE 0
      /\ \A k \in 1..j - (i + 1) + 1 : SubSeq(c, i + 1, j)[k] = c[(i + 1) + k - 1]
  <2>1. \A k \in i + 1..j : c[k] \in Dumper!Blocks
    BY <1>1
  <2>2. i + 1 \in Int /\ j \in Int
    BY <1>1
  <2> QED BY <2>1, <2>2, SubSeqProperties
<1>5. /\ j - (i + 1) + 1 = j - i /\ j - i \in 1..j - (i + 1) + 1 /\ (i + 1) + (j - i) - 1 = j
      /\ j \in 1..Len(c)
  BY <1>1, <1>3
<1>6. Dumper!Last(Part(c, a, b)) = c[j]
  BY <1>2, <1>3, <1>4, <1>5, Zenon DEF Dumper!Last
<1> QED BY <1>5, <1>6

LEMMA LastOfBoth ==
    ASSUME NEW s \in Seq(Dumper!Blocks), NEW b \in Seq(Dumper!Blocks), b # << >>
    PROVE  /\ s \o b \in Seq(Dumper!Blocks) /\ s \o b # << >>
           /\ Dumper!Last(s \o b) = Dumper!Last(b)
<1>1. /\ s \o b \in Seq(Dumper!Blocks) /\ Len(s \o b) = Len(s) + Len(b)
      /\ Len(s) \in Nat /\ Len(b) \in Nat /\ Len(b) # 0
  OBVIOUS
<1>2. (s \o b)[Len(s) + Len(b)] = b[Len(b)]
  BY <1>1
<1>3. s \o b # << >>
  BY <1>1
<1> QED BY <1>1, <1>2, <1>3 DEF Dumper!Last

StartedFrom(d, p, t, f, n, b) ==
    LET i == [d EXCEPT !.phase = p, !.top = t, !.filed = f,
                       !.next = n, !.from = n, !.prev = b]
    IN  /\ i \in Dumpers
        /\ i.phase = p /\ i.top = t /\ i.filed = f /\ i.next = n
        /\ i.from = n /\ i.prev = b /\ i.buffer = d.buffer

LEMMA StartedFromIs ==
    ASSUME NEW p \in DumperPhases, NEW t \in Nat, NEW f \in Nat, NEW n \in Nat,
           NEW b \in Dumper!Blocks \cup {Dumper!NoBlock}, NEW d \in Dumpers
    PROVE  StartedFrom(d, p, t, f, n, b)
BY DEF Dumpers, StartedFrom

LEMMA StartFits ==
    ASSUME Dumper!ArchiveInv, NEW w \in Writer, Dumper!Start(w)
    PROVE  Dumper!ArchiveInv'
<1> DEFINE s == Dumper!AppendState(w)
           next == IF s.dir = {} THEN s.top ELSE Dumper!To(Dumper!LastOf(s.dir)) + 1
           last == Dumper!LastOf(s.dir)
           to == DumpedRanges[w].to
           i == [Dumper!Down EXCEPT !.phase = IF next > to THEN "done" ELSE "dumping",
                                    !.top = s.top, !.filed = Dumper!Cardinality(s.dir),
                                    !.next = next, !.from = next,
                                    !.prev = IF s.dir = {} THEN Dumper!NoBlock
                                             ELSE Dumper!Last(last.blocks)]
<1>1. /\ writer[w].phase = "down" /\ writer' = [writer EXCEPT ![w] = i]
      /\ UNCHANGED << source, storage, tops, chunks, spent >>
  BY DEF Dumper!Start
<1>3. GoesOn(w, s, next)
  BY StartIs
<1> HIDE DEF i, next, s, last
<1>4. next \in Nat /\ s.top \in Nat /\ to \in Nat /\ DumpedRanges[w].from \in Nat
  BY <1>3, RangeIs DEF GoesOn, Dumper!EndsAt
<1>5. Dumper!Cardinality(s.dir) \in Nat
  <2>1. IsFiniteSet(chunks)
    BY SameCountingOfChunks DEF Dumper!ArchiveInv, Dumper!TypeOK
  <2>2. s.dir \in SUBSET chunks
    BY <1>3 DEF GoesOn
  <2> QED BY <2>1, <2>2, FS_Subset, FS_CardinalityType, SameCountingOfChunks
<1>6. ASSUME s.dir # {}
      PROVE  /\ last \in Dumper!Filed(w) /\ last \in chunks /\ last.blocks # << >>
             /\ last.blocks \in Seq(Dumper!Blocks) /\ last.from \in Nat
             /\ Dumper!Last(last.blocks) \in Dumper!Blocks
             /\ Dumper!Last(last.blocks).number = next - 1
             /\ Dumper!To(last) \in Nat
  <2>1. last \in Dumper!Filed(w) /\ next = Dumper!To(last) + 1
    BY <1>3, <1>6 DEF GoesOn, last
  <2>2. last \in chunks
    BY <2>1 DEF Dumper!Filed
  <2>3. last.blocks # << >>
    BY <2>2 DEF Dumper!ArchiveInv, Dumper!ChunkFits
  <2>4. /\ Dumper!Last(last.blocks) \in Dumper!Blocks /\ Dumper!To(last) \in Nat
        /\ last.blocks \in Seq(Dumper!Blocks) /\ last.from \in Nat
    BY <2>2, <2>3, ChunkTyped DEF Dumper!ArchiveInv
  <2> QED BY <2>1, <2>2, <2>3, <2>4 DEF Dumper!To
<1>2. /\ i.phase = IF next > to THEN "done" ELSE "dumping"
      /\ i.top = s.top /\ i.next = next /\ i.from = next /\ i.buffer = << >>
      /\ i.prev = IF s.dir = {} THEN Dumper!NoBlock ELSE Dumper!Last(last.blocks)
      /\ i \in Dumpers
  <2> DEFINE p == IF next > to THEN "done" ELSE "dumping"
             b == IF s.dir = {} THEN Dumper!NoBlock ELSE Dumper!Last(last.blocks)
             f == Dumper!Cardinality(s.dir)
  <2>1. p \in DumperPhases /\ b \in Dumper!Blocks \cup {Dumper!NoBlock}
    BY <1>6 DEF DumperPhases
  <2>2. Dumper!Down \in Dumpers /\ Dumper!Down.buffer = << >> /\ f \in Nat
    BY <1>5, DownFits DEF Dumper!Down
  <2>3. i = [Dumper!Down EXCEPT !.phase = p, !.top = s.top, !.filed = f,
                                !.next = next, !.from = next, !.prev = b]
    BY Zenon DEF i
  <2> HIDE DEF p, b, f
  <2>4. /\ i \in Dumpers
        /\ i.phase = p /\ i.top = s.top /\ i.next = next
        /\ i.from = next /\ i.prev = b /\ i.buffer = Dumper!Down.buffer
    <3>1. s.top \in Nat /\ next \in Nat
      BY <1>4
    <3>2. \A d \in Dumpers : d = Dumper!Down => StartedFrom(d, p, s.top, f, next, b)
      BY <2>1, <2>2, <3>1, StartedFromIs
    <3> QED BY <2>2, <2>3, <3>2 DEF StartedFrom
  <2> QED BY <2>2, <2>4, Zenon DEF p, b
<1>9. Fits(w, i)
  <2> SUFFICES ASSUME i.phase \in Up PROVE Fits(w, i)
    BY DEF Fits
  <2>1. i.phase = "dumping" /\ next <= to
    BY <1>2, <1>4 DEF Up
  <2>2. i.prev # Dumper!NoBlock => i.prev.number = i.from - 1
    BY <1>2, <1>6
  <2>3. storage = "s3" /\ i.prev = Dumper!NoBlock => Dumper!Filed(w) = {}
    <3>1. CASE s.dir = {}
      BY <1>3, <3>1 DEF GoesOn
    <3>2. CASE s.dir # {}
      <4>1. i.prev \in Dumper!Blocks
        BY <1>2, <1>6, <3>2
      <4> QED BY <4>1, BlockIs
    <3> QED BY <3>1, <3>2
  <2>4. /\ Dumper!EndsAt(w, i.next) /\ DumpedRanges[w].from <= i.top /\ i.top <= i.next
        /\ Dumper!Dir(i.top) = {} => i.top = i.next
        /\ \A t \in Dumper!OwnTops(w) : t <= i.top
    BY <1>2, <1>3 DEF GoesOn
  <2>5. i.from <= DumpedRanges[w].to + 1
    BY <1>2, <1>4, <2>1
  <2> QED BY <1>2, <2>1, <2>2, <2>3, <2>4, <2>5 DEF Fits
<1>10. ASSUME storage = "s3" \/ spent.switches = 0
       PROVE  \E chain \in DumpedChains : Links(w, i, chain)
  <2>1. PICK chain \in DumpedChains : Links(w, writer[w], chain)
    BY <1>10, LinkedIs
  <2>2. i.buffer = Part(chain, i.next, i.from)
    <3>1. next \in Int /\ next <= next
      BY <1>4
    <3>2. Part(chain, next, next) = << >>
      BY <3>1, PartIs
    <3> QED BY <1>2, <3>2, Zenon
  <2>3. ASSUME i.prev # Dumper!NoBlock
        PROVE  \E k \in 1..Len(chain) : chain[k] = i.prev
    <3>1. s.dir # {} /\ i.prev = Dumper!Last(last.blocks)
      BY <1>2, <2>3
    <3>2. last.blocks = Part(chain, last.from, Dumper!To(last) + 1)
      BY <1>6, <2>1, <3>1 DEF Links, FiledOf
    <3> QED BY <1>6, <3>1, <3>2, LastOfPart
  <2>4. InMemoryOf(i, chain)
    BY <2>2, <2>3 DEF InMemoryOf
  <2>5. AllOf(w, i, chain)
    <3> SUFFICES ASSUME i.phase = "done", NEW k \in 1..Len(chain),
                        chain[k].number \in DumpedRanges[w].from..DumpedRanges[w].to
                 PROVE  \E c \in Dumper!Filed(w) : chain[k].number \in c.from..Dumper!To(c)
      BY DEF AllOf
    <3>1. next > to
      BY <1>2, <1>4
    <3>2. chain[k].number \in DumpedRanges[w].from..next - 1
      BY <1>4, <3>1
    <3> QED BY <1>3, <3>2 DEF GoesOn, Dumper!EndsAt
  <2> QED BY <2>1, <2>4, <2>5 DEF Links
<1>11. spent' \in [crashes : Nat, switches : Nat] /\ spent'.switches = spent.switches
  BY <1>1 DEF Dumper!ArchiveInv, Dumper!TypeOK
<1> QED BY <1>1, <1>2, <1>9, <1>10, <1>11, WriterStep

\* The source goes on with the chain that is archived, where a batch goes on from it.
LEMMA SourceGoesOn ==
    ASSUME Dumper!ArchiveInv, NEW w \in Writer, writer[w].phase = "dumping",
           storage = "s3" \/ spent.switches = 0,
           NEW j \in 1..Len(source), Dumper!Continues(w, source[j])
    PROVE  /\ FiledOf(w, source)
           /\ writer[w].buffer = Part(source, writer[w].next, writer[w].from)
<1> DEFINE d == writer[w]
<1>1. /\ source \in DumpedChains /\ d.next \in Nat /\ d.from \in Nat
      /\ d.prev \in Dumper!Blocks \cup {Dumper!NoBlock} /\ d.buffer \in Seq(Dumper!Blocks)
  BY Typed, WriterTyped DEF Dumper!ArchiveInv
<1>2. PICK chain \in DumpedChains : Links(w, d, chain)
  BY LinkedIs
<1>3. FiledOf(w, chain) /\ d.buffer = Part(chain, d.next, d.from)
      /\ (d.prev # Dumper!NoBlock => \E k \in 1..Len(chain) : chain[k] = d.prev)
      /\ (spent.switches = 0 => chain = source)
  BY <1>2 DEF Links, InMemoryOf, Up
<1>4. /\ Dumper!EndsAt(w, d.next)
      /\ d.prev # Dumper!NoBlock => d.prev.number = d.from - 1
      /\ IF d.buffer = << >> THEN d.from = d.next
         ELSE Dumper!Last(d.buffer) = d.prev /\ d.next < d.from
      /\ storage = "s3" /\ d.prev = Dumper!NoBlock => Dumper!Filed(w) = {}
  BY FitsIs DEF Dumper!ArchiveInv, Fits, Up
<1> HIDE DEF d
<1>5. CASE spent.switches = 0
  BY <1>3, <1>5 DEF d
<1>6. CASE d.prev = Dumper!NoBlock /\ spent.switches # 0
  <2>1. d.buffer = << >>
    BY <1>1, <1>4, <1>6, LastIs, BlockIs
  <2>2. Part(source, d.next, d.from) = << >>
    <3>1. d.next \in Int /\ d.from \in Int /\ d.from <= d.next
      BY <1>1, <1>4, <2>1
    <3> QED BY <1>1, <3>1, PartIs
  <2>3. Dumper!Filed(w) = {}
    BY <1>4, <1>6
  <2> QED BY <2>1, <2>2, <2>3 DEF d, FiledOf
<1>7. CASE d.prev # Dumper!NoBlock
  <2>1. d.prev \in Dumper!Blocks /\ d.prev.number \in Nat /\ d.from = d.prev.number + 1 /\ d.from # 0
    BY <1>1, <1>4, <1>7, BlockIs
  <2>2. Dumper!Parent(source[j]) = d.prev
    BY <1>7, <2>1 DEF Dumper!Continues, d
  <2>3. j # 1 /\ source[j - 1] = d.prev /\ j - 1 \in 1..Len(source)
    <3>1. d.prev = IF j = 1 THEN Dumper!NoBlock ELSE source[j - 1]
      BY <1>1, <2>2, ParentBefore, Zenon
    <3>2. j # 1 /\ source[j - 1] = d.prev
      BY <1>7, <3>1
    <3>3. Len(source) \in Nat
      BY <1>1, ChainIs
    <3> QED BY <3>2, <3>3
  <2>4. PICK k \in 1..Len(chain) : chain[k] = d.prev
    BY <1>3, <1>7
  <2>5. ASSUME NEW a \in Int, NEW b \in Int, b <= d.from
        PROVE  Part(chain, a, b) = Part(source, a, b)
    <3>1. chain[k] = source[j - 1] /\ chain[k].number + 1 = d.from
      BY <2>1, <2>3, <2>4
    <3>2. \A x, y \in Int : y <= chain[k].number + 1 => Part(chain, x, y) = Part(source, x, y)
      BY <1>1, <2>3, <3>1, SamePart
    <3> QED BY <2>5, <3>1, <3>2
  <2>6. d.buffer = Part(source, d.next, d.from)
    <3>1. d.next \in Int /\ d.from \in Int /\ d.from <= d.from
      BY <1>1
    <3> QED BY <1>3, <2>5, <3>1
  <2>7. ASSUME NEW c \in Dumper!Filed(w)
        PROVE  c.blocks = Part(source, c.from, Dumper!To(c) + 1)
    <3>1. c \in chunks
      BY DEF Dumper!Filed
    <3>2. c.from \in Int /\ Dumper!To(c) \in Nat
      BY <3>1, OwnChunk
    <3>3. Dumper!To(c) < d.next /\ d.next <= d.from
      BY <1>1, <1>4 DEF Dumper!EndsAt
    <3>4. Dumper!To(c) + 1 \in Int /\ Dumper!To(c) + 1 <= d.from
      BY <1>1, <3>2, <3>3
    <3> QED BY <1>3, <2>5, <3>2, <3>4 DEF FiledOf
  <2> QED BY <2>6, <2>7 DEF d, FiledOf
<1> QED BY <1>5, <1>6, <1>7

\* The state of ingest() after a batch.
Received(d, p, n, b, s) ==
    LET i == [d EXCEPT !.phase = p, !.from = n, !.prev = b, !.buffer = s]
    IN  /\ i \in Dumpers
        /\ i.phase = p /\ i.from = n /\ i.prev = b /\ i.buffer = s
        /\ i.next = d.next /\ i.top = d.top /\ i.filed = d.filed

LEMMA ReceivedIs ==
    ASSUME NEW d \in Dumpers, NEW p \in DumperPhases, NEW n \in Nat, NEW b \in Dumper!Blocks,
           NEW s \in Seq(Dumper!Blocks)
    PROVE  Received(d, p, n, b, s)
BY DEF Dumpers, Received

LEMMA ReceiveFits ==
    ASSUME Dumper!ArchiveInv, NEW w \in Writer, Dumper!Receive(w)
    PROVE  Dumper!ArchiveInv'
<1> DEFINE d == writer[w]
           to == DumpedRanges[w].to
<1>1. /\ source \in DumpedChains /\ d \in Dumpers /\ writer \in [Writer -> Dumpers]
      /\ d.next \in Nat /\ d.from \in Nat /\ d.top \in Nat
      /\ d.prev \in Dumper!Blocks \cup {Dumper!NoBlock} /\ d.buffer \in Seq(Dumper!Blocks)
      /\ to \in Nat
  BY Typed, WriterTyped, RangeIs DEF Dumper!ArchiveInv
<1>2. /\ d.phase = "dumping"
      /\ UNCHANGED << source, storage, tops, chunks, spent >>
  BY DEF Dumper!Receive
<1>3. PICK batch \in Dumper!Batches(w), p \in {"dumping", "saving"} :
          /\ Dumper!Continues(w, Head(batch))
          /\ writer' = [writer EXCEPT ![w].phase = p,
                                      ![w].from = Dumper!Last(batch).number + 1,
                                      ![w].prev = Dumper!Last(batch),
                                      ![w].buffer = @ \o batch]
  BY DEF Dumper!Receive
<1>4. PICK n \in Dumper!Below(source, d.from) + 1..Dumper!Below(source, to + 1) :
          batch = SubSeq(source, Dumper!Below(source, d.from) + 1, n)
  BY DEF Dumper!Batches
<1>5. /\ Dumper!EndsAt(w, d.next)
      /\ DumpedRanges[w].from <= d.top /\ d.top <= d.next
      /\ Dumper!Dir(d.top) = {} => d.top = d.next
      /\ \A t \in Dumper!OwnTops(w) : t <= d.top
      /\ IF d.buffer = << >> THEN d.from = d.next
         ELSE Dumper!Last(d.buffer) = d.prev /\ d.next < d.from
  BY <1>2, FitsIs DEF Dumper!ArchiveInv, Fits, Up
<1> DEFINE j == Dumper!Below(source, d.from) + 1
           b == Dumper!Last(batch)
           s == d.buffer \o batch
           i == [d EXCEPT !.phase = p, !.from = b.number + 1, !.prev = b, !.buffer = s]
<1>6. writer' = [writer EXCEPT ![w] = i]
  BY <1>1, <1>3
<1> HIDE DEF d
<1>7. d.next <= d.from
  BY <1>1, <1>5
<1>8. /\ batch \in Seq(Dumper!Blocks) /\ batch # << >>
      /\ n \in 1..Len(source) /\ b = source[n]
      /\ j \in 1..Len(source) /\ Head(batch) = source[j]
      /\ d.from <= source[n].number /\ source[n].number <= to
      /\ Part(source, d.next, d.from) \o batch = Part(source, d.next, source[n].number + 1)
  <2>1. d.from \in Int /\ to \in Int /\ d.next \in Int
    BY <1>1
  <2>2. source \in DumpedChains
    BY <1>1
  <2> HIDE DEF to, j, b, s
  <2>3. GoesOnFrom(source, d.next, d.from, to, n, batch)
    BY <1>4, <1>7, <2>1, <2>2, BatchIs
  <2> QED BY <2>3 DEF j, b, GoesOnFrom
<1> HIDE DEF j, b, s, to
<1>9. b \in Dumper!Blocks /\ b.number \in Nat /\ b # Dumper!NoBlock
  BY <1>1, <1>8, ChainIs, BlockIs
<1>10. s \in Seq(Dumper!Blocks) /\ s # << >> /\ Dumper!Last(s) = b
  BY <1>1, <1>8, LastOfBoth DEF s, b
<1>11. /\ i \in Dumpers
       /\ i.phase = p /\ i.from = b.number + 1 /\ i.prev = b /\ i.buffer = s
       /\ i.next = d.next /\ i.top = d.top /\ i.filed = d.filed
  <2>1. p \in DumperPhases /\ b.number + 1 \in Nat
    BY <1>9 DEF DumperPhases
  <2>2. Received(d, p, b.number + 1, b, s)
    BY <1>1, <1>9, <1>10, <2>1, ReceivedIs
  <2> QED BY <2>2 DEF Received
<1> HIDE DEF i
<1>12. Fits(w, i)
  <2>1. i.from <= DumpedRanges[w].to + 1 /\ i.next < i.from /\ i.prev.number = i.from - 1
    <3>1. b.number <= to /\ d.next <= b.number
      BY <1>1, <1>7, <1>8, <1>9
    <3>2. b.number + 1 <= to + 1 /\ d.next < b.number + 1 /\ b.number = (b.number + 1) - 1
      BY <1>1, <1>9, <3>1
    <3> QED BY <1>11, <3>2 DEF to
  <2>2. i.phase # "writing" /\ i.buffer # << >> /\ Dumper!Last(i.buffer) = i.prev
        /\ i.prev # Dumper!NoBlock
    BY <1>9, <1>10, <1>11
  <2>3. /\ Dumper!EndsAt(w, i.next)
        /\ DumpedRanges[w].from <= i.top /\ i.top <= i.next
        /\ Dumper!Dir(i.top) = {} => i.top = i.next
        /\ \A t \in Dumper!OwnTops(w) : t <= i.top
    BY <1>5, <1>11
  <2> QED BY <2>1, <2>2, <2>3 DEF Fits
<1>13. ASSUME storage = "s3" \/ spent.switches = 0
       PROVE  \E chain \in DumpedChains : Links(w, i, chain)
  <2>1. /\ FiledOf(w, source) /\ d.buffer = Part(source, d.next, d.from)
    BY <1>2, <1>3, <1>8, <1>13, SourceGoesOn DEF d
  <2>2. i.buffer = Part(source, i.next, i.from)
    <3>1. d.next \in Int
      BY <1>1
    <3> QED BY <1>7, <1>8, <1>11, <2>1, <3>1 DEF s
  <2>3. source[n] = i.prev
    BY <1>8, <1>11
  <2>4. i.phase # "done"
    BY <1>11
  <2> QED BY <1>1, <1>8, <2>1, <2>2, <2>3, <2>4 DEF Links, InMemoryOf, AllOf
<1>14. spent' \in [crashes : Nat, switches : Nat] /\ spent'.switches = spent.switches
  BY <1>2 DEF Dumper!ArchiveInv, Dumper!TypeOK
<1> QED BY <1>2, <1>6, <1>11, <1>12, <1>13, <1>14, WriterStep

LEMMA SpentIs ==
    ASSUME Dumper!ArchiveInv
    PROVE  spent \in [crashes : Nat, switches : Nat] /\ spent.crashes \in Nat /\ spent.switches \in Nat
BY DEF Dumper!ArchiveInv, Dumper!TypeOK

LEMMA RefuseFits ==
    ASSUME Dumper!ArchiveInv, NEW w \in Writer, Dumper!Refuse(w)
    PROVE  Dumper!ArchiveInv'
<1>1. writer' = [writer EXCEPT ![w] = Dumper!Down] /\ UNCHANGED << source, storage, tops, chunks, spent >>
  BY DEF Dumper!Refuse
<1>2. spent' \in [crashes : Nat, switches : Nat] /\ spent'.switches = spent.switches
  BY <1>1, SpentIs
<1> QED BY <1>1, <1>2, DownFits, WriterStep

LEMMA CrashFits ==
    ASSUME Dumper!ArchiveInv, NEW w \in Writer, Dumper!Crash(w)
    PROVE  Dumper!ArchiveInv'
<1>1. /\ writer' = [writer EXCEPT ![w] = Dumper!Down] /\ UNCHANGED << source, storage, tops, chunks >>
      /\ spent' = [spent EXCEPT !.crashes = @ + 1]
  BY DEF Dumper!Crash
<1>2. spent' \in [crashes : Nat, switches : Nat] /\ spent'.switches = spent.switches
  BY <1>1, SpentIs
<1> QED BY <1>1, <1>2, DownFits, WriterStep

\* A dumper in another phase.
LEMMA PhaseIs ==
    ASSUME NEW d \in Dumpers, NEW p \in DumperPhases, NEW i, i = [d EXCEPT !.phase = p]
    PROVE  /\ i \in Dumpers /\ i.phase = p /\ i.top = d.top /\ i.filed = d.filed /\ i.next = d.next
           /\ i.from = d.from /\ i.prev = d.prev /\ i.buffer = d.buffer
BY DEF Dumpers

LEMMA StreamEndsFits ==
    ASSUME Dumper!ArchiveInv, NEW w \in Writer, Dumper!StreamEnds(w)
    PROVE  Dumper!ArchiveInv'
<1> DEFINE d == writer[w]
           to == DumpedRanges[w].to
           p == IF d.buffer = << >> THEN "done" ELSE "saving"
           i == [d EXCEPT !.phase = p]
<1>1. /\ source \in DumpedChains /\ d \in Dumpers /\ writer \in [Writer -> Dumpers]
      /\ d.next \in Nat /\ d.from \in Nat /\ to \in Nat
  BY Typed, WriterTyped, RangeIs DEF Dumper!ArchiveInv
<1>2. /\ d.phase = "dumping" /\ Dumper!Batches(w) = {}
      /\ UNCHANGED << source, storage, tops, chunks, spent >>
  BY DEF Dumper!StreamEnds
<1>3. writer' = [writer EXCEPT ![w] = i]
  BY <1>1 DEF Dumper!StreamEnds
<1>4. /\ Dumper!EndsAt(w, d.next)
      /\ DumpedRanges[w].from <= d.top /\ d.top <= d.next
      /\ Dumper!Dir(d.top) = {} => d.top = d.next
      /\ \A t \in Dumper!OwnTops(w) : t <= d.top
      /\ d.from <= to + 1
      /\ d.prev # Dumper!NoBlock => d.prev.number = d.from - 1
      /\ IF d.buffer = << >> THEN d.from = d.next
         ELSE Dumper!Last(d.buffer) = d.prev /\ d.next < d.from
      /\ storage = "s3" /\ d.prev = Dumper!NoBlock => Dumper!Filed(w) = {}
  BY <1>2, FitsIs DEF Dumper!ArchiveInv, Fits, Up
<1>5. \A k \in 1..Len(source) : source[k].number <= to => source[k].number < d.from
  <2> DEFINE m == Dumper!Below(source, d.from)
             n == Dumper!Below(source, to + 1)
  <2>1. m + 1..n = {}
    BY <1>2 DEF Dumper!Batches
  <2>2. m \in 0..Len(source) /\ \A k \in 1..Len(source) : source[k].number < d.from <=> k <= m
    <3>1. d.from \in Int  BY <1>1
    <3> HIDE DEF d
    <3> QED BY <1>1, <3>1, BelowIs
  <2>3. n \in 0..Len(source) /\ \A k \in 1..Len(source) : source[k].number < to + 1 <=> k <= n
    <3>1. to + 1 \in Int  BY <1>1
    <3> HIDE DEF to
    <3> QED BY <1>1, <3>1, BelowIs
  <2>4. Len(source) \in Nat /\ \A k \in 1..Len(source) : source[k].number \in Nat
    BY <1>1, ChainIs
  <2> HIDE DEF m, n, d, to
  <2>5. n <= m
    BY <2>1, <2>2, <2>3, <2>4
  <2> SUFFICES ASSUME NEW k \in 1..Len(source), source[k].number <= to
               PROVE  source[k].number < d.from
    OBVIOUS
  <2>6. source[k].number < to + 1
    BY <1>1, <2>4
  <2>7. k <= n
    BY <2>3, <2>6
  <2>8. k <= m
    BY <2>2, <2>3, <2>4, <2>5, <2>7
  <2> QED BY <2>2, <2>8
<1>6. p \in DumperPhases /\ p # "writing" /\ p # "dumping"
  BY DEF DumperPhases
<1> HIDE DEF d, i
<1>7. /\ i \in Dumpers /\ i.phase = p /\ i.top = d.top /\ i.filed = d.filed /\ i.next = d.next
      /\ i.from = d.from /\ i.prev = d.prev /\ i.buffer = d.buffer
  <2> HIDE DEF p
  <2> QED BY <1>1, <1>6, PhaseIs DEF i
<1>8. Fits(w, i)
  <2> SUFFICES ASSUME i.phase \in Up PROVE Fits(w, i)
    BY DEF Fits
  <2>1. d.buffer # << >>
    BY <1>7 DEF Up
  <2> HIDE DEF p
  <2> QED BY <1>4, <1>6, <1>7, <2>1 DEF Fits, to
<1>9. ASSUME storage = "s3" \/ spent.switches = 0
      PROVE  \E chain \in DumpedChains : Links(w, i, chain)
  <2>1. PICK chain \in DumpedChains : Links(w, d, chain)
    BY <1>9, LinkedIs DEF d
  <2>2. InMemoryOf(i, chain)
    BY <1>2, <1>7, <2>1 DEF Links, InMemoryOf, Up
  <2>3. AllOf(w, i, chain)
    <3> SUFFICES ASSUME i.phase = "done", spent.switches = 0 \/ Dumper!NoticesSwitches(w),
                        NEW k \in 1..Len(chain),
                        chain[k].number \in DumpedRanges[w].from..DumpedRanges[w].to
                 PROVE  \E c \in Dumper!Filed(w) : chain[k].number \in c.from..Dumper!To(c)
      BY DEF AllOf
    <3>1. d.from = d.next
      BY <1>4, <1>7
    <3>2. chain[k].number < d.from /\ chain[k].number \in Nat
      <4>1. chain[k].number \in Nat /\ chain[k].number <= to
        BY <2>1, ChainIs DEF to
      <4>2. CASE spent.switches = 0
        <5>1. chain = source
          BY <2>1, <4>2 DEF Links
        <5> QED BY <1>5, <4>1, <5>1
      <4>3. CASE Dumper!NoticesSwitches(w)
        <5>1. PICK l \in 1..Len(source) : source[l].number = to
          BY <1>1, <4>3 DEF Dumper!NoticesSwitches, to
        <5>2. to < d.from
          BY <1>1, <1>5, <5>1
        <5> QED BY <1>1, <4>1, <5>2
      <4> QED BY <4>2, <4>3
    <3>3. chain[k].number \in DumpedRanges[w].from..d.next - 1
      BY <1>1, <3>1, <3>2, RangeIs
    <3> QED BY <1>4, <3>3 DEF Dumper!EndsAt
  <2> QED BY <2>1, <2>2, <2>3 DEF Links
<1>10. spent' \in [crashes : Nat, switches : Nat] /\ spent'.switches = spent.switches
  BY <1>2, SpentIs
<1> QED BY <1>2, <1>3, <1>7, <1>8, <1>9, <1>10, WriterStep

LEMMA SwitchFits ==
    ASSUME Dumper!ArchiveInv, Dumper!Switch
    PROVE  Dumper!ArchiveInv'
<1>1. /\ source' \in DumpedChains /\ UNCHANGED << storage, tops, chunks, writer >>
      /\ spent' = [spent EXCEPT !.switches = @ + 1]
  BY DEF Dumper!Switch
<1>2. spent' \in [crashes : Nat, switches : Nat] /\ spent'.switches = spent.switches + 1
      /\ spent'.switches # 0
  BY <1>1, SpentIs
<1>3. Dumper!TypeOK'
  BY <1>1, <1>2 DEF Dumper!ArchiveInv, Dumper!TypeOK
<1>4. /\ \A c \in chunks' : Dumper!ChunkFits(c)'
      /\ \A t \in tops' : Dumper!TopFits(t)'
      /\ \A v \in Writer : Dumper!RangeFits(v)' /\ Dumper!WriterFits(v)'
  BY <1>1 DEF Dumper!ArchiveInv, Dumper!ChunkFits, Dumper!TopFits, Dumper!RangeFits,
         Dumper!WriterFits, Dumper!NextTop, Dumper!EndsAt, Dumper!OwnTops, Dumper!Filed, Dumper!Dir
<1>5. ASSUME NEW v \in Writer, storage = "s3"
      PROVE  Dumper!Linked(v)'
  <2>1. Dumper!Linked(v)
    BY <1>5 DEF Dumper!ArchiveInv
  <2>2. Dumper!Filed(v)' = Dumper!Filed(v)
    BY <1>1 DEF Dumper!Filed
  <2> QED BY <1>1, <1>2, <2>1, <2>2 DEF Dumper!Linked
<1> QED BY <1>1, <1>2, <1>3, <1>4, <1>5 DEF Dumper!ArchiveInv
------------------------------------------------------------------------------
(***************************************************************************)
(* Archive: steps that write a chunk c to a top directory t.                 *)
(***************************************************************************)
Writes(w, d, t, c) ==
    /\ d = writer[w] /\ d \in Dumpers /\ d.next \in Nat /\ d.from \in Nat /\ d.top \in Nat
    /\ d.prev \in Dumper!Blocks /\ d.prev.number = d.from - 1
    /\ d.buffer \in Seq(Dumper!Blocks) /\ d.buffer # << >>
    /\ c \in [top : Nat, from : Nat, blocks : Seq(Dumper!Blocks)]
    /\ c.top = t /\ c.from = d.next /\ c.blocks = d.buffer
    /\ Dumper!To(c) \in Nat /\ Dumper!To(c) + 1 = d.from
    /\ d.next <= Dumper!To(c) /\ Dumper!To(c) <= DumpedRanges[w].to
    /\ Dumper!EndsAt(w, d.next)
    /\ t \in Nat /\ DumpedRanges[w].from <= t /\ t <= d.next
    /\ t \in tops \/ t = d.next
    /\ Dumper!Dir(t) = {} => t = d.next
    /\ \A u \in Dumper!OwnTops(w) : u <= t

LEMMA WritesIs ==
    ASSUME Dumper!ArchiveInv, NEW w \in Writer, writer[w].phase \in {"saving", "writing"}
    PROVE  /\ Writes(w, writer[w], Dumper!NextTop(w), Dumper!NextChunk(w))
           /\ writer[w].phase = "writing" => Dumper!NextTop(w) \in tops
<1> DEFINE d == writer[w]
           t == Dumper!NextTop(w)
           c == Dumper!NextChunk(w)
           from == DumpedRanges[w].from
           to == DumpedRanges[w].to
<1>1. /\ d \in Dumpers /\ d.next \in Nat /\ d.from \in Nat /\ d.top \in Nat /\ d.filed \in Nat
      /\ d.prev \in Dumper!Blocks \cup {Dumper!NoBlock} /\ d.buffer \in Seq(Dumper!Blocks)
      /\ from \in Nat /\ to \in Nat
  BY Typed, WriterTyped, RangeIs DEF Dumper!ArchiveInv
<1>2. /\ Dumper!EndsAt(w, d.next)
      /\ from <= d.top /\ d.top <= d.next
      /\ Dumper!Dir(d.top) = {} => d.top = d.next
      /\ IF d.phase = "writing"
         THEN TopOf(d) \in tops /\ \A u \in Dumper!OwnTops(w) : u <= TopOf(d)
         ELSE \A u \in Dumper!OwnTops(w) : u <= d.top
      /\ d.from <= to + 1
      /\ d.prev # Dumper!NoBlock => d.prev.number = d.from - 1
      /\ d.buffer # << >> /\ Dumper!Last(d.buffer) = d.prev /\ d.next < d.from
  BY FitsIs DEF Dumper!ArchiveInv, Fits, Up
<1>3. t = TopOf(d) /\ (t = d.top \/ t = d.next)
  BY DEF TopOf, Dumper!NextTop
<1>4. c.top = t /\ c.from = d.next /\ c.blocks = d.buffer
      /\ c = [top |-> t, from |-> d.next, blocks |-> d.buffer]
  BY DEF Dumper!NextChunk
<1> HIDE DEF d, t, c, from, to
<1>5. d.prev \in Dumper!Blocks /\ d.prev.number = d.from - 1 /\ d.prev.number \in Nat
  BY <1>1, <1>2, LastIs, BlockIs
<1>6. Dumper!To(c) = d.from - 1 /\ Dumper!To(c) \in Nat
  BY <1>2, <1>4, <1>5 DEF Dumper!To
<1>7. Dumper!To(c) + 1 = d.from /\ d.next <= Dumper!To(c) /\ Dumper!To(c) <= to
  BY <1>1, <1>2, <1>6
<1>8. t \in Nat /\ from <= t /\ t <= d.next /\ d.top <= t
  BY <1>1, <1>2, <1>3
<1>9. c \in [top : Nat, from : Nat, blocks : Seq(Dumper!Blocks)]
  BY <1>1, <1>4, <1>8
<1>10. \A u \in Dumper!OwnTops(w) : u <= t
  <2> SUFFICES ASSUME NEW u \in Dumper!OwnTops(w) PROVE u <= t
    OBVIOUS
  <2>1. u \in Nat
    BY Typed DEF Dumper!ArchiveInv, Dumper!OwnTops
  <2> QED BY <1>1, <1>2, <1>3, <1>8, <2>1
<1>11. Dumper!Dir(t) = {} => t = d.next
  BY <1>2, <1>3
<1>12. t \in tops \/ t = d.next
  <2> SUFFICES ASSUME t # d.next PROVE t \in tops
    OBVIOUS
  <2>1. PICK e \in chunks : e.top = t
    BY <1>11 DEF Dumper!Dir
  <2> QED BY <2>1 DEF Dumper!ArchiveInv, Dumper!ChunkFits
<1>13. d.phase = "writing" => t \in tops
  BY <1>2, <1>3
<1>14. Writes(w, d, t, c)
  <2>1. d = writer[w]
    BY DEF d
  <2> QED BY <1>1, <1>2, <1>4, <1>5, <1>6, <1>7, <1>8, <1>9, <1>10, <1>11, <1>12, <2>1
          DEF Writes, from, to
<1> QED BY <1>13, <1>14 DEF d, t, c

\* Where a range ends there is one number.
LEMMA OneEnd ==
    ASSUME NEW w \in Writer, NEW m, NEW n, Dumper!EndsAt(w, m), Dumper!EndsAt(w, n),
           \A c \in Dumper!Filed(w) : Dumper!To(c) \in Nat /\ c.from \in Nat
    PROVE  m = n
<1>1. /\ m \in Nat /\ n \in Nat /\ DumpedRanges[w].from <= m /\ DumpedRanges[w].from <= n
      /\ DumpedRanges[w].from \in Nat
  BY RangeIs DEF Dumper!EndsAt
<1>2. ASSUME NEW a \in Nat, NEW b \in Nat, a < b, DumpedRanges[w].from <= a,
             Dumper!EndsAt(w, a), Dumper!EndsAt(w, b)
      PROVE  FALSE
  <2>1. a \in DumpedRanges[w].from..b - 1
    BY <1>1, <1>2
  <2>2. PICK c \in Dumper!Filed(w) : a \in c.from..Dumper!To(c)
    BY <1>2, <2>1 DEF Dumper!EndsAt
  <2>3. Dumper!To(c) < a
    BY <1>2 DEF Dumper!EndsAt
  <2> QED BY <2>2, <2>3
<1> QED BY <1>1, <1>2

\* A top directory that is new lies behind every chunk whose top directory is before it.
LEMMA NewTop ==
    ASSUME Dumper!ArchiveInv, NEW w \in Writer, NEW d, NEW t, NEW n, Writes(w, d, t, n),
           NEW c \in chunks, t > c.top
    PROVE  t > Dumper!To(c)
<1>1. /\ t \in Nat /\ DumpedRanges[w].from <= t /\ t <= DumpedRanges[w].to /\ d.next \in Nat
      /\ t \in tops \/ t = d.next
      /\ DumpedRanges[w].from \in Nat /\ DumpedRanges[w].to \in Nat
  BY RangeIs DEF Writes
<1>2. PICK v \in Writer : /\ c \in Dumper!Filed(v)
                          /\ c.top \in DumpedRanges[v].from..DumpedRanges[v].to
                          /\ Dumper!To(c) <= DumpedRanges[v].to
  BY ChunkOwner
<1>3. c.top \in Nat /\ Dumper!To(c) \in Nat /\ DumpedRanges[v].to \in Nat
  BY <1>2, OwnChunk, RangeIs
<1>4. CASE t \in tops
  BY <1>4 DEF Dumper!ArchiveInv, Dumper!ChunkFits
<1>5. CASE t = d.next /\ v = w
  <2>1. Dumper!To(c) < d.next
    BY <1>2, <1>5 DEF Writes, Dumper!EndsAt
  <2> QED BY <1>1, <1>3, <1>5, <2>1
<1>6. CASE v # w
  <2>1. c.top <= DumpedRanges[w].to /\ c.top \in Int
    BY <1>1, <1>3
  <2>2. DumpedRanges[v].to < DumpedRanges[w].from
    BY <1>2, <1>6, <2>1, RangesApart
  <2> QED BY <1>1, <1>2, <1>3, <2>2
<1> QED BY <1>1, <1>4, <1>5, <1>6

\* The top directories of the ranges with a new one.
LEMMA OwnTopsGrow ==
    ASSUME Dumper!ArchiveInv, NEW w \in Writer, NEW d, NEW t, NEW n, Writes(w, d, t, n),
           tops' = tops \cup {t}
    PROVE  /\ t \in DumpedRanges[w].from..DumpedRanges[w].to
           /\ Dumper!OwnTops(w)' = Dumper!OwnTops(w) \cup {t}
           /\ \A v \in Writer : v # w => Dumper!OwnTops(v)' = Dumper!OwnTops(v)
<1>1. t \in DumpedRanges[w].from..DumpedRanges[w].to
  BY RangeIs DEF Writes
<1>2. Dumper!OwnTops(w)' = Dumper!OwnTops(w) \cup {t}
  BY <1>1 DEF Dumper!OwnTops
<1>3. ASSUME NEW v \in Writer, v # w
      PROVE  Dumper!OwnTops(v)' = Dumper!OwnTops(v)
  <2>1. t \notin DumpedRanges[v].from..DumpedRanges[v].to
    BY <1>1, <1>3, OneOwner
  <2> QED BY <2>1 DEF Dumper!OwnTops
<1> QED BY <1>1, <1>2, <1>3

LEMMA MakeTopDirFits ==
    ASSUME Dumper!ArchiveInv, NEW w \in Writer, Dumper!MakeTopDir(w)
    PROVE  Dumper!ArchiveInv'
<1> DEFINE d == writer[w]
           t == Dumper!NextTop(w)
           n == Dumper!NextChunk(w)
           i == [d EXCEPT !.phase = "writing"]
<1>1. /\ d.phase = "saving" /\ storage = "local" /\ tops' = tops \cup {t}
      /\ UNCHANGED << source, storage, chunks, spent >>
  BY DEF Dumper!MakeTopDir
<1>2. Writes(w, d, t, n)
  BY <1>1, WritesIs
<1>3. writer' = [writer EXCEPT ![w] = i] /\ writer \in [Writer -> Dumpers] /\ d \in Dumpers
  <2>1. writer \in [Writer -> Dumpers]
    BY Typed DEF Dumper!ArchiveInv
  <2> QED BY <2>1 DEF Dumper!MakeTopDir
<1>4. t = TopOf(d)
  BY DEF TopOf, Dumper!NextTop
<1> HIDE DEF d, t, n, i
<1>5. /\ i \in Dumpers /\ i.phase = "writing" /\ i.top = d.top /\ i.filed = d.filed /\ i.next = d.next
      /\ i.from = d.from /\ i.prev = d.prev /\ i.buffer = d.buffer
  <2>1. "writing" \in DumperPhases
    BY DEF DumperPhases
  <2> QED BY <1>3, <2>1, PhaseIs DEF i
<1>6. /\ writer'[w] = i /\ \A v \in Writer : v # w => writer'[v] = writer[v]
      /\ writer' \in [Writer -> Dumpers]
  BY <1>3, <1>5
<1>7. Dumper!TypeOK'
  BY <1>1, <1>2, <1>6 DEF Dumper!ArchiveInv, Dumper!TypeOK, Dumpers, DumperPhases, Writes
<1>8. /\ Dumper!OwnTops(w)' = Dumper!OwnTops(w) \cup {t}
      /\ \A v \in Writer : v # w => Dumper!OwnTops(v)' = Dumper!OwnTops(v)
      /\ t \in DumpedRanges[w].from..DumpedRanges[w].to
  BY <1>1, <1>2, OwnTopsGrow
<1>9. /\ \A v \in Writer : Dumper!Filed(v)' = Dumper!Filed(v)
      /\ \A u : Dumper!Dir(u)' = Dumper!Dir(u)
      /\ \A v \in Writer : \A m : Dumper!EndsAt(v, m)' <=> Dumper!EndsAt(v, m)
  BY <1>1 DEF Dumper!Filed, Dumper!Dir, Dumper!EndsAt
<1>10. ASSUME NEW c \in chunks'
       PROVE  Dumper!ChunkFits(c)'
  <2>1. c \in chunks /\ Dumper!ChunkFits(c)
    BY <1>1 DEF Dumper!ArchiveInv
  <2>2. \A u \in tops' : u > c.top => u > Dumper!To(c)
    BY <1>1, <1>2, <2>1, NewTop DEF Dumper!ChunkFits
  <2> QED BY <1>1, <1>9, <2>1, <2>2 DEF Dumper!ChunkFits
<1>11. ASSUME NEW u \in tops'
       PROVE  Dumper!TopFits(u)'
  <2>1. \E v \in Writer : u \in Dumper!OwnTops(v)'
    <3>1. CASE u = t
      BY <1>8, <3>1
    <3>2. CASE u \in tops
      <4>1. PICK v \in Writer : u \in Dumper!OwnTops(v)
        BY <3>2 DEF Dumper!ArchiveInv, Dumper!TopFits
      <4>2. u \in Dumper!OwnTops(v)'
        BY <1>8, <4>1
      <4> QED BY <4>2
    <3> QED BY <1>1, <3>1, <3>2
  <2> QED BY <1>1, <2>1 DEF Dumper!TopFits
<1>12. ASSUME NEW v \in Writer
       PROVE  Dumper!RangeFits(v)'
  <2>1. Dumper!RangeFits(v)
    BY DEF Dumper!ArchiveInv
  <2>2. \E m \in {DumpedRanges[v].from} \cup {Dumper!To(c) + 1 : c \in Dumper!Filed(v)'} :
            Dumper!EndsAt(v, m)'
    BY <1>9, <2>1 DEF Dumper!RangeFits
  <2>3. ASSUME NEW u \in Dumper!OwnTops(v)', Dumper!Dir(u)' = {}
        PROVE  Dumper!EndsAt(v, u)'
    <3>1. CASE u \in Dumper!OwnTops(v)
      BY <1>9, <2>1, <2>3, <3>1 DEF Dumper!RangeFits
    <3>2. CASE v = w /\ u = t
      <4>1. t = d.next /\ Dumper!EndsAt(w, d.next)
        BY <1>2, <1>9, <2>3, <3>2 DEF Writes
      <4> QED BY <1>9, <3>2, <4>1
    <3> QED BY <1>8, <3>1, <3>2
  <2> QED BY <2>2, <2>3 DEF Dumper!RangeFits
<1>13. Dumper!WriterFits(w)'
  <2>1. Fits(w, d)
    BY FitsIs DEF Dumper!ArchiveInv, d
  <2>2. Dumper!NextTop(w)' = t
    BY <1>4, <1>5, <1>6 DEF Dumper!NextTop, TopOf
  <2>3. t \in tops' /\ \A u \in Dumper!OwnTops(w)' : u <= t
    BY <1>1, <1>2, <1>8 DEF Writes
  <2>4. Writes(w, d, t, n) /\ d.buffer # << >>
    BY <1>2 DEF Writes
  <2> QED BY <1>1, <1>5, <1>6, <1>9, <2>1, <2>2, <2>3, <2>4 DEF Dumper!WriterFits, Fits, Up
<1>14. ASSUME NEW v \in Writer, v # w
       PROVE  Dumper!WriterFits(v)'
  <2>1. Dumper!WriterFits(v) /\ writer'[v] = writer[v]
    BY <1>6, <1>14 DEF Dumper!ArchiveInv
  <2>2. Dumper!NextTop(v)' = Dumper!NextTop(v)
    BY <2>1 DEF Dumper!NextTop
  <2>3. Dumper!OwnTops(v)' = Dumper!OwnTops(v) /\ tops \subseteq tops' /\ storage' = storage
    BY <1>1, <1>8, <1>14
  <2> QED BY <1>9, <2>1, <2>2, <2>3 DEF Dumper!WriterFits
<1>15. ASSUME NEW v \in Writer, spent.switches = 0
       PROVE  Dumper!Linked(v)'
  <2>1. Dumper!Linked(v)
    BY <1>15 DEF Dumper!ArchiveInv
  <2>2. /\ writer'[v].phase \in Up <=> writer[v].phase \in Up
        /\ writer'[v].phase = "done" <=> writer[v].phase = "done"
        /\ writer'[v].next = writer[v].next /\ writer'[v].from = writer[v].from
        /\ writer'[v].prev = writer[v].prev /\ writer'[v].buffer = writer[v].buffer
    <3>1. CASE v = w
      BY <1>1, <1>5, <1>6, <3>1 DEF d, Up
    <3>2. CASE v # w
      BY <1>6, <3>2
    <3> QED BY <3>1, <3>2
  <2>3. Dumper!Filed(v)' = Dumper!Filed(v) /\ source' = source /\ spent' = spent
    BY <1>1, <1>9
  <2> QED BY <2>1, <2>2, <2>3 DEF Dumper!Linked, Up
<1> QED BY <1>1, <1>7, <1>10, <1>11, <1>12, <1>13, <1>14, <1>15 DEF Dumper!ArchiveInv

\* The state i of append() after a chunk.
HasSaved(d, t, n, i) ==
    /\ i \in Dumpers
    /\ i.phase = "dumping" /\ i.top = t /\ i.next = Dumper!To(n) + 1
    /\ i.from = d.from /\ i.prev = d.prev /\ i.buffer = << >>

\* A chunk that is in place is with those of its range.
LEMMA FileFits ==
    ASSUME Dumper!ArchiveInv, NEW w \in Writer, NEW d, NEW t, NEW n, Writes(w, d, t, n),
           NEW i, HasSaved(d, t, n, i),
           writer' = [writer EXCEPT ![w] = i],
           d.phase \in {"saving", "writing"},
           tops' = tops \cup {t}, chunks' = chunks \cup {n},
           UNCHANGED << source, storage, spent >>
    PROVE  Dumper!ArchiveInv'
<1> DEFINE from == DumpedRanges[w].from
           to == DumpedRanges[w].to
           next == Dumper!To(n) + 1
<1>0. /\ i \in Dumpers
      /\ i.phase = "dumping" /\ i.top = t /\ i.next = Dumper!To(n) + 1
      /\ i.from = d.from /\ i.prev = d.prev /\ i.buffer = << >>
  BY DEF HasSaved
<1>1. /\ d = writer[w] /\ d.next \in Nat /\ d.from \in Nat
      /\ d.prev \in Dumper!Blocks /\ d.prev.number = d.from - 1
      /\ d.buffer \in Seq(Dumper!Blocks) /\ d.buffer # << >>
      /\ n \in [top : Nat, from : Nat, blocks : Seq(Dumper!Blocks)]
      /\ n.top = t /\ n.from = d.next /\ n.blocks = d.buffer
      /\ Dumper!To(n) \in Nat /\ next = d.from
      /\ d.next <= Dumper!To(n) /\ Dumper!To(n) <= to
      /\ Dumper!EndsAt(w, d.next)
      /\ t \in Nat /\ from <= t /\ t <= d.next
      /\ Dumper!Dir(t) = {} => t = d.next
      /\ \A u \in Dumper!OwnTops(w) : u <= t
      /\ from \in Nat /\ to \in Nat
  BY RangeIs DEF Writes
<1>2. /\ from <= d.next /\ \A c \in Dumper!Filed(w) : Dumper!To(c) < d.next
      /\ \A m \in from..d.next - 1 : \E c \in Dumper!Filed(w) : m \in c.from..Dumper!To(c)
  BY <1>1 DEF Dumper!EndsAt
<1>3. /\ writer'[w] = i /\ \A v \in Writer : v # w => writer'[v] = writer[v]
      /\ writer' \in [Writer -> Dumpers]
  BY <1>0, Typed DEF Dumper!ArchiveInv
<1>4. Dumper!TypeOK'
  <2>1. Dumper!IsFiniteSet(chunks')
    BY SameCountingOfChunks, FS_AddElement DEF Dumper!ArchiveInv, Dumper!TypeOK
  <2>2. tops' \subseteq Nat /\ chunks' \subseteq [top : Nat, from : Nat, blocks : Seq(Dumper!Blocks)]
    BY <1>1 DEF Dumper!ArchiveInv, Dumper!TypeOK
  <2> QED BY <1>3, <2>1, <2>2 DEF Dumper!ArchiveInv, Dumper!TypeOK, Dumpers, DumperPhases
<1>5. /\ Dumper!OwnTops(w)' = Dumper!OwnTops(w) \cup {t}
      /\ \A v \in Writer : v # w => Dumper!OwnTops(v)' = Dumper!OwnTops(v)
      /\ t \in from..to
  BY OwnTopsGrow
<1>6. n.from \in from..to
  BY <1>1, <1>2
<1>7. /\ Dumper!Filed(w)' = Dumper!Filed(w) \cup {n}
      /\ \A v \in Writer : v # w => Dumper!Filed(v)' = Dumper!Filed(v)
  <2>1. Dumper!Filed(w)' = Dumper!Filed(w) \cup {n}
    BY <1>6 DEF Dumper!Filed
  <2>2. ASSUME NEW v \in Writer, v # w
        PROVE  Dumper!Filed(v)' = Dumper!Filed(v)
    <3>1. n.from \notin DumpedRanges[v].from..DumpedRanges[v].to
      BY <1>6, <2>2, OneOwner
    <3> QED BY <3>1 DEF Dumper!Filed
  <2> QED BY <2>1, <2>2
<1>8. /\ \A u : Dumper!Dir(u) \subseteq Dumper!Dir(u)'
      /\ n \in Dumper!Dir(t)'
  BY <1>1 DEF Dumper!Dir
<1>9. \A c \in Dumper!Filed(w) : c \in chunks /\ Dumper!To(c) \in Nat /\ c.from \in Nat /\ c.from \in from..to
  BY OwnChunk DEF Dumper!Filed
<1>10. Dumper!EndsAt(w, next)'
  <2>1. next \in Nat /\ from <= next
    BY <1>1, <1>2
  <2>2. \A c \in Dumper!Filed(w)' : Dumper!To(c) < next
    BY <1>1, <1>2, <1>7, <1>9
  <2>3. ASSUME NEW m \in from..next - 1
        PROVE  \E c \in Dumper!Filed(w)' : m \in c.from..Dumper!To(c)
    <3>1. CASE m \in from..d.next - 1
      BY <1>2, <1>7, <3>1
    <3>2. CASE m \in n.from..Dumper!To(n)
      BY <1>7, <3>2
    <3> QED BY <1>1, <3>1, <3>2
  <2> QED BY <2>1, <2>2, <2>3 DEF Dumper!EndsAt
<1>11. \A v \in Writer : \A m : v # w => (Dumper!EndsAt(v, m)' <=> Dumper!EndsAt(v, m))
  BY <1>7 DEF Dumper!EndsAt
<1>12. ASSUME NEW c \in chunks
       PROVE  ~ (c.from <= n.from /\ n.from <= Dumper!To(c))
  <2> SUFFICES ASSUME c.from <= n.from, n.from <= Dumper!To(c) PROVE FALSE
    OBVIOUS
  <2>1. PICK v \in Writer : c \in Dumper!Filed(v) /\ Dumper!To(c) <= DumpedRanges[v].to
    BY ChunkOwner
  <2>2. c.from \in DumpedRanges[v].from..DumpedRanges[v].to /\ Dumper!To(c) \in Nat
    BY <2>1, OwnChunk
  <2>3. n.from \in DumpedRanges[v].from..DumpedRanges[v].to
    <3>1. /\ DumpedRanges[v].from \in Nat /\ DumpedRanges[v].to \in Nat /\ n.from \in Nat
          /\ DumpedRanges[v].from <= c.from /\ c.from \in Nat
      BY <1>1, <2>2, RangeIs
    <3>2. DumpedRanges[v].from <= n.from /\ n.from <= DumpedRanges[v].to
      BY <2>1, <2>2, <3>1
    <3> QED BY <3>1, <3>2
  <2>4. v = w
    BY <1>6, <2>3, OneOwner
  <2> QED BY <1>1, <1>2, <2>1, <2>2, <2>4
<1>13. ASSUME NEW c \in chunks
       PROVE  Dumper!ChunkFits(c)'
  <2>1. Dumper!ChunkFits(c)
    BY DEF Dumper!ArchiveInv
  <2>2. \A u \in tops' : u > c.top => u > Dumper!To(c)
    BY <2>1, NewTop DEF Dumper!ChunkFits
  <2>3. \A e \in chunks' : c.from <= e.from /\ e.from <= Dumper!To(c) => c = e
    BY <1>12, <2>1 DEF Dumper!ChunkFits
  <2>4. \E v \in Writer : /\ c \in Dumper!Filed(v)' /\ DumpedRanges[v].from <= c.top
                          /\ Dumper!To(c) <= DumpedRanges[v].to
    BY <1>7, <2>1 DEF Dumper!ChunkFits
  <2> QED BY <2>1, <2>2, <2>3, <2>4 DEF Dumper!ChunkFits
<1>14. Dumper!ChunkFits(n)'
  <2>1. ASSUME NEW u \in tops', u > t
        PROVE  u > Dumper!To(n)
    <3>1. u \in tops /\ u \in Nat
      BY <1>1, <2>1, Typed DEF Dumper!ArchiveInv
    <3>2. PICK v \in Writer : u \in Dumper!OwnTops(v)
      BY <3>1 DEF Dumper!ArchiveInv, Dumper!TopFits
    <3>3. v # w
      BY <1>1, <2>1, <3>1, <3>2
    <3>4. u \in DumpedRanges[v].from..DumpedRanges[v].to /\ DumpedRanges[v].from \in Nat
          /\ DumpedRanges[v].to \in Nat
      BY <3>2, RangeIs DEF Dumper!OwnTops
    <3>5. to < DumpedRanges[v].from
      <4>1. t <= DumpedRanges[v].to /\ t \in Int
        BY <1>1, <2>1, <3>1, <3>4
      <4> QED BY <1>5, <3>3, <4>1, RangesApart
    <3> QED BY <1>1, <3>1, <3>4, <3>5
  <2>2. ASSUME NEW e \in chunks, n.from <= e.from, e.from <= Dumper!To(n)
        PROVE  FALSE
    <3>1. PICK v \in Writer : e \in Dumper!Filed(v)
      BY ChunkOwner
    <3>2. e.from \in DumpedRanges[v].from..DumpedRanges[v].to /\ e.from \in Nat
          /\ e.from <= Dumper!To(e) /\ Dumper!To(e) \in Nat
      BY <3>1, OwnChunk
    <3>3. e.from \in from..to
      BY <1>1, <1>2, <2>2, <3>2
    <3>4. v = w
      BY <3>2, <3>3, OneOwner
    <3>5. Dumper!To(e) < d.next
      BY <1>2, <3>1, <3>4
    <3> QED BY <1>1, <2>2, <3>2, <3>5
  <2>3. n.from <= Dumper!To(n) /\ n.top <= n.from /\ n.top \in tops' /\ n.blocks # << >>
    BY <1>1
  <2>4. n \in Dumper!Filed(w)' /\ from <= n.top /\ Dumper!To(n) <= to
    BY <1>1, <1>7
  <2> QED BY <1>1, <2>1, <2>2, <2>3, <2>4 DEF Dumper!ChunkFits
<1>15. ASSUME NEW u \in tops'
       PROVE  Dumper!TopFits(u)'
  <2>1. CASE u = t
    BY <1>5, <1>8, <2>1 DEF Dumper!TopFits
  <2>2. CASE u \in tops
    <3>1. Dumper!TopFits(u)
      BY <2>2 DEF Dumper!ArchiveInv
    <3>2. PICK v \in Writer : u \in Dumper!OwnTops(v)
      BY <3>1 DEF Dumper!TopFits
    <3>3. u \in Dumper!OwnTops(v)'
      BY <1>5, <3>2
    <3> QED BY <1>8, <3>1, <3>3 DEF Dumper!TopFits
  <2> QED BY <2>1, <2>2
<1>16. ASSUME NEW v \in Writer
       PROVE  Dumper!RangeFits(v)'
  <2>1. Dumper!RangeFits(v)
    BY DEF Dumper!ArchiveInv
  <2>2. CASE v # w
    <3>1. Dumper!OwnTops(v)' = Dumper!OwnTops(v) /\ Dumper!Filed(v)' = Dumper!Filed(v)
      BY <1>5, <1>7, <2>2
    <3> QED BY <1>8, <1>11, <2>1, <2>2, <3>1 DEF Dumper!RangeFits
  <2>3. CASE v = w
    <3>1. ASSUME NEW u \in Dumper!OwnTops(w)', Dumper!Dir(u)' = {}
          PROVE  FALSE
      <4>1. u # t /\ Dumper!Dir(u) = {} /\ u \in Dumper!OwnTops(w)
        BY <1>5, <1>8, <3>1
      <4>2. Dumper!EndsAt(w, u)
        BY <2>1, <2>3, <4>1 DEF Dumper!RangeFits
      <4>3. u = d.next
        BY <1>1, <1>9, <4>2, OneEnd
      <4> QED BY <1>1, <4>1, <4>3
    <3>2. n \in Dumper!Filed(w)'
      BY <1>7
    <3> QED BY <1>10, <2>3, <3>1, <3>2 DEF Dumper!RangeFits
  <2> QED BY <2>2, <2>3
<1>17. Dumper!WriterFits(w)'
  <2>1. i.from <= to + 1 /\ from <= i.top /\ i.top <= i.next /\ i.from = i.next
    BY <1>0, <1>1
  <2>2. i.prev # Dumper!NoBlock /\ i.prev.number = i.from - 1
    BY <1>0, <1>1, BlockIs
  <2>3. Dumper!Dir(i.top)' # {} /\ \A u \in Dumper!OwnTops(w)' : u <= i.top
    BY <1>0, <1>1, <1>5, <1>8
  <2> QED BY <1>0, <1>3, <1>10, <2>1, <2>2, <2>3 DEF Dumper!WriterFits
<1>18. ASSUME NEW v \in Writer, v # w
       PROVE  Dumper!WriterFits(v)'
  <2>1. Dumper!WriterFits(v) /\ writer'[v] = writer[v]
    BY <1>3, <1>18 DEF Dumper!ArchiveInv
  <2>2. Dumper!NextTop(v)' = Dumper!NextTop(v)
    BY <2>1 DEF Dumper!NextTop
  <2>3. Dumper!OwnTops(v)' = Dumper!OwnTops(v) /\ tops \subseteq tops' /\ storage' = storage
        /\ Dumper!Filed(v)' = Dumper!Filed(v)
    BY <1>5, <1>7, <1>18
  <2>4. Dumper!EndsAt(v, writer[v].next)' <=> Dumper!EndsAt(v, writer[v].next)
    BY <2>1, <2>3 DEF Dumper!EndsAt
  <2>5. Dumper!Dir(writer[v].top)' = {} => Dumper!Dir(writer[v].top) = {}
    BY <2>1 DEF Dumper!Dir
  <2> QED BY <2>1, <2>2, <2>3, <2>4, <2>5 DEF Dumper!WriterFits
<1>19. ASSUME NEW v \in Writer, storage = "s3" \/ spent.switches = 0
       PROVE  Dumper!Linked(v)'
  <2>1. Dumper!Linked(v)
    BY <1>19 DEF Dumper!ArchiveInv
  <2>2. CASE v # w
    <3>1. Dumper!Filed(v)' = Dumper!Filed(v) /\ writer'[v] = writer[v] /\ source' = source
          /\ spent' = spent
      BY <1>3, <1>7, <2>2
    <3> QED BY <2>1, <3>1 DEF Dumper!Linked
  <2>3. CASE v = w
    <3>1. PICK chain \in DumpedChains : Links(w, d, chain)
      BY <1>1, <1>19, LinkedIs
    <3>2. n.blocks = Part(chain, n.from, Dumper!To(n) + 1)
      BY <1>1, <3>1 DEF Links, InMemoryOf, Up
    <3>3. \A c \in Dumper!Filed(w)' : c.blocks = Part(chain, c.from, Dumper!To(c) + 1)
      BY <1>7, <3>1, <3>2 DEF Links, FiledOf
    <3>4. \A c \in Dumper!Filed(w)' :
              c.blocks = Dumper!InRange(chain, [from |-> c.from, to |-> Dumper!To(c)])
      BY <3>3 DEF Dumper!InRange, Part
    <3>5. i.buffer = Dumper!InRange(chain, [from |-> i.next, to |-> i.from - 1])
      <4>1. i.next \in Int /\ i.from \in Int /\ i.from <= i.next
        BY <1>0, <1>1
      <4>2. /\ Part(chain, i.next, i.from) = << >>
            /\ Dumper!InRange(chain, [from |-> i.next, to |-> i.from - 1]) = Part(chain, i.next, i.from)
        BY <4>1, PartIs
      <4> QED BY <1>0, <4>2
    <3>6. \E k \in 1..Len(chain) : chain[k] = i.prev
      <4>1. d.prev # Dumper!NoBlock
        BY <1>1, BlockIs
      <4> QED BY <1>0, <1>1, <3>1, <4>1 DEF Links, InMemoryOf, Up
    <3>7. spent.switches = 0 => chain = source
      BY <3>1 DEF Links
    <3> QED BY <1>0, <1>3, <2>3, <3>4, <3>5, <3>6, <3>7 DEF Dumper!Linked
  <2> QED BY <2>2, <2>3
<1> QED BY <1>4, <1>13, <1>14, <1>15, <1>16, <1>17, <1>18, <1>19 DEF Dumper!ArchiveInv

SavedAs(d, t, f, n) ==
    HasSaved(d, t, n, [d EXCEPT !.phase = "dumping", !.top = t, !.filed = f,
                                !.next = Dumper!To(n) + 1, !.buffer = << >>])

LEMMA SavedAsIs ==
    ASSUME NEW d \in Dumpers, NEW t \in Nat, NEW f \in Nat, NEW n, Dumper!To(n) \in Nat
    PROVE  SavedAs(d, t, f, n)
<1> DEFINE m == Dumper!To(n) + 1
           i == [d EXCEPT !.phase = "dumping", !.top = t, !.filed = f, !.next = m, !.buffer = << >>]
<1>1. << >> \in Seq(Dumper!Blocks) /\ "dumping" \in DumperPhases /\ m \in Nat
  BY DEF DumperPhases
<1> HIDE DEF m
<1>2. /\ i \in Dumpers /\ i.phase = "dumping" /\ i.top = t /\ i.next = m
      /\ i.from = d.from /\ i.prev = d.prev /\ i.buffer = << >>
  BY <1>1 DEF Dumpers
<1> QED BY <1>2 DEF SavedAs, HasSaved, m

LEMMA WritingFits ==
    ASSUME Dumper!ArchiveInv, NEW w \in Writer,
           writer[w].phase \in {"saving", "writing"},
           writer' = [writer EXCEPT ![w] = Dumper!Saved(w)],
           tops' = tops \cup {Dumper!NextTop(w)}, chunks' = chunks \cup {Dumper!NextChunk(w)},
           UNCHANGED << source, storage, spent >>
    PROVE  Dumper!ArchiveInv'
<1> DEFINE d == writer[w]
           t == Dumper!NextTop(w)
           n == Dumper!NextChunk(w)
           f == IF t = d.top THEN d.filed + 1 ELSE 1
           i == Dumper!Saved(w)
<1>1. Writes(w, d, t, n)
  BY WritesIs
<1>2. i = [d EXCEPT !.phase = "dumping", !.top = t, !.filed = f, !.next = Dumper!To(n) + 1,
                    !.buffer = << >>]
  BY DEF Dumper!Saved
<1>3. f \in Nat
  BY WriterTyped DEF Dumper!ArchiveInv
<1>4. tops' = tops \cup {t} /\ chunks' = chunks \cup {n} /\ writer' = [writer EXCEPT ![w] = i]
      /\ d.phase \in {"saving", "writing"}
  OBVIOUS
<1> HIDE DEF d, t, n, f, i
<1>5. d \in Dumpers /\ t \in Nat /\ Dumper!To(n) \in Nat
  BY <1>1 DEF Writes
<1>6. HasSaved(d, t, n, i)
  BY <1>2, <1>3, <1>5, SavedAsIs DEF SavedAs
<1> QED BY <1>1, <1>4, <1>6, FileFits

LEMMA PutChunkFits ==
    ASSUME Dumper!ArchiveInv, NEW w \in Writer, Dumper!PutChunk(w)
    PROVE  Dumper!ArchiveInv'
BY WritingFits DEF Dumper!PutChunk

LEMMA MoveChunkFits ==
    ASSUME Dumper!ArchiveInv, NEW w \in Writer, Dumper!MoveChunk(w)
    PROVE  Dumper!ArchiveInv'
<1>1. /\ writer[w].phase = "writing" /\ chunks' = chunks \cup {Dumper!NextChunk(w)}
      /\ writer' = [writer EXCEPT ![w] = Dumper!Saved(w)]
      /\ UNCHANGED << source, storage, tops, spent >>
  BY DEF Dumper!MoveChunk
<1>2. tops' = tops \cup {Dumper!NextTop(w)}
  BY <1>1, WritesIs
<1> QED BY <1>1, <1>2, WritingFits

LEMMA DumperStep ==
    ASSUME Dumper!ArchiveInv, Dumper!Next
    PROVE  Dumper!ArchiveInv'
<1>1. CASE Dumper!Switch
  BY <1>1, SwitchFits
<1>2. CASE \E w \in Writer : Dumper!Dump(w) \/ Dumper!Crash(w)
  <2>1. PICK w \in Writer : Dumper!Dump(w) \/ Dumper!Crash(w)
    BY <1>2
  <2>2. CASE Dumper!Start(w)  BY <2>2, StartFits
  <2>3. CASE Dumper!Receive(w)  BY <2>3, ReceiveFits
  <2>4. CASE Dumper!Refuse(w)  BY <2>4, RefuseFits
  <2>5. CASE Dumper!StreamEnds(w)  BY <2>5, StreamEndsFits
  <2>6. CASE Dumper!PutChunk(w)  BY <2>6, PutChunkFits
  <2>7. CASE Dumper!MakeTopDir(w)  BY <2>7, MakeTopDirFits
  <2>8. CASE Dumper!MoveChunk(w)  BY <2>8, MoveChunkFits
  <2>9. CASE Dumper!Crash(w)  BY <2>9, CrashFits
  <2> QED BY <2>1, <2>2, <2>3, <2>4, <2>5, <2>6, <2>7, <2>8, <2>9 DEF Dumper!Dump
<1> QED BY <1>1, <1>2 DEF Dumper!Next
------------------------------------------------------------------------------
(***************************************************************************)
(* Archive: the invariant and what follows of it.                            *)
(***************************************************************************)
LEMMA ArchiveInit ==
    ASSUME Dumper!Init
    PROVE  Dumper!ArchiveInv
<1>1. /\ source \in DumpedChains /\ tops = {} /\ chunks = {}
      /\ writer = [w \in Writer |-> Dumper!Down] /\ spent = [crashes |-> 0, switches |-> 0]
  BY DEF Dumper!Init
<1>2. Dumper!Down \in Dumpers /\ Dumper!Down.phase = "down"
  <2>1. << >> \in Seq(Dumper!Blocks)
    OBVIOUS
  <2> QED BY <2>1 DEF Dumper!Down, Dumpers, DumperPhases
<1>3. \A w \in Writer : writer[w].phase = "down" /\ Dumper!Filed(w) = {} /\ Dumper!OwnTops(w) = {}
  BY <1>1, <1>2 DEF Dumper!Filed, Dumper!OwnTops
<1>4. Dumper!TypeOK
  <2>1. writer \in [Writer -> Dumpers]
    BY <1>1, <1>2
  <2>2. Dumper!IsFiniteSet(chunks)
    BY <1>1, SameCountingOfChunks, FS_EmptySet
  <2> QED BY <1>1, <2>1, <2>2 DEF Dumper!TypeOK, Dumpers, DumperPhases
<1>5. ASSUME NEW w \in Writer
      PROVE  Dumper!RangeFits(w)
  <2>1. Dumper!EndsAt(w, DumpedRanges[w].from)
    BY <1>3, RangeIs DEF Dumper!EndsAt
  <2> QED BY <1>3, <2>1 DEF Dumper!RangeFits
<1>6. ASSUME NEW w \in Writer
      PROVE  Dumper!WriterFits(w) /\ Dumper!Linked(w)
  BY <1>1, <1>3 DEF Dumper!WriterFits, Dumper!Linked
<1> QED BY <1>1, <1>4, <1>5, <1>6 DEF Dumper!ArchiveInv

LEMMA ArchiveRests ==
    ASSUME Dumper!ArchiveInv, UNCHANGED archiveVars
    PROVE  Dumper!ArchiveInv'
<1>1. UNCHANGED << source, storage, tops, chunks, writer, spent >>
  BY DEF archiveVars
<1>2. Dumper!TypeOK'
  BY <1>1 DEF Dumper!ArchiveInv, Dumper!TypeOK
<1>3. /\ \A c \in chunks' : Dumper!ChunkFits(c)'
      /\ \A t \in tops' : Dumper!TopFits(t)'
      /\ \A v \in Writer : Dumper!RangeFits(v)' /\ Dumper!WriterFits(v)'
  BY <1>1 DEF Dumper!ArchiveInv, Dumper!ChunkFits, Dumper!TopFits, Dumper!RangeFits,
         Dumper!WriterFits, Dumper!NextTop, Dumper!EndsAt, Dumper!OwnTops, Dumper!Filed, Dumper!Dir
<1>4. ASSUME NEW v \in Writer, storage = "s3" \/ spent.switches = 0
      PROVE  Dumper!Linked(v)'
  <2>1. Dumper!Linked(v) /\ Dumper!Filed(v)' = Dumper!Filed(v)
    BY <1>1, <1>4 DEF Dumper!ArchiveInv, Dumper!Filed
  <2> QED BY <1>1, <2>1 DEF Dumper!Linked
<1> QED BY <1>1, <1>2, <1>3, <1>4 DEF Dumper!ArchiveInv

\* A range that is read is read in full.
LEMMA ReadingIs ==
    ASSUME Dumper!ArchiveInv, NEW from \in Nat, NEW to \in Nat
    PROVE  Dumper!DataChunks([from |-> from, to |-> to])
               = {c \in chunks : c.from <= to /\ from <= Dumper!To(c)}
<1> DEFINE r == [from |-> from, to |-> to]
<1>1. r.from = from /\ r.to = to
  OBVIOUS
<1>2. \A c \in chunks : /\ c.top \in Nat /\ c.from \in Nat /\ Dumper!To(c) \in Nat
                        /\ c.top \in tops /\ c.top <= c.from /\ c.from <= Dumper!To(c)
                        /\ \A t \in tops : t > c.top => t > Dumper!To(c)
  BY ChunkTyped DEF Dumper!ArchiveInv, Dumper!ChunkFits
<1>3. ASSUME NEW c \in chunks, c.from <= to, from <= Dumper!To(c)
      PROVE  c \in Dumper!DataChunks(r)
  <2>1. c.top <= to
    BY <1>2, <1>3
  <2>2. ASSUME NEW t \in tops, t > c.top
        PROVE  t >= from
    <3>1. t > Dumper!To(c) /\ t \in Nat
      BY <1>2, <2>2, Typed DEF Dumper!ArchiveInv
    <3> QED BY <1>2, <1>3, <3>1
  <2>3. ASSUME NEW e \in chunks, e.top < c.top \/ (e.top = c.top /\ e.from < c.from)
        PROVE  e.from <= to
    <3>1. CASE e.top < c.top
      <4>1. c.top > Dumper!To(e)
        BY <1>2, <3>1
      <4> QED BY <1>2, <2>1, <4>1
    <3>2. CASE e.from < c.from
      BY <1>2, <1>3, <3>2
    <3> QED BY <2>3, <3>1, <3>2
  <2> QED BY <1>1, <1>3, <2>1, <2>2, <2>3 DEF Dumper!DataChunks
<1>4. ASSUME NEW c \in Dumper!DataChunks(r)
      PROVE  c \in chunks /\ c.from <= to /\ from <= Dumper!To(c)
  BY <1>1 DEF Dumper!DataChunks
<1> QED BY <1>3, <1>4

\* The chunk before another one.
LEMMA GaplessIs ==
    ASSUME Dumper!ArchiveInv
    PROVE  Dumper!Gapless
<1>1. \A c \in chunks : \E w \in Writer : c \in Dumper!Filed(w)
  BY ChunkOwner
<1>2. ASSUME NEW w \in Writer, NEW c \in Dumper!Filed(w)
      PROVE  /\ Dumper!To(c) <= DumpedRanges[w].to
             /\ c.from # DumpedRanges[w].from => \E e \in Dumper!Filed(w) : Dumper!To(e) + 1 = c.from
  <2>1. /\ c \in chunks /\ c.from \in Nat /\ Dumper!To(c) \in Nat /\ c.from <= Dumper!To(c)
        /\ c.from \in DumpedRanges[w].from..DumpedRanges[w].to
        /\ Dumper!To(c) <= DumpedRanges[w].to
    BY OwnChunk DEF Dumper!Filed
  <2>2. ASSUME c.from # DumpedRanges[w].from
        PROVE  \E e \in Dumper!Filed(w) : Dumper!To(e) + 1 = c.from
    <3>1. PICK n : Dumper!EndsAt(w, n)
      BY DEF Dumper!ArchiveInv, Dumper!RangeFits
    <3>2. n \in Nat /\ Dumper!To(c) < n
      BY <3>1 DEF Dumper!EndsAt
    <3>3. c.from - 1 \in DumpedRanges[w].from..n - 1
      BY <2>1, <2>2, <3>2, RangeIs
    <3>4. PICK e \in Dumper!Filed(w) : c.from - 1 \in e.from..Dumper!To(e)
      BY <3>1, <3>3 DEF Dumper!EndsAt
    <3>5. e \in chunks /\ e.from \in Nat /\ Dumper!To(e) \in Nat
      BY OwnChunk DEF Dumper!Filed
    <3>6. ~ (c.from <= Dumper!To(e))
      <4> SUFFICES ASSUME c.from <= Dumper!To(e) PROVE FALSE
        OBVIOUS
      <4>1. e.from <= c.from
        BY <2>1, <3>4, <3>5
      <4>2. e = c
        BY <2>1, <3>5, <4>1 DEF Dumper!ArchiveInv, Dumper!ChunkFits
      <4> QED BY <2>1, <3>4, <4>2
    <3>7. Dumper!To(e) + 1 = c.from
      BY <2>1, <3>4, <3>5, <3>6
    <3> QED BY <3>7
  <2> QED BY <2>1, <2>2
<1> QED BY <1>1, <1>2 DEF Dumper!Gapless

LEMMA ArchiveSound ==
    ASSUME Dumper!ArchiveInv
    PROVE  Dumper!ArchiveIsSound
<1>1. Dumper!Readable
  <2>1. \A w \in Writer : ~ Dumper!Overlapping(w)
    BY StartIs
  <2> QED BY <2>1 DEF Dumper!Readable, Dumper!ArchiveInv, Dumper!ChunkFits
<1>2. Dumper!ReadsBack
  <2>1. \A n \in {b.number : b \in Dumper!Blocks} : n \in Nat
    BY BlockIs
  <2> QED BY <2>1, ReadingIs DEF Dumper!ReadsBack
<1>3. Dumper!Gapless
  BY GaplessIs
<1>4. storage = "s3" \/ spent.switches = 0 => Dumper!ArchiveLinks
  BY DEF Dumper!ArchiveInv, Dumper!Linked, Dumper!ArchiveLinks
<1> QED BY <1>1, <1>2, <1>3, <1>4 DEF Dumper!ArchiveIsSound

(***************************************************************************)
(* Whatever ranges the dumpers have, whenever they crash between making a    *)
(* top directory and moving a chunk into it and wherever they are restarted: *)
(* what getAppendState() finds is where the range ends, the chunks follow    *)
(* one another in the top directories, and what a dumper has in memory goes  *)
(* on from them.                                                             *)
(***************************************************************************)
THEOREM ArchiveInvAlways == AllSpec => []Dumper!ArchiveInv
<1>1. AllInit => Dumper!ArchiveInv
  BY ArchiveInit DEF AllInit
<1>2. Dumper!ArchiveInv /\ [AllNext]_<< running, vars, archiveVars, requestVars >>
          => Dumper!ArchiveInv'
  <2> SUFFICES ASSUME Dumper!ArchiveInv,
                      [AllNext]_<< running, vars, archiveVars, requestVars >>
               PROVE  Dumper!ArchiveInv'
    OBVIOUS
  <2>1. Dumper!Next \/ UNCHANGED archiveVars
    BY DEF AllNext
  <2> QED BY <2>1, DumperStep, ArchiveRests
<1> QED BY <1>1, <1>2, PTL DEF AllSpec

(***************************************************************************)
(* So the archive can always be read and appended to: getAppendState(),      *)
(* getNextChunk() and getDataChunks() never stop on what they find, no range *)
(* of blocks lies between two chunks, and what is read of it is everything.  *)
(* As long as the source does not give up what it took for final, and on S3  *)
(* anyway, the chunks of a range hold one chain, all of it for a dumper that *)
(* is done.                                                                  *)
(***************************************************************************)
THEOREM ArchiveAlwaysSound == AllSpec => []ArchiveIsSound
<1>1. Dumper!ArchiveInv => ArchiveIsSound
  BY ArchiveSound DEF ArchiveIsSound
<1> QED BY <1>1, ArchiveInvAlways, PTL
=============================================================================
