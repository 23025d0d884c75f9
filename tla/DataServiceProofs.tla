-------------------------- MODULE DataServiceProofs --------------------------
(***************************************************************************)
(* Proofs about DataService, for every tree of blocks, every numbering, every *)
(* size of the window, any number of clients and every bound on forks and    *)
(* errors.                                                                  *)
(***************************************************************************)
EXTENDS DataService, BlockTreeProofs, FiniteSetTheorems

------------------------------------------------------------------------------
(***************************************************************************)
(* Chains and their numbers.                                                *)
(***************************************************************************)

\* Numbers grow along a chain.
LEMMA NumberOrder ==
    ASSUME NEW r \in Ref, NEW t \in Ref, On(r, t)
    PROVE  /\ Number[r] \in Int /\ Number[t] \in Int
           /\ Number[r] <= Number[t]
           /\ r # t => Number[r] < Number[t]
<1>1. Number[r] \in Int /\ Number[t] \in Int
  BY ChainAssumption
<1>2. r # t => Number[r] < Number[t]
  BY ChainAssumption
<1> QED BY <1>1, <1>2

LEMMA PathOrder ==
    ASSUME NEW t \in Ref, NEW i \in 1..Len(Path[t]), NEW j \in 1..Len(Path[t]), i <= j
    PROVE  /\ On(Path[t][i], Path[t][j])
           /\ i < j => Number[Path[t][i]] < Number[Path[t][j]]
<1>1. Len(Path[t]) \in Nat
  BY HeightType
<1>2. /\ Path[t][i] \in Ref /\ Path[t][j] \in Ref
      /\ Len(Path[Path[t][i]]) = i /\ Len(Path[Path[t][j]]) = j
      /\ On(Path[t][i], t) /\ On(Path[t][j], t)
  BY PathBlocks
<1>3. Height(Path[t][i]) <= Height(Path[t][j])
  BY <1>2 DEF Height
<1>4. On(Path[t][i], Path[t][j])
  BY <1>2, <1>3, AncestorLinear
<1>5. i < j => Path[t][i] # Path[t][j]
  BY <1>2
<1> QED BY <1>2, <1>4, <1>5, NumberOrder

\* A set of positions with all those below each of them is counted by its last one.
LEMMA CountPrefix ==
    ASSUME NEW m \in Nat, NEW S, S \subseteq 1..m,
           \A j \in S : \A i \in 1..m : i <= j => i \in S
    PROVE  /\ Cardinality(S) \in 0..m
           /\ S = 1..Cardinality(S)
<1> DEFINE T == {n \in Nat : n = m \/ n + 1 \notin S}
<1>1. T \subseteq Nat /\ m \in T
  OBVIOUS
<1> HIDE DEF T
<1>2. PICK n \in T : \A k \in T : n <= k
  BY <1>1, LeastNatural
<1> USE DEF T
<1>3. n \in 0..m
  BY <1>1, <1>2
<1>4. \A i \in 1..n : i \in S
  <2>1. SUFFICES ASSUME NEW i \in 1..n, i \notin S
                 PROVE  FALSE
    OBVIOUS
  <2>2. i - 1 \in Nat /\ (i - 1) + 1 = i /\ i - 1 < n
    BY <1>3, <2>1
  <2>3. i - 1 \in T
    BY <2>1, <2>2
  <2> QED BY <1>2, <1>3, <2>2, <2>3
<1>5. \A i \in S : i \in 1..n
  <2>1. SUFFICES ASSUME NEW i \in S, i \notin 1..n
                 PROVE  FALSE
    OBVIOUS
  <2>2. i \in 1..m /\ n + 1 \in 1..m /\ n + 1 <= i /\ n # m
    BY <1>3, <2>1
  <2>3. n + 1 \in S
    BY <2>2
  <2> QED BY <1>2, <2>2, <2>3
<1>6. S = 1..n
  BY <1>4, <1>5
<1>7. Cardinality(1..n) = n
  BY <1>3, FS_Interval
<1> QED BY <1>3, <1>6, <1>7

\* A bounded set of positions has a last one.
LEMMA LastPosition ==
    ASSUME NEW m \in Nat, NEW S, S \subseteq 1..m, S # {}
    PROVE  LET last == CHOOSE i \in S : \A j \in S : j <= i
           IN  last \in S /\ \A j \in S : j <= last
<1> DEFINE T == {n \in Nat : m - n \in S}
<1>1. T \subseteq Nat
  OBVIOUS
<1>2. T # {}
  <2>1. PICK i \in S : TRUE
    OBVIOUS
  <2>2. m - i \in Nat /\ m - (m - i) = i
    BY <2>1
  <2> QED BY <2>1, <2>2
<1> HIDE DEF T
<1>3. PICK n \in T : \A k \in T : n <= k
  BY <1>1, <1>2, LeastNatural
<1> USE DEF T
<1>4. m - n \in S
  BY <1>3
<1>5. \A j \in S : j <= m - n
  <2>1. SUFFICES ASSUME NEW j \in S
                 PROVE  j <= m - n
    OBVIOUS
  <2>2. m - j \in Nat /\ m - (m - j) = j
    OBVIOUS
  <2>3. n <= m - j
    BY <1>3, <2>2
  <2> QED BY <1>3, <2>2, <2>3
<1> QED BY <1>4, <1>5

------------------------------------------------------------------------------
(***************************************************************************)
(* Windows.                                                                 *)
(***************************************************************************)

\* The blocks of a window are a stretch of one chain.
LEMMA WindowFacts ==
    ASSUME NEW ch, IsWindow(ch)
    PROVE  /\ ch.blocks \in Seq(Block)
           /\ Len(ch.blocks) \in Nat \ {0}
           /\ ch.fin \in 1..Len(ch.blocks)
           /\ LastBlock(ch) \in Block /\ LastBlock(ch) \in Ref
           /\ FirstBlock(ch) \in Block /\ FirstBlock(ch) \in Ref
           /\ FinalizedHead(ch) \in Block /\ FinalizedHead(ch) \in Ref
           /\ \A i \in 1..Len(ch.blocks) :
                  /\ ch.blocks[i] \in Block
                  /\ ch.blocks[i] \in Ref
                  /\ On(ch.blocks[i], LastBlock(ch))
                  /\ Len(Path[ch.blocks[i]]) = Len(Path[LastBlock(ch)]) - Len(ch.blocks) + i
           /\ Len(Path[LastBlock(ch)]) \in Nat
           /\ Len(ch.blocks) <= Len(Path[LastBlock(ch)])
<1> DEFINE size == Len(ch.blocks)
           last == LastBlock(ch)
           path == Path[last]
<1>1. /\ ch.blocks \in Seq(Block) /\ size \in Nat
      /\ ch.fin \in 1..size
      /\ size <= Len(path)
      /\ \A i \in 1..size : ch.blocks[i] = path[Len(path) - size + i]
  BY DEF IsWindow
<1>2. size # 0 /\ \A i \in 1..size : ch.blocks[i] \in Block /\ ch.blocks[i] \in Ref
  BY <1>1 DEF Ref
<1>3. /\ last \in Block /\ last \in Ref
      /\ FirstBlock(ch) \in Block /\ FirstBlock(ch) \in Ref
      /\ FinalizedHead(ch) \in Block /\ FinalizedHead(ch) \in Ref
  BY <1>1, <1>2 DEF LastBlock, FirstBlock, FinalizedHead
<1>4. Len(path) \in Nat
  BY <1>3, HeightType
<1>5. ASSUME NEW i \in 1..size
      PROVE  /\ On(ch.blocks[i], last)
             /\ Len(Path[ch.blocks[i]]) = Len(path) - size + i
  <2>1. Len(path) - size + i \in 1..Len(path)
    <3> HIDE DEF path, size
    <3> QED BY <1>1, <1>4
  <2>2. ch.blocks[i] = path[Len(path) - size + i]
    BY <1>1
  <2> HIDE DEF last
  <2> QED BY <1>3, <2>1, <2>2, PathBlocks
<1> QED BY <1>1, <1>2, <1>3, <1>4, <1>5

LEMMA WindowSize ==
    ASSUME NEW ch, IsWindow(ch), NEW p \in ch.fin..Len(ch.blocks)
    PROVE  /\ ch.blocks \in Seq(Block)
           /\ Len(ch.blocks) \in Nat \ {0}
           /\ ch.fin \in 1..Len(ch.blocks)
           /\ ch.fin \in 1..p
           /\ p \in 1..Len(ch.blocks)
           /\ Len(ch.blocks) \in 1..Len(ch.blocks)
<1>1. /\ ch.blocks \in Seq(Block) /\ Len(ch.blocks) \in Nat
      /\ ch.fin \in 1..Len(ch.blocks)
  BY DEF IsWindow
<1> DEFINE size == Len(ch.blocks)
           fin  == ch.fin
<1>2. size \in Nat /\ fin \in 1..size /\ p \in fin..size
  BY <1>1
<1> HIDE DEF size, fin
<1>3. size \in Nat \ {0} /\ fin \in 1..size /\ fin \in 1..p /\ p \in 1..size /\ size \in 1..size
  BY <1>2
<1> QED BY <1>1, <1>3 DEF size, fin

LEMMA WindowOrder ==
    ASSUME NEW ch, IsWindow(ch), NEW i \in 1..Len(ch.blocks), NEW j \in 1..Len(ch.blocks),
           i <= j
    PROVE  /\ Number[ch.blocks[i]] \in Int /\ Number[ch.blocks[j]] \in Int
           /\ On(ch.blocks[i], ch.blocks[j])
           /\ i < j => Number[ch.blocks[i]] < Number[ch.blocks[j]]
           /\ j = i + 1 => Parent(ch.blocks[j]) = ch.blocks[i]
<1> DEFINE a == ch.blocks[i]
           b == ch.blocks[j]
           last == LastBlock(ch)
<1>1. /\ a \in Ref /\ b \in Ref /\ b \in Block /\ a \in Block /\ last \in Ref
      /\ On(a, last) /\ On(b, last)
      /\ Len(Path[a]) = Len(Path[last]) - Len(ch.blocks) + i
      /\ Len(Path[b]) = Len(Path[last]) - Len(ch.blocks) + j
      /\ Len(Path[last]) \in Nat /\ Len(ch.blocks) \in Nat
      /\ Len(ch.blocks) <= Len(Path[last])
  BY WindowFacts
<1> HIDE DEF a, b, last
<1>6. Len(Path[a]) < Len(Path[b]) <=> i < j
  <2> DEFINE m == Len(Path[last]) - Len(ch.blocks)
  <2>1. m \in Int /\ Len(Path[a]) = m + i /\ Len(Path[b]) = m + j
    BY <1>1
  <2> HIDE DEF m
  <2> QED BY <2>1
<1>7. j = i + 1 => Len(Path[b]) = Len(Path[a]) + 1
  <2> DEFINE m == Len(Path[last]) - Len(ch.blocks)
  <2>1. m \in Int /\ Len(Path[a]) = m + i /\ Len(Path[b]) = m + j
    BY <1>1
  <2> HIDE DEF m
  <2> QED BY <2>1
<1>2. On(a, b)
  <2>1. /\ Len(Path[a]) <= Len(Path[b])
        /\ Len(Path[a]) \in Nat /\ Len(Path[b]) \in Nat
    <3> DEFINE m == Len(Path[last]) - Len(ch.blocks)
    <3>1. m \in Int /\ Len(Path[a]) = m + i /\ Len(Path[b]) = m + j
      BY <1>1
    <3> HIDE DEF m
    <3>2. Len(Path[a]) <= Len(Path[b])
      BY <3>1
    <3> QED BY <1>1, <3>2, HeightType
  <2>2. Height(a) <= Height(b)
    BY <2>1 DEF Height
  <2> QED BY <1>1, <2>2, AncestorLinear
<1>3. i < j => Number[a] < Number[b]
  <2>1. i < j => a # b
    <3>1. SUFFICES ASSUME i < j, a = b
                   PROVE  FALSE
      OBVIOUS
    <3>2. Len(Path[a]) < Len(Path[a]) /\ Len(Path[a]) \in Nat
      BY <1>1, <1>6, <3>1, HeightType
    <3> QED BY <3>2
  <2> QED BY <1>1, <1>2, <2>1, NumberOrder
<1>4. j = i + 1 => Parent(b) = a
  <2>1. SUFFICES ASSUME j = i + 1
                 PROVE  Parent(b) = a
    OBVIOUS
  <2>2. Len(Path[b]) > 1 /\ Len(Path[b]) - 1 = Len(Path[a])
    <3>1. Len(Path[a]) \in Nat \ {0}
      BY <1>1, TreeAssumption, HeightType
    <3> QED BY <1>7, <2>1, <3>1
  <2>3. Path[b][Len(Path[a])] = a
    BY <1>1, <1>2, TreeAssumption DEF On
  <2> QED BY <2>2, <2>3 DEF Parent
<1>5. Number[a] \in Int /\ Number[b] \in Int
  BY <1>1, <1>2, NumberOrder
<1> QED BY <1>2, <1>3, <1>4, <1>5 DEF a, b

\* Blocks that hang together make a window.
LEMMA MakeWindow ==
    ASSUME NEW blocks \in Seq(Block), NEW fin \in 1..Len(blocks), NEW t \in Ref,
           NEW k \in Nat, k + Len(blocks) <= Len(Path[t]),
           \A i \in 1..Len(blocks) : blocks[i] = Path[t][k + i]
    PROVE  IsWindow([blocks |-> blocks, fin |-> fin])
<1> DEFINE ch == [blocks |-> blocks, fin |-> fin]
           size == Len(blocks)
           last == LastBlock(ch)
<1>1. size \in Nat \ {0} /\ Len(Path[t]) \in Nat /\ k + size \in 1..Len(Path[t])
  BY HeightType
<1>2. last = Path[t][k + size]
  BY <1>1 DEF LastBlock
<1>3. last \in Block /\ last \in Ref /\ Len(Path[last]) = k + size /\ On(last, t)
  BY <1>1, <1>2, PathBlocks
<1>4. \A i \in 1..Len(Path[last]) : Path[last][i] = Path[t][i]
  BY <1>3, AncestorPath
<1>5. \A i \in 1..size : /\ k + i \in 1..Len(Path[last])
                         /\ Len(Path[last]) - size + i = k + i
  BY <1>1, <1>3
<1>6. \A i \in 1..size : blocks[i] = Path[last][Len(Path[last]) - size + i]
  BY <1>4, <1>5
<1>7. ch \in [blocks : Seq(Block), fin : Nat] /\ ch.blocks = blocks /\ ch.fin = fin
  BY <1>1
<1>8. size <= Len(Path[last])
  BY <1>1, <1>3
<1> HIDE DEF ch, last
<1>9. IsWindow(ch)
  BY <1>6, <1>7, <1>8 DEF IsWindow, last
<1> QED BY <1>9 DEF ch

LEMMA WindowRecord ==
    ASSUME NEW ch, IsWindow(ch)
    PROVE  ch = [blocks |-> ch.blocks, fin |-> ch.fin]
BY DEF IsWindow

\* bisect() splits a window at a number.
LEMMA BisectWorks ==
    ASSUME NEW ch, IsWindow(ch), NEW n \in Int
    PROVE  /\ Bisect(ch, n) \in 1..(Len(ch.blocks) + 1)
           /\ \A i \in 1..Len(ch.blocks) : i < Bisect(ch, n) <=> Number[ch.blocks[i]] < n
<1> DEFINE size == Len(ch.blocks)
           S == {i \in 1..size : Number[ch.blocks[i]] < n}
<1>1. size \in Nat
  BY WindowFacts
<1>2. ASSUME NEW j \in S, NEW i \in 1..size, i <= j
      PROVE  i \in S
  <2>1. /\ Number[ch.blocks[i]] \in Int /\ Number[ch.blocks[j]] \in Int
        /\ i < j => Number[ch.blocks[i]] < Number[ch.blocks[j]]
    BY <1>2, WindowOrder
  <2> QED BY <1>2, <2>1
<1>3. S \subseteq 1..size
  OBVIOUS
<1>4. Cardinality(S) \in 0..size /\ S = 1..Cardinality(S)
  <2> HIDE DEF S, size
  <2> QED BY <1>1, <1>2, <1>3, CountPrefix
<1>5. Bisect(ch, n) = 1 + Cardinality(S)
  <2>1. DOMAIN ch.blocks = 1..size
    BY WindowFacts
  <2> QED BY <2>1 DEF Bisect
<1>6. \A i \in 1..size : i \in S <=> Number[ch.blocks[i]] < n
  OBVIOUS
<1> HIDE DEF S
<1> DEFINE c == Cardinality(S)
<1>7. c \in 0..size /\ S = 1..c /\ Bisect(ch, n) = 1 + c
  BY <1>4, <1>5
<1> HIDE DEF c
<1> QED BY <1>1, <1>6, <1>7

LEMMA BisectHits ==
    ASSUME NEW ch, IsWindow(ch), NEW i \in 1..Len(ch.blocks)
    PROVE  Bisect(ch, Number[ch.blocks[i]]) = i
<1> DEFINE n == Number[ch.blocks[i]]
           b == Bisect(ch, n)
<1>1. n \in Int /\ Len(ch.blocks) \in Nat
  BY WindowFacts, WindowOrder
<1>2. /\ b \in 1..(Len(ch.blocks) + 1)
      /\ \A j \in 1..Len(ch.blocks) : j < b <=> Number[ch.blocks[j]] < n
  BY <1>1, BisectWorks
<1>3. ~(i < b)
  BY <1>1, <1>2
<1>4. \A j \in 1..Len(ch.blocks) : j < i => j < b
  BY <1>2, WindowOrder
<1> HIDE DEF b, n
<1>5. b = i
  <2>1. SUFFICES ASSUME b < i
                 PROVE  FALSE
    BY <1>1, <1>2, <1>3
  <2>2. b \in 1..Len(ch.blocks)
    BY <1>1, <1>2, <2>1
  <2> QED BY <1>2, <1>4, <2>1, <2>2
<1> QED BY <1>5 DEF b, n

------------------------------------------------------------------------------
(***************************************************************************)
(* push(), finalize(), compact().                                           *)
(***************************************************************************)

\* A block on top of a block of the window that is not below the finalized one.
LEMMA PushWorks ==
    ASSUME NEW ch, IsWindow(ch), NEW b \in Block, NEW p \in ch.fin..Len(ch.blocks),
           Parent(b) = ch.blocks[p]
    PROVE  /\ PushAsserts(ch, b)
           /\ Push(ch, b) = [blocks |-> Append(SubSeq(ch.blocks, 1, p), b), fin |-> ch.fin]
<1>1. /\ Len(ch.blocks) \in Nat \ {0} /\ ch.fin \in 1..Len(ch.blocks)
      /\ p \in 1..Len(ch.blocks) /\ Len(ch.blocks) \in 1..Len(ch.blocks)
  BY WindowSize
<1>2. PushPos(ch, b) = p
  <2>1. CASE Number[LastBlock(ch)] = Number[Parent(b)]
    <3>1. Number[ch.blocks[Len(ch.blocks)]] = Number[ch.blocks[p]]
      BY <2>1 DEF LastBlock
    <3>2. /\ Number[ch.blocks[p]] \in Int
          /\ p < Len(ch.blocks) => Number[ch.blocks[p]] < Number[ch.blocks[Len(ch.blocks)]]
      BY <1>1, WindowOrder
    <3>3. p = Len(ch.blocks)
      BY <1>1, <3>1, <3>2
    <3> QED BY <2>1, <3>3 DEF PushPos
  <2>2. CASE Number[LastBlock(ch)] # Number[Parent(b)]
    <3>1. Bisect(ch, Number[Parent(b)]) = p
      BY <1>1, BisectHits
    <3> QED BY <2>2, <3>1 DEF PushPos
  <2> QED BY <2>1, <2>2
<1>3. PushAsserts(ch, b)
  BY <1>1, <1>2 DEF PushAsserts
<1>4. [ch EXCEPT !.blocks = Append(SubSeq(ch.blocks, 1, p), b)]
          = [blocks |-> Append(SubSeq(ch.blocks, 1, p), b), fin |-> ch.fin]
  <2> DEFINE new == Append(SubSeq(ch.blocks, 1, p), b)
  <2> HIDE DEF new
  <2>1. [ch EXCEPT !.blocks = new] = [blocks |-> new, fin |-> ch.fin]
    BY DEF IsWindow
  <2> QED BY <2>1 DEF new
<1> QED BY <1>2, <1>3, <1>4 DEF Push

LEMMA ConcatOf ==
    ASSUME NEW S, NEW a, NEW b, NEW c, a \in Seq(S), b \in Seq(S), c = a \o b
    PROVE  /\ c \in Seq(S)
           /\ Len(c) = Len(a) + Len(b)
           /\ \A i \in 1..Len(a) : c[i] = a[i]
           /\ \A j \in 1..Len(b) : c[Len(a) + j] = b[j]
BY ConcatPieces

\* The window cut at position p, with the first n blocks of s on top.
Grown(ch, p, s, n) ==
    [blocks |-> SubSeq(ch.blocks, 1, p) \o SubSeq(s, 1, n), fin |-> ch.fin]

LEMMA GrownPieces ==
    ASSUME NEW ch, IsWindow(ch), NEW p \in ch.fin..Len(ch.blocks),
           NEW s \in Seq(Block), NEW n \in 0..Len(s)
    PROVE  LET g == Grown(ch, p, s, n).blocks
           IN  /\ g \in Seq(Block)
               /\ Len(g) = p + n
               /\ \A i \in 1..p : g[i] = ch.blocks[i]
               /\ \A j \in 1..n : g[p + j] = s[j]
<1> DEFINE below == SubSeq(ch.blocks, 1, p)
           above == SubSeq(s, 1, n)
<1>1. ch.blocks \in Seq(Block) /\ Len(ch.blocks) \in Nat /\ p \in 1..Len(ch.blocks)
  BY WindowSize
<1>2. /\ below \in Seq(Block) /\ Len(below) = p
      /\ \A i \in 1..p : below[i] = ch.blocks[i]
  BY <1>1
<1>3. /\ above \in Seq(Block) /\ Len(above) = n
      /\ \A i \in 1..n : above[i] = s[i]
  OBVIOUS
<1> HIDE DEF below, above
<1>7. below \in Seq(Block) /\ above \in Seq(Block)
  BY <1>2, <1>3
<1> DEFINE g == below \o above
<1>8. g = below \o above
  OBVIOUS
<1> HIDE DEF g
<1>4. /\ g \in Seq(Block)
      /\ Len(g) = Len(below) + Len(above)
      /\ \A i \in 1..Len(below) : g[i] = below[i]
      /\ \A j \in 1..Len(above) : g[Len(below) + j] = above[j]
  BY <1>7, <1>8, ConcatOf
<1>5. /\ g \in Seq(Block) /\ Len(g) = p + n
      /\ \A i \in 1..p : g[i] = ch.blocks[i]
      /\ \A j \in 1..n : g[p + j] = s[j]
  BY <1>2, <1>3, <1>4
<1>6. Grown(ch, p, s, n).blocks = g
  BY DEF Grown, below, above, g
<1> QED BY <1>5, <1>6

\* A batch of a source is the chain above its base.
LEMMA SegmentIsChain ==
    ASSUME NEW s \in Segment
    PROVE  /\ s.base \in Ref /\ s.blocks \in Seq(Block) /\ Len(s.blocks) \in Nat \ {0}
           /\ Tip(s) \in Block /\ Tip(s) \in Ref
           /\ Len(Path[s.base]) \in Nat
           /\ Len(Path[Tip(s)]) = Len(Path[s.base]) + Len(s.blocks)
           /\ On(s.base, Tip(s))
           /\ \A i \in 1..Len(s.blocks) : s.blocks[i] = Path[Tip(s)][Len(Path[s.base]) + i]
<1> DEFINE low == Len(Path[s.base])
           path == Path[Tip(s)]
<1>1. /\ s.base \in Ref /\ s.blocks \in Seq(Block) /\ Len(s.blocks) \in Nat \ {0}
      /\ On(s.base, Tip(s))
      /\ s.blocks = SubSeq(path, low + 1, Len(path))
  <2>1. s.base \in Ref /\ s.blocks \in Seq(Block) /\ Len(s.blocks) > 0 /\ On(s.base, Tip(s))
    BY SegmentAssumption, Zenon
  <2>2. s.blocks = SubSeq(path, low + 1, Len(path))
    BY UnfilteredAssumption, Zenon
  <2>3. Len(s.blocks) \in Nat \ {0}
    BY <2>1
  <2> QED BY <2>1, <2>2, <2>3, Zenon
<1>2. Tip(s) \in Block /\ Tip(s) \in Ref
  BY <1>1 DEF Tip, Ref
<1>3. low \in Nat /\ path \in Seq(Block) /\ Len(path) \in Nat
  BY <1>1, <1>2, HeightType
<1>4. low <= Len(path)
  BY <1>1, <1>3, HeightType DEF On
<1> HIDE DEF low, path
<1>5. /\ Len(SubSeq(path, low + 1, Len(path))) = Len(path) - low
      /\ \A i \in 1..(Len(path) - low) : SubSeq(path, low + 1, Len(path))[i] = path[low + i]
  BY <1>3, <1>4
<1>6. Len(s.blocks) = Len(path) - low /\ \A i \in 1..Len(s.blocks) : s.blocks[i] = path[low + i]
  BY <1>1, <1>5
<1>7. Len(path) = low + Len(s.blocks)
  BY <1>3, <1>6
<1> QED BY <1>1, <1>2, <1>3, <1>6, <1>7, Zenon DEF low, path

LEMMA GrownIsWindow ==
    ASSUME NEW ch, IsWindow(ch), NEW s \in Segment, NEW p \in ch.fin..Len(ch.blocks),
           ch.blocks[p] = s.base, NEW n \in 1..Len(s.blocks)
    PROVE  /\ IsWindow(Grown(ch, p, s.blocks, n))
           /\ LastBlock(Grown(ch, p, s.blocks, n)) = s.blocks[n]
           /\ FinalizedHead(Grown(ch, p, s.blocks, n)) = FinalizedHead(ch)
<1> DEFINE g == Grown(ch, p, s.blocks, n).blocks
           t == Tip(s)
           low == Len(Path[s.base])
<1>1. /\ ch.blocks \in Seq(Block) /\ Len(ch.blocks) \in Nat
      /\ ch.fin \in 1..p /\ p \in 1..Len(ch.blocks)
  BY WindowSize
<1>2. /\ s.base \in Ref /\ s.blocks \in Seq(Block) /\ n \in 0..Len(s.blocks)
      /\ t \in Ref /\ low \in Nat /\ Len(Path[t]) = low + Len(s.blocks) /\ On(s.base, t)
      /\ \A i \in 1..Len(s.blocks) : s.blocks[i] = Path[t][low + i]
      /\ Len(s.blocks) \in Nat
  <2>1. n \in 0..Len(s.blocks) /\ Len(s.blocks) \in Nat
    BY SegmentIsChain
  <2> QED BY <2>1, SegmentIsChain, Zenon
<1>3. /\ g \in Seq(Block) /\ Len(g) = p + n
      /\ \A i \in 1..p : g[i] = ch.blocks[i]
      /\ \A j \in 1..n : g[p + j] = s.blocks[j]
  BY <1>2, GrownPieces, SMTT(40)
<1>4. /\ low = Len(Path[LastBlock(ch)]) - Len(ch.blocks) + p
      /\ Len(Path[LastBlock(ch)]) \in Nat
      /\ Len(ch.blocks) <= Len(Path[LastBlock(ch)])
      /\ s.base \in Block
      /\ \A i \in 1..Len(ch.blocks) :
             /\ ch.blocks[i] \in Ref /\ ch.blocks[i] \in Block
             /\ Len(Path[ch.blocks[i]]) = Len(Path[LastBlock(ch)]) - Len(ch.blocks) + i
  BY <1>1, WindowFacts
<1> DEFINE k == low - p
<1>5. k \in Nat
  <2> DEFINE size == Len(ch.blocks)
             top == Len(Path[LastBlock(ch)])
  <2>1. size \in Nat /\ top \in Nat /\ size <= top /\ low = top - size + p /\ p \in Nat
    BY <1>1, <1>4
  <2> HIDE DEF size, top, low
  <2> QED BY <2>1
<1>6. ASSUME NEW i \in 1..p
      PROVE  g[i] = Path[t][k + i]
  <2> DEFINE b == ch.blocks[i]
  <2>1. i \in 1..Len(ch.blocks) /\ i <= p
    BY <1>1
  <2>2. b \in Ref /\ b \in Block /\ Len(Path[b]) = k + i
    <3> DEFINE size == Len(ch.blocks)
               top == Len(Path[LastBlock(ch)])
    <3>1. size \in Nat /\ top \in Nat /\ low = top - size + p /\ Len(Path[b]) = top - size + i
      BY <1>1, <1>4, <2>1
    <3>2. b \in Ref /\ b \in Block
      BY <1>4, <2>1
    <3> HIDE DEF size, top, low, b
    <3>3. Len(Path[b]) = low - p + i
      BY <1>1, <3>1
    <3> QED BY <3>2, <3>3
  <2>3. On(b, s.base)
    BY <1>1, <2>1, WindowOrder
  <2>4. On(b, t)
    BY <1>2, <2>2, <2>3, AncestorTransitive
  <2>5. Path[t][Len(Path[b])] = b
    BY <2>2, <2>4, TreeAssumption DEF On
  <2> QED BY <1>3, <2>2, <2>5
<1>7. ASSUME NEW j \in 1..n
      PROVE  g[p + j] = Path[t][k + (p + j)]
  <2>1. k + (p + j) = low + j
    <3>1. low \in Nat /\ p \in Nat /\ j \in Nat
      BY <1>1, <1>2
    <3> HIDE DEF low
    <3> QED BY <3>1
  <2>2. j \in 1..Len(s.blocks)
    BY <1>2
  <2> QED BY <1>2, <1>3, <2>1, <2>2
<1>8. \A i \in 1..Len(g) : g[i] = Path[t][k + i]
  <2>1. SUFFICES ASSUME NEW i \in 1..Len(g)
                 PROVE  g[i] = Path[t][k + i]
    OBVIOUS
  <2>2. CASE i <= p
    <3>1. i \in 1..p
      BY <1>1, <1>3, <2>2
    <3> HIDE DEF g, k, t
    <3> QED BY <1>6, <3>1
  <2>3. CASE ~(i <= p)
    <3>1. i - p \in 1..n /\ p + (i - p) = i
      BY <1>1, <1>3, <2>3
    <3> DEFINE j == i - p
    <3>2. j \in 1..n /\ p + j = i
      BY <3>1
    <3> HIDE DEF j
    <3> QED BY <1>7, <3>2
  <2> QED BY <2>2, <2>3
<1>9. k + Len(g) <= Len(Path[t])
  <2> DEFINE size == Len(s.blocks)
             top == Len(Path[t])
  <2>1. /\ low \in Nat /\ p \in Nat /\ n \in Nat /\ n <= size /\ size \in Nat
        /\ top = low + size /\ Len(g) = p + n
    BY <1>1, <1>2, <1>3
  <2> HIDE DEF low, size, top, g
  <2> QED BY <2>1 DEF top
<1>10. ch.fin \in 1..Len(g)
  BY <1>1, <1>3
<1>11. Grown(ch, p, s.blocks, n) = [blocks |-> g, fin |-> ch.fin]
  BY DEF Grown
<1> HIDE DEF g, k, t
<1>12. IsWindow([blocks |-> g, fin |-> ch.fin])
  BY <1>2, <1>3, <1>5, <1>8, <1>9, <1>10, MakeWindow
<1>13. [blocks |-> g, fin |-> ch.fin].blocks[Len(g)] = s.blocks[n]
  BY <1>1, <1>3
<1>14. [blocks |-> g, fin |-> ch.fin].blocks[ch.fin] = ch.blocks[ch.fin]
  BY <1>1, <1>3
<1> QED BY <1>11, <1>12, <1>13, <1>14 DEF LastBlock, FinalizedHead

\* One more block of the batch.
LEMMA GrownByOne ==
    ASSUME NEW ch, IsWindow(ch), NEW s \in Segment, NEW p \in ch.fin..Len(ch.blocks),
           ch.blocks[p] = s.base, NEW n \in 1..Len(s.blocks),
           NEW now, now = IF n = 1 THEN ch ELSE Grown(ch, p, s.blocks, n - 1)
    PROVE  /\ PushAsserts(now, s.blocks[n])
           /\ Push(now, s.blocks[n]) = Grown(ch, p, s.blocks, n)
<1> DEFINE b == s.blocks[n]
           at == p + (n - 1)
           t == Tip(s)
           low == Len(Path[s.base])
           next == Append(SubSeq(now.blocks, 1, at), b)
           goal == Grown(ch, p, s.blocks, n).blocks
<1>1. /\ s.blocks \in Seq(Block) /\ Len(s.blocks) \in Nat /\ s.base \in Ref
      /\ t \in Ref /\ low \in Nat /\ Len(Path[t]) = low + Len(s.blocks) /\ On(s.base, t)
      /\ \A i \in 1..Len(s.blocks) : s.blocks[i] = Path[t][low + i]
  BY SegmentIsChain
<1>2. b \in Block /\ n \in 0..Len(s.blocks) /\ n \in Nat /\ n - 1 \in 0..Len(s.blocks)
  BY <1>1
<1>3. /\ ch.blocks \in Seq(Block) /\ Len(ch.blocks) \in Nat \ {0}
      /\ p \in 1..Len(ch.blocks) /\ p \in Nat /\ ch.fin \in 1..p
  BY WindowSize
<1>4. /\ IsWindow(now) /\ now.fin = ch.fin
      /\ at \in now.fin..Len(now.blocks)
      /\ now.blocks \in Seq(Block)
      /\ \A i \in 1..p : now.blocks[i] = ch.blocks[i]
      /\ \A j \in 1..(n - 1) : now.blocks[p + j] = s.blocks[j]
  <2>1. CASE n = 1
    <3>1. now = ch /\ at = p /\ 1..(n - 1) = {}
      BY <1>3, <2>1
    <3> QED BY <1>3, <3>1
  <2>2. CASE n # 1
    <3>1. n - 1 \in 1..Len(s.blocks) /\ now = Grown(ch, p, s.blocks, n - 1)
      BY <1>1, <1>2, <2>2
    <3>2. IsWindow(now) /\ now.fin = ch.fin
      <4> DEFINE m == n - 1
      <4>1. m \in 1..Len(s.blocks) /\ now = Grown(ch, p, s.blocks, m)
        BY <3>1
      <4> HIDE DEF m
      <4>2. IsWindow(now)
        BY <4>1, GrownIsWindow, Zenon
      <4>3. now.fin = ch.fin
        BY <4>1 DEF Grown
      <4> QED BY <4>2, <4>3
    <3>3. /\ now.blocks \in Seq(Block) /\ Len(now.blocks) = p + (n - 1)
          /\ \A i \in 1..p : now.blocks[i] = ch.blocks[i]
          /\ \A j \in 1..(n - 1) : now.blocks[p + j] = s.blocks[j]
      <4> DEFINE m == n - 1
      <4>1. m \in 0..Len(s.blocks) /\ now = Grown(ch, p, s.blocks, m) /\ s.blocks \in Seq(Block)
        BY <1>1, <1>2, <3>1
      <4> HIDE DEF m
      <4>2. /\ now.blocks \in Seq(Block) /\ Len(now.blocks) = p + m
            /\ \A i \in 1..p : now.blocks[i] = ch.blocks[i]
            /\ \A j \in 1..m : now.blocks[p + j] = s.blocks[j]
        <5> DEFINE g == Grown(ch, p, s.blocks, m)
        <5> HIDE DEF g
        <5>1. now.blocks = g.blocks
          BY <4>1 DEF g
        <5>2. /\ g.blocks \in Seq(Block) /\ Len(g.blocks) = p + m
              /\ \A i \in 1..p : g.blocks[i] = ch.blocks[i]
              /\ \A j \in 1..m : g.blocks[p + j] = s.blocks[j]
          BY <4>1, GrownPieces, Zenon DEF g
        <5> QED BY <5>1, <5>2
      <4> QED BY <4>2 DEF m
    <3>4. at \in now.fin..Len(now.blocks)
      BY <1>2, <1>3, <3>2, <3>3
    <3> QED BY <3>2, <3>3, <3>4
  <2> QED BY <2>1, <2>2
<1>5. Parent(b) = now.blocks[at]
  <2>1. b = Path[t][low + n]
    BY <1>1
  <2>2. low + n \in 1..Len(Path[t])
    <3> DEFINE size == Len(s.blocks)
               top == Len(Path[t])
    <3>1. low \in Nat /\ size \in Nat /\ top = low + size /\ n \in 1..size
      BY <1>1
    <3> HIDE DEF low, size, top
    <3>2. low + n \in 1..top
      BY <3>1
    <3> QED BY <3>2 DEF top
  <2>3. Len(Path[b]) = low + n /\ b \in Ref /\ On(b, t)
    BY <1>1, <2>1, <2>2, PathBlocks
  <2>4. CASE n = 1
    <3>1. now.blocks[at] = s.base
      BY <1>3, <1>4, <2>4
    <3>2. s.base \in Block
      BY <1>3
    <3>3. low \in Nat \ {0}
      BY <1>1, <3>2, TreeAssumption, HeightType
    <3>4. Len(Path[b]) > 1 /\ Len(Path[b]) - 1 = low
      BY <2>3, <2>4, <3>3
    <3>5. On(s.base, b)
      <4>1. Height(s.base) <= Height(b)
        BY <2>3, <2>4, <3>3 DEF Height
      <4> QED BY <1>1, <2>3, <4>1, AncestorLinear
    <3>6. Path[b][low] = s.base
      BY <3>2, <3>5, TreeAssumption DEF On
    <3> QED BY <3>1, <3>4, <3>6 DEF Parent
  <2>5. CASE n # 1
    <3>1. n - 1 \in 1..(n - 1) /\ n - 1 \in 1..Len(s.blocks)
      BY <1>1, <1>2, <2>5
    <3>2. now.blocks[at] = s.blocks[n - 1]
      BY <1>4, <3>1
    <3>3. s.blocks[n - 1] = Path[t][low + (n - 1)]
      BY <1>1, <3>1
    <3>4. Len(Path[b]) > 1 /\ Len(Path[b]) - 1 = low + (n - 1)
      BY <1>1, <2>3, <3>1
    <3>5. low + (n - 1) \in 1..Len(Path[b])
      BY <1>1, <2>3, <3>1
    <3>6. b \in Block
      BY <1>2
    <3>7. Path[b][low + (n - 1)] = Path[t][low + (n - 1)]
      BY <1>1, <2>3, <3>5, <3>6, AncestorPath
    <3> QED BY <3>2, <3>3, <3>4, <3>7 DEF Parent
  <2> QED BY <2>4, <2>5
<1>6. /\ PushAsserts(now, b)
      /\ Push(now, b) = [blocks |-> next, fin |-> now.fin]
  BY <1>2, <1>4, <1>5, PushWorks
<1>7. next = goal
  <2>1. /\ goal \in Seq(Block) /\ Len(goal) = p + n
        /\ \A i \in 1..p : goal[i] = ch.blocks[i]
        /\ \A j \in 1..n : goal[p + j] = s.blocks[j]
    BY <1>1, <1>2, GrownPieces, SMTT(40)
  <2> DEFINE cut == SubSeq(now.blocks, 1, at)
  <2>2. at \in 0..Len(now.blocks) /\ at \in Nat
    BY <1>3, <1>4
  <2> HIDE DEF at
  <2>3. /\ cut \in Seq(Block) /\ Len(cut) = at
        /\ \A i \in 1..at : cut[i] = now.blocks[i]
    BY <1>4, <2>2
  <2>4. next = Append(cut, b)
    OBVIOUS
  <2> HIDE DEF cut, next, b, goal
  <2>5. /\ next \in Seq(Block) /\ Len(next) = at + 1
        /\ \A i \in 1..at : next[i] = cut[i]
        /\ next[at + 1] = b
    BY <1>2, <2>2, <2>3, <2>4
  <2>6. at + 1 = p + n
    BY <1>2, <1>3 DEF at
  <2>7. ASSUME NEW i \in 1..(p + n)
        PROVE  next[i] = goal[i]
    <3>1. CASE i = p + n
      <4>1. n \in 1..n
        BY <1>2
      <4> QED BY <2>1, <2>5, <2>6, <3>1, <4>1 DEF b
    <3>2. CASE i <= p
      <4>1. i \in 1..p /\ i \in 1..at
        BY <1>2, <1>3, <2>2, <2>6, <3>2
      <4> QED BY <1>4, <2>1, <2>3, <2>5, <4>1
    <3>3. CASE ~(i <= p) /\ i # p + n
      <4> DEFINE j == i - p
      <4>1. j \in 1..(n - 1) /\ j \in 1..n /\ i = p + j /\ i \in 1..at
        BY <1>2, <1>3, <2>2, <2>6, <3>3
      <4> HIDE DEF j
      <4>2. next[i] = now.blocks[i]
        BY <2>3, <2>5, <4>1
      <4>3. now.blocks[p + j] = s.blocks[j]
        BY <1>4, <4>1
      <4>4. goal[p + j] = s.blocks[j]
        BY <2>1, <4>1
      <4> QED BY <4>1, <4>2, <4>3, <4>4
    <3> QED BY <3>1, <3>2, <3>3
  <2> QED BY <1>2, <1>3, <2>1, <2>5, <2>6, <2>7
<1>8. Grown(ch, p, s.blocks, n) = [blocks |-> goal, fin |-> ch.fin]
  BY DEF Grown
<1> HIDE DEF next, goal
<1> QED BY <1>4, <1>6, <1>7, <1>8

\* g follows the recursion of PushAll.
Follows(g, ch, blocks, N) ==
    /\ N \in Nat /\ N = Len(blocks)
    /\ g = [n \in 0..N |-> g[n]]
    /\ g[0] = [chain |-> ch, ok |-> TRUE]
    /\ \A n \in 1..N : g[n] = PushNext(g[n - 1], blocks[n])

LEMMA PushAllIs ==
    ASSUME NEW g, NEW ch, NEW blocks, NEW N, Follows(g, ch, blocks, N)
    PROVE  PushAll(ch, blocks) = g[N]
<1> USE DEF Follows
<1> DEFINE start == [chain |-> ch, ok |-> TRUE]
           Rounds(f) == [n \in 0..N |-> IF n = 0 THEN start
                                        ELSE PushNext(f[n - 1], blocks[n])]
           pushed == CHOOSE f : f = Rounds(f)
<1>1. g = Rounds(g)
  <2> DEFINE body(n) == IF n = 0 THEN start ELSE PushNext(g[n - 1], blocks[n])
  <2>1. ASSUME NEW n \in 0..N
        PROVE  g[n] = body(n)
    <3>1. n = 0 \/ n \in 1..N
      OBVIOUS
    <3> QED BY <3>1
  <2> HIDE DEF body
  <2>2. g = [n \in 0..N |-> body(n)]
    BY <2>1
  <2> QED BY <2>2 DEF body
<1>2. pushed = Rounds(pushed)
  <2> HIDE DEF Rounds
  <2> QED BY <1>1
<1>3. PushAll(ch, blocks) = pushed[N]
  BY Zenon DEF PushAll
<1> HIDE DEF pushed
<1>4. \A n \in 0..N : pushed[n] = IF n = 0 THEN start ELSE PushNext(pushed[n - 1], blocks[n])
  <2> DEFINE body(n) == IF n = 0 THEN start ELSE PushNext(pushed[n - 1], blocks[n])
  <2>1. pushed = [n \in 0..N |-> body(n)]
    BY <1>2
  <2>2. \A n \in 0..N : pushed[n] = body(n)
    <3> HIDE DEF body
    <3> QED BY <2>1
  <2> QED BY <2>2
<1> DEFINE T == {n \in Nat : n \in 0..N => pushed[n] = g[n]}
<1>5. 0 \in T
  BY <1>4
<1>6. ASSUME NEW n \in Nat, n \in T
      PROVE  n + 1 \in T
  <2>1. SUFFICES ASSUME n + 1 \in 0..N
                 PROVE  pushed[n + 1] = g[n + 1]
    OBVIOUS
  <2>2. n \in 0..N /\ n + 1 \in 1..N /\ (n + 1) - 1 = n /\ n + 1 # 0
    BY <2>1
  <2>3. pushed[n + 1] = PushNext(pushed[n], blocks[n + 1])
    BY <1>4, <2>1, <2>2
  <2>4. g[n + 1] = PushNext(g[n], blocks[n + 1])
    BY <2>2
  <2>5. pushed[n] = g[n]
    BY <1>6, <2>2
  <2> QED BY <2>3, <2>4, <2>5
<1>7. N \in T
  <2> HIDE DEF T
  <2> QED BY <1>5, <1>6, SetInduction
<1> QED BY <1>3, <1>7

LEMMA PushNoneWorks ==
    ASSUME NEW ch
    PROVE  PushAll(ch, << >>) = [chain |-> ch, ok |-> TRUE]
<1> DEFINE start == [chain |-> ch, ok |-> TRUE]
           g == [n \in 0..0 |-> start]
<1>1. g = [n \in 0..0 |-> g[n]] /\ g[0] = start
  OBVIOUS
<1> DEFINE none == << >>
           N == 0
<1>2. N = Len(none) /\ N \in Nat /\ \A n \in 1..N : g[n] = PushNext(g[n - 1], none[n])
  OBVIOUS
<1>3. g = [n \in 0..N |-> g[n]]
  BY <1>1
<1> HIDE DEF g, N, none
<1>4. Follows(g, ch, none, N)
  BY <1>1, <1>2, <1>3 DEF Follows, N
<1>5. PushAll(ch, none) = g[N]
  BY <1>4, PushAllIs
<1> QED BY <1>1, <1>5 DEF N, none

\* A batch on top of a block that is not below the finalized one is taken in whole.
LEMMA PushAllWorks ==
    ASSUME NEW ch, IsWindow(ch), NEW s \in Segment, NEW p \in ch.fin..Len(ch.blocks),
           ch.blocks[p] = s.base
    PROVE  PushAll(ch, s.blocks)
               = [chain |-> Grown(ch, p, s.blocks, Len(s.blocks)), ok |-> TRUE]
<1> DEFINE N == Len(s.blocks)
           Now(n) == IF n = 0 THEN ch ELSE Grown(ch, p, s.blocks, n)
           g == [n \in 0..N |-> [chain |-> Now(n), ok |-> TRUE]]
<1>1. N \in Nat \ {0}
  BY SegmentIsChain
<1>2. g = [n \in 0..N |-> g[n]] /\ g[0] = [chain |-> ch, ok |-> TRUE]
  BY <1>1
<1>3. ASSUME NEW n \in 1..N
      PROVE  g[n] = PushNext(g[n - 1], s.blocks[n])
  <2> DEFINE now == IF n = 1 THEN ch ELSE Grown(ch, p, s.blocks, n - 1)
             b   == s.blocks[n]
             new == Grown(ch, p, s.blocks, n)
  <2>1. PushAsserts(now, b) /\ Push(now, b) = new
    BY GrownByOne
  <2>2. g[n - 1] = [chain |-> now, ok |-> TRUE]
    <3>1. n - 1 \in 0..N /\ (n - 1 = 0 <=> n = 1)
      BY <1>1
    <3>2. Now(n - 1) = now
      BY <3>1
    <3> HIDE DEF Now, now
    <3> QED BY <3>1, <3>2
  <2>3. g[n] = [chain |-> new, ok |-> TRUE]
    <3>1. n \in 0..N /\ n # 0
      BY <1>1
    <3>2. Now(n) = new
      BY <3>1
    <3> HIDE DEF Now, new
    <3> QED BY <3>1, <3>2
  <2> HIDE DEF g, now, b, new
  <2>4. PushNext([chain |-> now, ok |-> TRUE], b) = [chain |-> Push(now, b), ok |-> TRUE]
    BY <2>1 DEF PushNext
  <2> QED BY <2>1, <2>2, <2>3, <2>4 DEF b
<1>4. g[N] = [chain |-> Grown(ch, p, s.blocks, N), ok |-> TRUE]
  <2>1. N \in 0..N /\ Now(N) = Grown(ch, p, s.blocks, N)
    BY <1>1
  <2> HIDE DEF Now
  <2> QED BY <2>1
<1> HIDE DEF g
<1>5. PushAll(ch, s.blocks) = g[N]
  <2>1. Follows(g, ch, s.blocks, N)
    BY <1>1, <1>2, <1>3 DEF Follows
  <2> QED BY <2>1, PushAllIs
<1> QED BY <1>4, <1>5

\* A block of the chain that is not below the window is in it.
LEMMA InWindow ==
    ASSUME NEW ch, IsWindow(ch), NEW r \in Ref, On(r, LastBlock(ch)),
           Number[r] >= Number[FirstBlock(ch)]
    PROVE  \E i \in 1..Len(ch.blocks) : ch.blocks[i] = r
<1> DEFINE last == LastBlock(ch)
           first == FirstBlock(ch)
           size == Len(ch.blocks)
           top == Len(Path[last])
           h == Len(Path[r])
<1>1. /\ size \in Nat \ {0} /\ last \in Block /\ last \in Ref
      /\ first \in Block /\ first \in Ref /\ top \in Nat /\ size <= top
      /\ On(first, last) /\ Len(Path[first]) = top - size + 1
  <2>1. /\ size \in Nat \ {0} /\ last \in Block /\ last \in Ref
        /\ first \in Block /\ first \in Ref /\ top \in Nat /\ size <= top
    BY WindowFacts
  <2>2. 1 \in 1..size
    BY <2>1
  <2>3. On(ch.blocks[1], last) /\ Len(Path[ch.blocks[1]]) = top - size + 1
    BY <2>2, WindowFacts
  <2> QED BY <2>1, <2>3 DEF FirstBlock
<1>2. r # Origin
  <2>1. SUFFICES ASSUME r = Origin
                 PROVE  FALSE
    OBVIOUS
  <2>2. On(r, first) /\ r # first
    BY <1>1, <2>1, TreeAssumption DEF On
  <2> HIDE DEF first
  <2>3. Number[r] < Number[first] /\ Number[r] \in Int /\ Number[first] \in Int
    BY <1>1, <2>2, NumberOrder
  <2> QED BY <2>3 DEF first
<1>3. h \in Nat /\ h <= top /\ Path[last][h] = r
  BY <1>2, HeightType DEF On
<1>4. h >= top - size + 1
  <2>1. SUFFICES ASSUME h < Len(Path[first])
                 PROVE  FALSE
    <3> HIDE DEF h, top, size, first
    <3> QED BY <1>1, <1>3
  <2> HIDE DEF first, last
  <2>2. Height(r) <= Height(first) /\ r # first
    <3>1. Len(Path[first]) \in Nat /\ Height(r) = h - 1 /\ Height(first) = Len(Path[first]) - 1
      BY <1>1, HeightType DEF Height
    <3>2. r = first => h = Len(Path[first])
      OBVIOUS
    <3> HIDE DEF h
    <3> QED BY <1>3, <2>1, <3>1, <3>2
  <2>3. On(r, first)
    BY <1>1, <2>2, AncestorLinear DEF last
  <2>4. Number[r] < Number[first] /\ Number[r] \in Int /\ Number[first] \in Int
    BY <1>1, <2>2, <2>3, NumberOrder
  <2> QED BY <2>4 DEF first
<1> DEFINE i == h - (top - size)
<1>5. i \in 1..size /\ top - size + i = h
  <2> HIDE DEF h, top, size
  <2> QED BY <1>1, <1>3, <1>4
<1>6. ch.blocks[i] = Path[last][top - size + i]
  BY <1>5 DEF IsWindow
<1> HIDE DEF i
<1> QED BY <1>3, <1>5, <1>6

\* A finalized head of the same chain passes the assertion; it moves the finalized block up
\* to itself, or to the last block below it.
LEMMA FinalizeWorks ==
    ASSUME NEW ch, IsWindow(ch), NEW head \in Ref, Comparable(head, LastBlock(ch))
    PROVE  /\ FinalizeAsserts(ch, head)
           /\ IsWindow(Finalize(ch, head))
           /\ Finalize(ch, head).blocks = ch.blocks
           /\ Finalize(ch, head).fin >= ch.fin
           /\ \/ Finalize(ch, head).fin = ch.fin
              \/ On(FinalizedHead(Finalize(ch, head)), head)
<1> DEFINE last == LastBlock(ch)
           first == FirstBlock(ch)
           size == Len(ch.blocks)
           At(f) == [ch EXCEPT !.fin = f]
<1>1. /\ size \in Nat \ {0} /\ ch.fin \in 1..size
      /\ last \in Ref /\ first \in Ref /\ last = ch.blocks[size]
  BY WindowFacts DEF LastBlock
<1>2. ASSUME NEW f \in 1..size, f >= ch.fin, f = ch.fin \/ On(ch.blocks[f], head),
             Finalize(ch, head) = At(f)
      PROVE  /\ IsWindow(Finalize(ch, head))
             /\ Finalize(ch, head).blocks = ch.blocks
             /\ Finalize(ch, head).fin >= ch.fin
             /\ \/ Finalize(ch, head).fin = ch.fin
                \/ On(FinalizedHead(Finalize(ch, head)), head)
  <2> DEFINE now == At(f)
  <2>1. now.blocks = ch.blocks /\ now.fin = f /\ now \in [blocks : Seq(Block), fin : Nat]
    BY <1>1 DEF IsWindow
  <2> HIDE DEF now
  <2>2. IsWindow(now)
    BY <1>1, <2>1 DEF IsWindow, LastBlock
  <2>3. FinalizedHead(now) = ch.blocks[f]
    BY <2>1 DEF FinalizedHead
  <2>4. Finalize(ch, head) = now
    BY <1>2 DEF now
  <2> QED BY <1>2, <2>1, <2>2, <2>3, <2>4
<1>3. /\ Number[head] \in Int /\ Number[last] \in Int /\ Number[first] \in Int
      /\ Number[first] <= Number[last]
  <2>1. On(first, last)
    <3>1. 1 \in 1..size
      BY <1>1
    <3> QED BY <3>1, WindowFacts DEF FirstBlock
  <2> HIDE DEF first, last
  <2>2. /\ Number[last] \in Int /\ Number[first] \in Int
        /\ Number[first] <= Number[last]
    BY <1>1, <2>1, NumberOrder
  <2>3. Number[head] \in Int
    BY ChainAssumption
  <2> QED BY <2>2, <2>3
<1>4. CASE Number[head] < Number[first]
  <2>1. Finalize(ch, head) = ch
    <3>1. ~(Number[head] > Number[last])
      <4> HIDE DEF first, last
      <4> QED BY <1>3, <1>4
    <3> QED BY <1>4, <3>1, Zenon DEF Finalize
  <2>2. ch = At(ch.fin)
    BY DEF IsWindow
  <2>3. FinalizeAsserts(ch, head)
    BY <1>4 DEF FinalizeAsserts
  <2> HIDE DEF At
  <2> QED BY <1>1, <1>2, <2>1, <2>2, <2>3
<1>5. CASE Number[head] > Number[last]
  <2>1. Finalize(ch, head) = At(size)
    BY <1>3, <1>5 DEF Finalize
  <2>2. On(last, head)
    <3>1. SUFFICES ASSUME On(head, last)
                   PROVE  FALSE
      BY DEF Comparable
    <3> HIDE DEF last
    <3>2. Number[head] <= Number[last]
      BY <1>1, <3>1, NumberOrder
    <3> QED BY <1>3, <1>5, <3>2
  <2>3. FinalizeAsserts(ch, head)
    BY <1>5 DEF FinalizeAsserts
  <2>4. size \in 1..size /\ size >= ch.fin
    BY <1>1
  <2> HIDE DEF At
  <2> QED BY <1>1, <1>2, <2>1, <2>2, <2>3, <2>4
<1>6. CASE ~(Number[head] < Number[first]) /\ ~(Number[head] > Number[last])
  <2>1. On(head, last)
    <3>1. SUFFICES ASSUME On(last, head)
                   PROVE  On(head, last)
      BY DEF Comparable
    <3>2. last = head
      <4> HIDE DEF last
      <4>1. last # head => Number[last] < Number[head]
        BY <1>1, <3>1, NumberOrder
      <4> QED BY <1>3, <1>6, <4>1
    <3> QED BY <3>1, <3>2
  <2>2. PICK i \in 1..size : ch.blocks[i] = head
    BY <1>3, <1>6, <2>1, InWindow
  <2>3. Bisect(ch, Number[head]) = i
    BY <2>2, BisectHits
  <2>4. FinalizeAsserts(ch, head)
    BY <2>2, <2>3 DEF FinalizeAsserts
  <2> DEFINE f == IF i > ch.fin THEN i ELSE ch.fin
  <2>5. Finalize(ch, head) = At(f)
    BY <1>6, <2>3 DEF Finalize
  <2>6. f \in 1..size /\ f >= ch.fin /\ (f = ch.fin \/ f = i)
    BY <1>1
  <2>7. f = ch.fin \/ On(ch.blocks[f], head)
    <3>1. On(head, head)
      BY AncestorReflexive
    <3> HIDE DEF f
    <3> QED BY <2>2, <2>6, <3>1
  <2> HIDE DEF At, f
  <2> QED BY <1>2, <2>4, <2>5, <2>6, <2>7
<1> QED BY <1>4, <1>5, <1>6

\* Trimming finalized blocks leaves a window with the same ends.
LEMMA CompactWorks ==
    ASSUME NEW ch, IsWindow(ch), AutoAdjust = FALSE
    PROVE  /\ IsWindow(Compact(ch))
           /\ LastBlock(Compact(ch)) = LastBlock(ch)
           /\ FinalizedHead(Compact(ch)) = FinalizedHead(ch)
           /\ Len(Compact(ch).blocks) > MaxSize => Compact(ch).fin = 1
<1> DEFINE size  == Len(ch.blocks)
           extra == size - MaxSize
           trim  == IF extra < ch.fin - 1 THEN extra ELSE ch.fin - 1
           kept  == SubSeq(ch.blocks, trim + 1, size)
           new   == [blocks |-> kept, fin |-> ch.fin - trim]
           last  == LastBlock(ch)
           top   == Len(Path[last])
<1>1. /\ size \in Nat \ {0} /\ ch.fin \in 1..size /\ ch.blocks \in Seq(Block)
      /\ top \in Nat /\ size <= top /\ last \in Ref
      /\ \A i \in 1..size : ch.blocks[i] = Path[last][top - size + i]
  <2>1. /\ size \in Nat \ {0} /\ ch.fin \in 1..size /\ ch.blocks \in Seq(Block)
        /\ top \in Nat /\ size <= top /\ last \in Ref
    BY WindowFacts
  <2>2. \A i \in 1..size : ch.blocks[i] = Path[last][top - size + i]
    BY DEF IsWindow
  <2> QED BY <2>1, <2>2
<1>2. extra \in Int
  BY <1>1, ChainAssumption
<1>3. CASE extra <= 0
  <2>1. Compact(ch) = ch
    BY <1>3, Zenon DEF Compact
  <2>2. ~(size > MaxSize)
    <3> HIDE DEF size
    <3> QED BY <1>1, <1>3, ChainAssumption
  <2> QED BY <2>1, <2>2
<1>4. CASE ~(extra <= 0)
  <2>1. trim \in 0..(ch.fin - 1) /\ (trim = ch.fin - 1 \/ trim = extra)
    <3> HIDE DEF extra, size
    <3> QED BY <1>1, <1>2, <1>4
  <2>2. Compact(ch) = new
    <3>1. (IF AutoAdjust /\ ch.fin - 1 < extra THEN extra + 1 ELSE ch.fin) = ch.fin
      OBVIOUS
    <3> QED BY <1>4, <3>1, Zenon DEF Compact
  <2> DEFINE left == size - trim
             f == ch.fin - trim
  <2>3. /\ left \in Nat \ {0} /\ f \in 1..left /\ trim \in 0..size /\ trim < size
        /\ trim = size - left
    <3> HIDE DEF trim, size
    <3> QED BY <1>1, <2>1
  <2> HIDE DEF trim
  <2>4. /\ kept \in Seq(Block) /\ Len(kept) = left
        /\ \A i \in 1..left : kept[i] = ch.blocks[trim + i]
    <3> HIDE DEF left, size
    <3>1. trim + 1 \in 1..(Len(ch.blocks) + 1) /\ size - (trim + 1) + 1 = left
      BY <1>1, <2>3 DEF size
    <3> QED BY <1>1, <2>3, <3>1 DEF size
  <2> DEFINE k == top - left
  <2>5. k \in Nat /\ k + left <= top
    <3> HIDE DEF top, left, size
    <3> QED BY <1>1, <2>3
  <2>6. \A i \in 1..left : kept[i] = Path[last][k + i]
    <3>1. SUFFICES ASSUME NEW i \in 1..left
                   PROVE  kept[i] = Path[last][k + i]
      OBVIOUS
    <3>2. trim + i \in 1..size /\ top - size + (trim + i) = k + i
      <4> HIDE DEF size, top, left
      <4> QED BY <1>1, <2>3
    <3>3. ch.blocks[trim + i] = Path[last][top - size + (trim + i)]
      BY <1>1, <3>2
    <3> HIDE DEF k, kept
    <3> QED BY <2>4, <3>2, <3>3
  <2>7. new = [blocks |-> kept, fin |-> f]
    OBVIOUS
  <2> HIDE DEF new, kept, k, left, f
  <2>8. IsWindow(new)
    BY <1>1, <2>3, <2>4, <2>5, <2>6, <2>7, MakeWindow
  <2>9. LastBlock(new) = last
    <3>1. kept[left] = ch.blocks[size]
      BY <1>1, <2>3, <2>4 DEF left
    <3> QED BY <2>4, <2>7, <3>1 DEF LastBlock
  <2>10. FinalizedHead(new) = FinalizedHead(ch)
    <3>1. kept[f] = ch.blocks[ch.fin]
      BY <1>1, <2>3, <2>4, SMTT(40) DEF f
    <3> QED BY <2>7, <3>1 DEF FinalizedHead
  <2>11. Len(new.blocks) > MaxSize => new.fin = 1
    <3>1. trim = extra => left = MaxSize
      BY <1>1, ChainAssumption DEF left
    <3>2. trim = ch.fin - 1 => f = 1
      BY <1>1 DEF f
    <3> QED BY <2>1, <2>4, <2>7, <3>1, <3>2, ChainAssumption
  <2> QED BY <2>2, <2>8, <2>9, <2>10, <2>11
<1> QED BY <1>3, <1>4

\* The window init() starts with.
LEMMA NewChainWorks ==
    ASSUME NEW b \in Block
    PROVE  /\ IsWindow(NewChain(b))
           /\ LastBlock(NewChain(b)) = b
           /\ FinalizedHead(NewChain(b)) = b
           /\ Len(NewChain(b).blocks) = 1
           /\ NewChain(b).fin = 1
           /\ NewChain(b).blocks[1] = b
<1> DEFINE k == Len(Path[b]) - 1
<1>1. b \in Ref /\ Len(Path[b]) \in Nat \ {0} /\ Path[b][Len(Path[b])] = b
  BY HeightType, TreeAssumption DEF Ref
<1>2. k \in Nat /\ k + 1 = Len(Path[b])
  BY <1>1
<1>3. <<b>> \in Seq(Block) /\ Len(<<b>>) = 1 /\ <<b>>[1] = b
  OBVIOUS
<1>4. IsWindow([blocks |-> <<b>>, fin |-> 1])
  <2> DEFINE bs == <<b>>
  <2>1. bs \in Seq(Block) /\ Len(bs) = 1 /\ bs[1] = b
    BY <1>3
  <2> HIDE DEF bs, k
  <2>2. 1 \in 1..Len(bs) /\ k + Len(bs) <= Len(Path[b])
    BY <1>1, <1>2, <2>1
  <2>3. \A i \in 1..Len(bs) : bs[i] = Path[b][k + i]
    BY <1>1, <1>2, <2>1
  <2>4. IsWindow([blocks |-> bs, fin |-> 1])
    BY <1>1, <1>2, <2>1, <2>2, <2>3, MakeWindow
  <2> QED BY <2>4 DEF bs
<1> QED BY <1>3, <1>4 DEF NewChain, LastBlock, FinalizedHead

------------------------------------------------------------------------------
(***************************************************************************)
(* Fork reports of the source.                                              *)
(***************************************************************************)

\* A chain is split at a number.
LEMMA UpToWorks ==
    ASSUME NEW t \in Ref, NEW r \in Ref
    PROVE  /\ UpTo(t, r) \in 0..Len(Path[t])
           /\ \A i \in 1..Len(Path[t]) : i <= UpTo(t, r) <=> Number[Path[t][i]] <= Number[r]
<1> DEFINE top == Len(Path[t])
           S == {i \in 1..top : Number[Path[t][i]] <= Number[r]}
           c == Cardinality(S)
<1>1. top \in Nat /\ DOMAIN Path[t] = 1..top /\ Number[r] \in Int
  BY HeightType, ChainAssumption
<1>2. ASSUME NEW j \in S, NEW i \in 1..top, i <= j
      PROVE  i \in S
  <2>1. /\ Path[t][i] \in Ref /\ Path[t][j] \in Ref
        /\ i < j => Number[Path[t][i]] < Number[Path[t][j]]
    BY <1>2, PathBlocks, PathOrder
  <2>2. Number[Path[t][i]] \in Int /\ Number[Path[t][j]] \in Int
    BY <2>1, ChainAssumption
  <2> QED BY <1>1, <1>2, <2>1, <2>2
<1>3. S \subseteq 1..top
  OBVIOUS
<1>4. c \in 0..top /\ S = 1..c
  <2> HIDE DEF S, top
  <2> QED BY <1>1, <1>2, <1>3, CountPrefix
<1>5. UpTo(t, r) = c
  BY <1>1 DEF UpTo
<1>6. \A i \in 1..top : i \in S <=> Number[Path[t][i]] <= Number[r]
  OBVIOUS
<1> HIDE DEF c, S, top
<1>7. \A i \in 1..top : i <= c <=> Number[Path[t][i]] <= Number[r]
  BY <1>1, <1>4, <1>6
<1> QED BY <1>4, <1>5, <1>7 DEF top

\* A fork report is a stretch of the chain of t.
LEMMA PreviousWorks ==
    ASSUME NEW t \in Ref, NEW r \in Ref, NEW n \in Nat \ {0}
    PROVE  \E a \in 1..(UpTo(t, r) + 1) :
               /\ Previous(t, r, n) \in Seq(Block)
               /\ Len(Previous(t, r, n)) = UpTo(t, r) + 1 - a
               /\ \A j \in 1..(UpTo(t, r) + 1 - a) : Previous(t, r, n)[j] = Path[t][(a - 1) + j]
<1> DEFINE k == UpTo(t, r)
           a == IF k > n THEN k - n + 1 ELSE 1
           path == Path[t]
<1>1. path \in Seq(Block) /\ Len(path) \in Nat /\ k \in 0..Len(path)
  BY UpToWorks, HeightType
<1>2. Previous(t, r, n) = SubSeq(path, a, k)
  BY DEF Previous
<1> HIDE DEF k, path
<1>3. a \in 1..(k + 1)
  BY <1>1
<1> HIDE DEF a
<1>4. /\ SubSeq(path, a, k) \in Seq(Block) /\ Len(SubSeq(path, a, k)) = k + 1 - a
      /\ \A j \in 1..(k + 1 - a) : SubSeq(path, a, k)[j] = path[(a - 1) + j]
  BY <1>1, <1>3
<1> QED BY <1>2, <1>3, <1>4 DEF k, path

\* The finalized block of the window can always be gone back to.
LEMMA ForkBaseWorks ==
    ASSUME NEW ch, IsWindow(ch), NEW t \in Ref, NEW n \in Nat \ {0},
           On(FinalizedHead(ch), t), NEW at \in ch.fin..Len(ch.blocks)
    PROVE  LET prev == Previous(t, ch.blocks[at], n)
           IN  /\ ForkBases(ch, prev) # {}
               /\ \E i \in ch.fin..Len(ch.blocks) : GetForkBase(ch, prev) = ch.blocks[i]
<1> DEFINE pos == ch.blocks[at]
           prev == Previous(t, pos, n)
           k == UpTo(t, pos)
           head == FinalizedHead(ch)
           h == Len(Path[head])
           size == Len(ch.blocks)
<1>1. /\ size \in Nat /\ ch.fin \in 1..at /\ ch.fin \in 1..size /\ at \in 1..size
  BY WindowSize
<1>2. head \in Block /\ head \in Ref /\ pos \in Ref
  BY <1>1, WindowFacts
<1>3. On(head, pos)
  BY <1>1, WindowOrder DEF FinalizedHead
<1>4. head # Origin
  BY <1>2, TreeAssumption
<1>5. h \in 1..Len(Path[t]) /\ Path[t][h] = head /\ Len(Path[t]) \in Nat
  <2>1. h <= Len(Path[t]) /\ Path[t][h] = head
    BY <1>4 DEF On
  <2>2. h \in Nat \ {0} /\ Len(Path[t]) \in Nat
    BY <1>2, HeightType, TreeAssumption
  <2> HIDE DEF h
  <2> QED BY <2>1, <2>2
<1>6. h <= k /\ k \in 0..Len(Path[t])
  <2> HIDE DEF head, pos
  <2>1. Number[head] <= Number[pos]
    BY <1>2, <1>3, NumberOrder
  <2>2. /\ k \in 0..Len(Path[t])
        /\ \A i \in 1..Len(Path[t]) : i <= k <=> Number[Path[t][i]] <= Number[pos]
    BY <1>2, UpToWorks
  <2> HIDE DEF h, k
  <2> QED BY <1>5, <2>1, <2>2
<1>7. PICK a \in 1..(k + 1) :
          /\ prev \in Seq(Block)
          /\ Len(prev) = k + 1 - a
          /\ \A j \in 1..(k + 1 - a) : prev[j] = Path[t][(a - 1) + j]
  <2> HIDE DEF pos
  <2> QED BY <1>2, PreviousWorks
<1> DEFINE below == {j \in DOMAIN prev : Number[prev[j]] <= Number[head]}
           m == k + 1 - a
           c == h - (a - 1)
<1>8. ASSUME below # {}
      PROVE  prev[Cardinality(below)] = head
  <2>1. k \in Nat /\ m \in Nat /\ DOMAIN prev = 1..m /\ Len(prev) = m
    <3> HIDE DEF k, prev
    <3> QED BY <1>6, <1>7
  <2>2. \A j \in 1..m : prev[j] = Path[t][(a - 1) + j]
    BY <1>7
  <2> HIDE DEF prev
  <2>3. ASSUME NEW j \in 1..m
        PROVE  j \in below <=> j <= c
    <3> DEFINE i == (a - 1) + j
    <3>1. i \in 1..Len(Path[t]) /\ (j <= c <=> i <= h)
      <4> HIDE DEF k, h
      <4> QED BY <1>5, <1>6, <1>7, <2>1
    <3>2. prev[j] = Path[t][i]
      BY <2>2
    <3> HIDE DEF i, h, m
    <3>3. /\ Path[t][i] \in Ref /\ Path[t][h] \in Ref
          /\ i < h => Number[Path[t][i]] < Number[Path[t][h]]
          /\ h < i => Number[Path[t][h]] < Number[Path[t][i]]
      <4>1. i < h => Number[Path[t][i]] < Number[Path[t][h]]
        <5>1. i < h => i <= h
          BY <1>5, <3>1
        <5> QED BY <1>5, <3>1, <5>1, PathOrder
      <4>2. h < i => Number[Path[t][h]] < Number[Path[t][i]]
        <5>1. h < i => h <= i
          BY <1>5, <3>1
        <5> QED BY <1>5, <3>1, <5>1, PathOrder
      <4> QED BY <1>5, <3>1, <4>1, <4>2, PathBlocks
    <3>4. Number[Path[t][i]] \in Int /\ Number[Path[t][h]] \in Int
      BY <3>3, ChainAssumption
    <3>5. Number[Path[t][i]] <= Number[Path[t][h]] <=> i <= h
      <4> DEFINE x == Number[Path[t][i]]
                 y == Number[Path[t][h]]
      <4>1. x \in Int /\ y \in Int /\ (i < h => x < y) /\ (h < i => y < x)
            /\ (i = h => x = y)
        BY <3>3, <3>4
      <4>2. i \in Int /\ h \in Int
        BY <1>5, <3>1
      <4> HIDE DEF x, y
      <4>3. x <= y <=> i <= h
        BY <4>1, <4>2
      <4> QED BY <4>3 DEF x, y
    <3>6. j \in below <=> Number[prev[j]] <= Number[head]
      BY <2>1
    <3> QED BY <1>5, <3>1, <3>2, <3>5, <3>6
  <2>4. below = 1..c /\ c \in 1..m
    <3>1. PICK j \in below : TRUE
      BY <1>8
    <3>2. \A i \in below : i \in 1..m
      BY <2>1
    <3>3. c \in Int /\ c <= m
      <4> HIDE DEF h, k
      <4> QED BY <1>5, <1>6, <1>7
    <3> HIDE DEF below, m, c
    <3>4. j \in 1..m /\ j <= c
      BY <2>3, <3>1, <3>2
    <3>5. c \in 1..m
      BY <2>1, <3>3, <3>4
    <3>6. \A i : i \in below <=> i \in 1..c
      BY <2>1, <2>3, <3>2, <3>5
    <3> QED BY <3>5, <3>6
  <2>5. Cardinality(below) = c
    <3> HIDE DEF below, c, m
    <3>1. c \in Nat /\ 1 \in Int
      BY <2>1, <2>4
    <3> QED BY <2>4, <3>1, FS_Interval
  <2>6. prev[c] = Path[t][(a - 1) + c]
    BY <2>2, <2>4
  <2>7. (a - 1) + c = h
    <3> HIDE DEF h, k
    <3> QED BY <1>5, <1>6, <1>7
  <2> QED BY <1>5, <2>5, <2>6, <2>7
<1> DEFINE bases == ForkBases(ch, prev)
<1>9. ch.fin \in bases
  <2>1. ch.blocks[ch.fin] = head
    BY DEF FinalizedHead
  <2>2. ch.fin \in ch.fin..size
    BY <1>1
  <2> HIDE DEF prev
  <2> QED BY <1>8, <2>1, <2>2 DEF ForkBases
<1>10. bases \subseteq ch.fin..size /\ bases \subseteq 1..size
  <2>1. bases \subseteq ch.fin..size
    BY DEF ForkBases
  <2> HIDE DEF size, bases
  <2> QED BY <1>1, <2>1
<1> HIDE DEF bases
<1>11. \E i \in ch.fin..size : GetForkBase(ch, prev) = ch.blocks[i]
  <2> DEFINE best == CHOOSE i \in bases : \A j \in bases : j <= i
  <2>1. best \in bases
    BY <1>1, <1>9, <1>10, LastPosition
  <2>2. GetForkBase(ch, prev) = ch.blocks[best]
    BY DEF GetForkBase, bases
  <2> HIDE DEF best
  <2> QED BY <1>10, <2>1, <2>2
<1> QED BY <1>9, <1>11 DEF bases

------------------------------------------------------------------------------
(***************************************************************************)
(* Queries.                                                                 *)
(***************************************************************************)

LEMMA ParentWorks ==
    ASSUME NEW b \in Block
    PROVE  Parent(b) \in Ref /\ On(Parent(b), b)
<1>1. Path[b] \in Seq(Block) /\ Len(Path[b]) \in Nat /\ b \in Ref
  BY HeightType DEF Ref
<1>2. CASE Len(Path[b]) > 1
  <2>1. Len(Path[b]) - 1 \in 1..Len(Path[b])
    BY <1>1, <1>2
  <2> QED BY <1>1, <1>2, <2>1, PathBlocks DEF Parent
<1>3. CASE ~(Len(Path[b]) > 1)
  BY <1>3 DEF Parent, Ref, On
<1> QED BY <1>2, <1>3

\* The blocks of an answer continue the chain of the client; where it has none, it is none
\* of a block that is there.
Continues(answer, at, last) ==
    /\ answer.kind \in {"nodata", "fork", "data"}
    /\ answer.final \in Ref
    /\ answer.kind = "data" => answer.refs[Len(answer.refs)] = last /\ On(at, last)

LEMMA QueryAnswers ==
    ASSUME NEW ch, IsWindow(ch), NEW at \in Ref
    PROVE  /\ Continues(Query(ch, at), at, LastBlock(ch))
           /\ Query(ch, at).kind = "nodata" /\ Number[at] + 1 > Number[Parent(FirstBlock(ch))]
                  => Number[at] + 1 > Number[LastBlock(ch)]
<1> DEFINE from == Number[at] + 1
           size == Len(ch.blocks)
           pos  == Bisect(ch, from)
           last == LastBlock(ch)
           low  == Number[Parent(FirstBlock(ch))]
           q    == Query(ch, at)
           none == [kind |-> "nodata", final |-> Origin, refs |-> << >>]
           head == FinalizedHead(ch)
           idle == [kind |-> "nodata", final |-> head, refs |-> << >>]
           rest == SubSeq(ch.blocks, pos, size)
           data == [kind |-> "data", final |-> head, refs |-> rest]
           fork == [kind |-> "fork", final |-> Origin,
                    refs |-> [i \in 1..(pos - Window(pos - 1)) |->
                                  Parent(ch.blocks[Window(pos - 1) + i])]]
           tail == [kind |-> "fork", final |-> Origin,
                    refs |-> SubSeq(ch.blocks, Window(size) + 1, size)]
<1>1. /\ size \in Nat \ {0} /\ ch.blocks \in Seq(Block)
      /\ last \in Ref /\ head \in Ref /\ Origin \in Ref /\ last = ch.blocks[size]
      /\ FirstBlock(ch) \in Block
  BY WindowFacts DEF Ref, LastBlock
<1>2. /\ from \in Int /\ low \in Int
      /\ pos \in 1..(size + 1)
      /\ \A i \in 1..size : i < pos <=> Number[ch.blocks[i]] < from
  <2>1. from \in Int /\ low \in Int
    BY <1>1, ParentWorks, ChainAssumption
  <2> HIDE DEF from
  <2>2. /\ pos \in 1..(size + 1)
        /\ \A i \in 1..size : i < pos <=> Number[ch.blocks[i]] < from
    BY <2>1, BisectWorks
  <2> HIDE DEF pos, low, size
  <2> QED BY <2>1, <2>2
<1>3. CASE from <= low
  <2>1. q = none
    BY <1>3, Zenon DEF Query
  <2>2. ~(from > low)
    <3> HIDE DEF from, low
    <3> QED BY <1>2, <1>3
  <2> HIDE DEF q, low, last
  <2>3. q.kind = "nodata" /\ q.final = Origin
    BY <2>1
  <2> QED BY <1>1, <2>2, <2>3 DEF Continues, q, low, last
<1>4. CASE ~(from <= low) /\ pos <= size /\ Parent(ch.blocks[pos]) # at
  <2>1. q = fork
    <3>1. ~(pos > size)
      <4> HIDE DEF pos, size
      <4> QED BY <1>1, <1>2, <1>4
    <3> QED BY <1>4, <3>1, Zenon DEF Query
  <2> HIDE DEF q, last
  <2>2. q.kind = "fork" /\ q.final = Origin
    BY <2>1
  <2> QED BY <1>1, <2>2 DEF Continues, q, last
<1>5. CASE ~(from <= low) /\ pos <= size /\ Parent(ch.blocks[pos]) = at
  <2>1. q = data
    <3>1. ~(pos > size)
      <4> HIDE DEF pos, size
      <4> QED BY <1>1, <1>2, <1>5
    <3> QED BY <1>5, <3>1, Zenon DEF Query
  <2> DEFINE p == pos
  <2>2. p \in 1..size
    <3> HIDE DEF pos, size
    <3> QED BY <1>1, <1>2, <1>5
  <2>3. rest[Len(rest)] = last
    <3>1. rest = SubSeq(ch.blocks, p, size) /\ size = Len(ch.blocks)
      OBVIOUS
    <3> HIDE DEF p, size, rest
    <3>2. Len(rest) = size - p + 1 /\ rest[size - p + 1] = ch.blocks[size]
      BY <1>1, <2>2, <3>1
    <3> QED BY <1>1, <3>2
  <2>4. On(at, last)
    <3>1. ch.blocks[p] \in Block /\ ch.blocks[p] \in Ref /\ On(ch.blocks[p], last)
      BY <2>2, WindowFacts
    <3>2. On(at, ch.blocks[p])
      BY <1>5, <3>1, ParentWorks
    <3> HIDE DEF p, last
    <3> QED BY <1>1, <3>1, <3>2, AncestorTransitive
  <2> HIDE DEF q, last, rest, head
  <2>5. q.kind = "data" /\ q.final = head /\ q.refs = rest
    BY <2>1
  <2> QED BY <1>1, <2>3, <2>4, <2>5 DEF Continues, q, last
<1>6. CASE ~(from <= low) /\ ~(pos <= size)
  <2>1. pos > size
    <3> HIDE DEF pos, size
    <3> QED BY <1>1, <1>2, <1>6
  <2>2. q = tail \/ q = idle
    <3>1. CASE from = Number[last] + 1 /\ at # last
      <4>1. q = tail
        BY <1>6, <2>1, <3>1, Zenon DEF Query
      <4> QED BY <4>1
    <3>2. CASE ~(from = Number[last] + 1 /\ at # last)
      <4>1. q = idle
        BY <1>6, <3>2, Zenon DEF Query
      <4> QED BY <4>1
    <3> QED BY <3>1, <3>2
  <2>3. from > Number[last]
    <3>1. size \in 1..size /\ size < pos
      <4> HIDE DEF pos, size
      <4> QED BY <1>1, <2>1
    <3>2. Number[last] < from
      BY <1>1, <1>2, <3>1
    <3>3. Number[last] \in Int
      BY <1>1, ChainAssumption
    <3> HIDE DEF from, last
    <3> QED BY <1>2, <3>2, <3>3
  <2> HIDE DEF q, last, head
  <2>4. q.kind \in {"nodata", "fork"} /\ q.final \in Ref
    BY <1>1, <2>2
  <2> QED BY <1>1, <2>3, <2>4 DEF Continues, q, last
<1> QED BY <1>3, <1>4, <1>5, <1>6

\* A client that goes back stays on its own chain.
LEMMA RollbackOn ==
    ASSUME NEW at \in Ref, NEW prev
    PROVE  ClientRollback(at, prev) \in Ref /\ On(ClientRollback(at, prev), at)
<1> DEFINE top == Len(Path[at])
           shared == {i \in DOMAIN Path[at] : \E j \in DOMAIN prev : Path[at][i] = prev[j]}
           below  == {i \in DOMAIN Path[at] : Number[Path[at][i]] < Number[prev[1]]}
           goal   == IF shared # {} THEN shared ELSE below
           best   == CHOOSE i \in goal : \A j \in goal : j <= i
<1>1. top \in Nat /\ DOMAIN Path[at] = 1..top
  BY HeightType
<1>2. goal \subseteq 1..top
  BY <1>1
<1>3. ClientRollback(at, prev) = IF goal = {} THEN Origin ELSE Path[at][best]
  BY Zenon DEF ClientRollback
<1> HIDE DEF goal
<1>4. CASE goal = {}
  BY <1>3, <1>4 DEF Ref, On
<1>5. CASE goal # {}
  <2>1. best \in goal
    BY <1>1, <1>2, <1>5, LastPosition
  <2>2. best \in 1..Len(Path[at])
    BY <1>2, <2>1
  <2> HIDE DEF best
  <2> QED BY <1>3, <1>5, <2>2, PathBlocks
<1> QED BY <1>4, <1>5

ClientState ==
    [phase : {"idle", "waiting", "woken"}, at : Ref, final : Ref]

\* A client stays on its chain, whatever it is answered.
LEMMA AnsweredWorks ==
    ASSUME NEW c \in Client, client[c] \in ClientState,
           NEW answer, NEW last \in Ref, Continues(answer, client[c].at, last)
    PROVE  /\ Answered(c, answer) \in ClientState
           /\ Answered(c, answer).phase = "idle"
           /\ Comparable(client[c].at, Answered(c, answer).at)
<1> DEFINE told == IF Number[answer.final] > Number[client[c].final]
                   THEN answer.final ELSE client[c].final
           at == client[c].at
           back == ClientRollback(at, answer.refs)
           new == Answered(c, answer)
<1>1. told \in Ref /\ at \in Ref /\ client[c].final \in Ref
  BY DEF Continues, ClientState
<1>2. back \in Ref /\ On(back, at)
  BY <1>1, RollbackOn
<1> HIDE DEF told, back
<1>3. CASE answer.kind = "fork"
  <2>1. new = [client[c] EXCEPT !.phase = "idle", !.at = back]
    BY <1>3, Zenon DEF Answered, back
  <2> HIDE DEF new
  <2>2. new \in ClientState /\ new.phase = "idle" /\ new.at = back
    BY <1>2, <2>1 DEF ClientState
  <2> QED BY <1>2, <2>2 DEF Comparable, new
<1>4. CASE answer.kind = "data"
  <2>1. answer.kind # "fork"
    BY <1>4
  <2>2. new = [phase |-> "idle", at |-> answer.refs[Len(answer.refs)], final |-> told]
    BY <1>4, <2>1, Zenon DEF Answered, told
  <2>3. answer.refs[Len(answer.refs)] = last /\ On(at, last)
    BY <1>4 DEF Continues
  <2>4. new = [phase |-> "idle", at |-> last, final |-> told]
    BY <2>2, <2>3
  <2> HIDE DEF new
  <2>5. new \in ClientState /\ new.phase = "idle" /\ new.at = last
    BY <1>1, <2>4 DEF ClientState
  <2> QED BY <2>3, <2>5 DEF Comparable, new
<1>5. CASE answer.kind = "nodata"
  <2>1. answer.kind # "fork" /\ answer.kind # "data"
    BY <1>5
  <2>2. new = [client[c] EXCEPT !.phase = "idle", !.final = told]
    BY <2>1, Zenon DEF Answered, told
  <2> HIDE DEF new
  <2>3. new \in ClientState /\ new.phase = "idle" /\ new.at = at
    BY <1>1, <2>2 DEF ClientState
  <2>4. On(at, at)
    BY <1>1, AncestorReflexive
  <2> QED BY <2>3, <2>4 DEF Comparable, new
<1> QED BY <1>3, <1>4, <1>5 DEF Continues

------------------------------------------------------------------------------
(***************************************************************************)
(* The invariant, step by step.                                             *)
(***************************************************************************)

\* The configuration the theorems are about: the source is trusted with finality, and the
\* finalized head is not moved up by the size of the window.
Trusted == VerifiedFinality = TRUE /\ AutoAdjust = FALSE

\* What a step keeps, and what it may do.
Goes ==
    /\ ServiceInv'
    /\ On(FinalizedHead(chain), FinalizedHead(chain'))
    /\ \A c \in Client : Comparable(client[c].at, client'[c].at)

IngestState ==
    [phase : {"session", "pause", "dead"}, base : Block, pos : Block, told : Ref,
     stacked : 0..(MaxStacked + 1), started : BOOLEAN, fault : BOOLEAN]

\* The parts of the invariant, with the window in its own words.
LEMMA Opened ==
    ASSUME ServiceInv
    PROVE  /\ node \in [tip : Block, fin : Block, prior : Block]
           /\ node.tip \in Block /\ node.fin \in Block
           /\ node.tip \in Ref /\ node.fin \in Ref
           /\ ingest \in IngestState
           /\ client \in [Client -> ClientState]
           /\ IsWindow(chain)
           /\ On(node.fin, node.tip)
           /\ On(FinalizedHead(chain), node.fin)
           /\ On(FinalizedHead(chain), node.tip)
           /\ FinalizedHead(chain) \in Ref
           /\ LastBlock(chain) \in Ref /\ LastBlock(chain) \in Block
<1>1. /\ node \in [tip : Block, fin : Block, prior : Block]
      /\ ingest \in IngestState
      /\ client \in [Client -> ClientState]
      /\ IsWindow(chain)
      /\ On(node.fin, node.tip)
      /\ On(FinalizedHead(chain), node.fin)
  BY DEF ServiceInv, TypeOK, IngestState, ClientState, FinalizedIsFinal
<1>2. /\ FinalizedHead(chain) \in Ref
      /\ LastBlock(chain) \in Ref /\ LastBlock(chain) \in Block
  BY <1>1, WindowFacts
<1>3. node.tip \in Block /\ node.fin \in Block /\ node.tip \in Ref /\ node.fin \in Ref
  BY <1>1 DEF Ref
<1>4. On(FinalizedHead(chain), node.tip)
  BY <1>1, <1>2, <1>3, AncestorTransitive
<1> QED BY <1>1, <1>2, <1>3, <1>4

\* The invariant holds if its parts do; a window has the types it should have.
LEMMA Closed ==
    ASSUME (node \in [tip : Block, fin : Block, prior : Block])',
           (ingest \in IngestState)',
           (client \in [Client -> ClientState])',
           IsWindow(chain'),
           WindowBounded',
           On(node'.fin, node'.tip),
           On(FinalizedHead(chain'), node'.fin),
           IngestSurvives',
           SessionFits',
           NoMissedBlock'
    PROVE  ServiceInv'
<1>1. /\ chain'.blocks \in Seq(Block) /\ chain'.fin \in 1..Len(chain'.blocks)
      /\ \A i \in 1..Len(chain'.blocks) : chain'.blocks[i] \in Block
  BY WindowFacts
<1>2. DOMAIN chain'.blocks = 1..Len(chain'.blocks)
  BY <1>1
<1>3. TypeOK'
  BY <1>1, <1>2 DEF TypeOK, IngestState, ClientState
<1> QED BY <1>3 DEF ServiceInv, FinalizedIsFinal

\* Clients that do not act stay where they are.
LEMMA AllStay ==
    ASSUME ServiceInv, UNCHANGED client
    PROVE  \A c \in Client : Comparable(client[c].at, client'[c].at)
<1>1. \A c \in Client : client[c].at \in Ref
  BY Opened DEF ClientState
<1>2. \A c \in Client : On(client[c].at, client[c].at)
  BY <1>1, AncestorReflexive
<1> QED BY <1>2 DEF Comparable

LEMMA HeadStays ==
    ASSUME ServiceInv, FinalizedHead(chain') = FinalizedHead(chain)
    PROVE  On(FinalizedHead(chain), FinalizedHead(chain'))
<1> DEFINE head == FinalizedHead(chain)
<1>1. head \in Ref
  BY Opened
<1> HIDE DEF head
<1>2. On(head, head)
  BY <1>1, AncestorReflexive
<1> QED BY <1>2 DEF head

\* The node: its finalized head moves up the chain of its tip.
LEMMA NodeGoes ==
    ASSUME ServiceInv, UNCHANGED << chain, ingest, client >>,
           (node \in [tip : Block, fin : Block, prior : Block])',
           On(node.fin, node'.fin), On(node'.fin, node'.tip)
    PROVE  Goes
<1>1. node'.fin \in Ref /\ node.fin \in Ref
  BY Opened DEF Ref
<1>2. ASSUME NEW r \in Ref, On(r, node.fin)
      PROVE  On(r, node'.fin)
  BY <1>1, <1>2, AncestorTransitive
<1>3. On(FinalizedHead(chain'), node'.fin)
  <2>1. On(FinalizedHead(chain), node'.fin)
    BY <1>2, Opened
  <2> QED BY <2>1
<1>4. SessionFits'
  <2>1. ingest.told \in Ref
    BY Opened DEF IngestState
  <2>2. ingest.phase = "session" => On(ingest.told, node'.fin)
    BY <1>2, <2>1 DEF ServiceInv, SessionFits
  <2> QED BY <2>2 DEF ServiceInv, SessionFits
<1>5. WindowBounded' /\ IngestSurvives' /\ NoMissedBlock'
  BY DEF ServiceInv, WindowBounded, IngestSurvives, NoMissedBlock
<1>6. /\ (ingest \in IngestState)' /\ (client \in [Client -> ClientState])'
      /\ IsWindow(chain')
  BY Opened
<1>7. ServiceInv'
  BY <1>3, <1>4, <1>5, <1>6, Closed
<1> QED BY <1>7, AllStay, HeadStays DEF Goes

LEMMA NewBlockGoes ==
    ASSUME ServiceInv, NewBlock
    PROVE  Goes
<1>1. PICK b \in Block : /\ Parent(b) = node.tip
                         /\ node' = [node EXCEPT !.tip = b]
                         /\ UNCHANGED << chain, ingest, client, used >>
  BY DEF NewBlock
<1>2. /\ (node \in [tip : Block, fin : Block, prior : Block])'
      /\ node'.fin = node.fin /\ node'.tip = b
  BY <1>1, Opened
<1>3. b \in Ref /\ On(node.tip, b)
  BY <1>1, ParentWorks DEF Ref
<1>4. On(node.fin, b)
  BY <1>3, Opened, AncestorTransitive
<1>5. On(node.fin, node.fin)
  BY Opened, AncestorReflexive
<1>6. On(node.fin, node'.fin) /\ On(node'.fin, node'.tip)
  BY <1>2, <1>4, <1>5
<1> QED BY <1>1, <1>2, <1>6, NodeGoes

LEMMA ReorgGoes ==
    ASSUME ServiceInv, Reorg
    PROVE  Goes
<1>1. PICK b \in Block : /\ On(node.fin, b)
                         /\ node' = [node EXCEPT !.tip = b, !.prior = node.tip]
                         /\ UNCHANGED << chain, ingest, client >>
  BY DEF Reorg
<1>2. /\ (node \in [tip : Block, fin : Block, prior : Block])'
      /\ node'.fin = node.fin /\ node'.tip = b
  BY <1>1, Opened
<1>3. On(node.fin, node.fin)
  BY Opened, AncestorReflexive
<1>4. On(node.fin, node'.fin) /\ On(node'.fin, node'.tip)
  BY <1>1, <1>2, <1>3
<1> QED BY <1>1, <1>2, <1>4, NodeGoes

LEMMA NodeFinalizesGoes ==
    ASSUME ServiceInv, NodeFinalizes
    PROVE  Goes
<1>1. PICK b \in Block : /\ Parent(b) = node.fin
                         /\ On(b, node.tip)
                         /\ node' = [node EXCEPT !.fin = b]
                         /\ UNCHANGED << chain, ingest, client, used >>
  BY DEF NodeFinalizes
<1>2. /\ (node \in [tip : Block, fin : Block, prior : Block])'
      /\ node'.fin = b /\ node'.tip = node.tip
  BY <1>1, Opened
<1>3. On(node.fin, b)
  BY <1>1, ParentWorks
<1>4. On(node.fin, node'.fin) /\ On(node'.fin, node'.tip)
  BY <1>1, <1>2, <1>3
<1> QED BY <1>1, <1>2, <1>4, NodeGoes

LEMMA ReplicasAgreeGoes ==
    ASSUME ServiceInv, ReplicasAgree
    PROVE  Goes
<1>1. /\ node' = [node EXCEPT !.prior = node.tip]
      /\ UNCHANGED << chain, ingest, client >>
  BY DEF ReplicasAgree
<1>2. /\ (node \in [tip : Block, fin : Block, prior : Block])'
      /\ node'.fin = node.fin /\ node'.tip = node.tip
  BY <1>1, Opened
<1>3. On(node.fin, node.fin)
  BY Opened, AncestorReflexive
<1>4. On(node.fin, node'.fin) /\ On(node'.fin, node'.tip)
  BY <1>2, <1>3, Opened
<1> QED BY <1>1, <1>2, <1>4, NodeGoes

\* An event of the service itself, with the queries it wakes.
LEMMA NotifiedFits ==
    ASSUME ServiceInv, IsWindow(chain'), client' = Notified(chain')
    PROVE  /\ (client \in [Client -> ClientState])'
           /\ NoMissedBlock'
           /\ \A c \in Client : Comparable(client[c].at, client'[c].at)
<1> DEFINE last == LastBlock(chain')
           Late(c) == /\ client[c].phase = "waiting"
                      /\ Number[client[c].at] + 1 <= Number[last]
<1>1. Number[last] \in Int
  BY WindowFacts, ChainAssumption
<1>2. client \in [Client -> ClientState]
  BY Opened
<1>3. ASSUME NEW c \in Client
      PROVE  /\ client'[c] \in ClientState
             /\ client'[c].at = client[c].at
             /\ client'[c].phase = "waiting"
                    => Number[client'[c].at] + 1 > Number[last]
  <2>1. client[c] \in ClientState
    BY <1>2
  <2>2. client[c].at \in Ref /\ Number[client[c].at] \in Int
    BY <2>1, ChainAssumption DEF ClientState
  <2>3. client'[c] = IF Late(c) THEN [client[c] EXCEPT !.phase = "woken"] ELSE client[c]
    BY DEF Notified
  <2> HIDE DEF last
  <2>4. CASE Late(c)
    <3>1. client'[c] = [client[c] EXCEPT !.phase = "woken"]
      BY <2>3, <2>4
    <3>2. /\ client'[c] \in ClientState /\ client'[c].at = client[c].at
          /\ client'[c].phase = "woken"
      BY <2>1, <3>1 DEF ClientState
    <3> QED BY <3>2
  <2>5. CASE ~ Late(c)
    <3>1. client'[c] = client[c]
      BY <2>3, <2>5
    <3>2. client[c].phase = "waiting" => ~(Number[client[c].at] + 1 <= Number[last])
      BY <2>5
    <3>3. client[c].phase = "waiting" => Number[client[c].at] + 1 > Number[last]
      BY <1>1, <2>2, <3>2
    <3> QED BY <2>1, <3>1, <3>3
  <2> QED BY <2>4, <2>5
<1>4. client' = [c \in Client |-> client'[c]]
  BY DEF Notified
<1> HIDE DEF last
<1>5. (client \in [Client -> ClientState])'
  BY <1>3, <1>4
<1>6. NoMissedBlock'
  BY <1>3 DEF NoMissedBlock, last
<1>7. \A c \in Client : Comparable(client[c].at, client'[c].at)
  <2>1. \A c \in Client : client[c].at \in Ref
    BY <1>2 DEF ClientState
  <2>2. \A c \in Client : On(client[c].at, client[c].at)
    BY <2>1, AncestorReflexive
  <2> QED BY <1>3, <2>2 DEF Comparable
<1> QED BY <1>5, <1>6, <1>7

\* The window after a batch: the blocks are taken in, the finalized head the session told of
\* is on the chain of the last one.
LEMMA IngestGoes ==
    ASSUME ServiceInv, Trusted, ingest.phase = "session", UNCHANGED node,
           NEW blocks \in Seq(Block), NEW pushed, IsWindow(pushed),
           PushAll(chain, blocks) = [chain |-> pushed, ok |-> TRUE],
           FinalizedHead(pushed) = FinalizedHead(chain),
           LastBlock(pushed) = IF blocks = << >> THEN ingest.pos ELSE blocks[Len(blocks)],
           NEW r \in Ref, On(r, node.fin),
           Comparable(SessionFinal(ingest, r), LastBlock(pushed)),
           Ingest(blocks, r)
    PROVE  Goes
<1> DEFINE told  == SessionFinal(ingest, r)
           ok    == \/ told = Origin
                    \/ FinalizeAsserts(pushed, told)
           final == IF told = Origin THEN pushed ELSE Finalize(pushed, told)
           in    == [ingest EXCEPT !.pos = IF blocks = << >> THEN @ ELSE blocks[Len(blocks)],
                                   !.told = told,
                                   !.started = @ \/ blocks # << >>]
           head  == FinalizedHead(chain)
           last  == LastBlock(pushed)
<1>1. /\ ingest \in IngestState /\ ingest.told \in Ref
      /\ On(ingest.told, node.fin)
      /\ node.fin \in Ref /\ head \in Ref /\ On(head, node.fin)
      /\ last \in Ref /\ last \in Block
  <2>1. ingest \in IngestState /\ node.fin \in Ref /\ head \in Ref /\ On(head, node.fin)
    BY Opened
  <2>2. ingest.told \in Ref
    BY <2>1 DEF IngestState
  <2>3. On(ingest.told, node.fin)
    BY DEF ServiceInv, SessionFits
  <2>4. last \in Ref /\ last \in Block
    BY WindowFacts
  <2> QED BY <2>1, <2>2, <2>3, <2>4
<1>2. told \in Ref /\ On(told, node.fin)
  BY <1>1 DEF SessionFinal
<1>3. /\ ok /\ IsWindow(final) /\ LastBlock(final) = last
      /\ On(head, FinalizedHead(final))
      /\ On(FinalizedHead(final), node.fin)
  <2>1. CASE told = Origin
    <3>1. ok /\ final = pushed
      BY <2>1
    <3>2. On(head, head)
      BY <1>1, AncestorReflexive
    <3> HIDE DEF ok, final, head, last
    <3> QED BY <1>1, <3>1, <3>2 DEF head, last
  <2>2. CASE told # Origin
    <3> DEFINE fz == Finalize(pushed, told)
    <3>1. final = fz
      BY <2>2
    <3> HIDE DEF told
    <3>2. /\ FinalizeAsserts(pushed, told)
          /\ IsWindow(fz) /\ fz.blocks = pushed.blocks /\ fz.fin >= pushed.fin
          /\ fz.fin = pushed.fin \/ On(FinalizedHead(fz), told)
      BY <1>2, FinalizeWorks DEF told
    <3>3. ok
      BY <3>2
    <3> HIDE DEF fz, ok, final
    <3>4. LastBlock(fz) = last
      BY <3>2 DEF LastBlock
    <3>5. FinalizedHead(fz) \in Ref
      BY <3>2, WindowFacts
    <3>6. On(head, FinalizedHead(fz))
      <4>1. pushed.fin \in 1..Len(fz.blocks) /\ fz.fin \in 1..Len(fz.blocks)
        <5>1. pushed.fin \in 1..Len(pushed.blocks) /\ fz.fin \in 1..Len(fz.blocks)
          BY <3>2, WindowFacts
        <5> QED BY <3>2, <5>1
      <4>2. On(fz.blocks[pushed.fin], fz.blocks[fz.fin])
        BY <3>2, <4>1, WindowOrder
      <4>3. head = fz.blocks[pushed.fin] /\ FinalizedHead(fz) = fz.blocks[fz.fin]
        BY <3>2 DEF FinalizedHead
      <4> QED BY <4>2, <4>3
    <3>7. On(FinalizedHead(fz), node.fin)
      <4>1. CASE fz.fin = pushed.fin
        <5>1. FinalizedHead(fz) = head
          BY <3>2, <4>1 DEF FinalizedHead
        <5> QED BY <1>1, <5>1
      <4>2. CASE On(FinalizedHead(fz), told)
        BY <1>1, <1>2, <3>5, <4>2, AncestorTransitive
      <4> QED BY <3>2, <4>1, <4>2
    <3> QED BY <3>1, <3>2, <3>3, <3>4, <3>6, <3>7
  <2> QED BY <2>1, <2>2
<1>4. chain' = Compact(final) /\ ingest' = in /\ client' = Notified(chain')
  <2> DEFINE p == PushAll(chain, blocks)
  <2>1. p.ok = TRUE /\ p.chain = pushed
    <3> HIDE DEF p
    <3>1. p = [chain |-> pushed, ok |-> TRUE]
      BY DEF p
    <3> QED BY <3>1
  <2>2. (p.ok /\ (told = Origin \/ FinalizeAsserts(p.chain, told)))
    BY <1>3, <2>1
  <2>3. /\ chain' = Compact(IF told = Origin THEN p.chain ELSE Finalize(p.chain, told))
        /\ ingest' = in
        /\ client' = Notified(chain')
    BY <2>2, Zenon DEF Ingest
  <2> QED BY <2>1, <2>3
<1> HIDE DEF final, ok
<1>5. /\ IsWindow(chain')
      /\ LastBlock(chain') = last
      /\ FinalizedHead(chain') = FinalizedHead(final)
      /\ Len(chain'.blocks) > MaxSize => chain'.fin = 1
  BY <1>3, <1>4, CompactWorks DEF Trusted
<1>6. /\ ingest' \in IngestState /\ ingest'.phase = "session"
      /\ ingest'.pos = last /\ ingest'.told = told /\ ingest'.fault = ingest.fault
  <2>1. (IF blocks = << >> THEN ingest.pos ELSE blocks[Len(blocks)]) = last
    OBVIOUS
  <2>2. (ingest.started \/ blocks # << >>) \in BOOLEAN
    BY <1>1 DEF IngestState
  <2>3. ingest' = [ingest EXCEPT !.pos = last, !.told = told,
                                 !.started = ingest.started \/ blocks # << >>]
    BY <1>4, <2>1, Zenon
  <2> HIDE DEF told, last
  <2> DEFINE st == (ingest.started \/ blocks # << >>)
  <2>4. ingest' = [ingest EXCEPT !.pos = last, !.told = told, !.started = st] /\ st \in BOOLEAN
    BY <2>2, <2>3
  <2> HIDE DEF st
  <2>5. /\ ingest.phase \in {"session", "pause", "dead"} /\ ingest.base \in Block
        /\ ingest.stacked \in 0..(MaxStacked + 1) /\ ingest.fault \in BOOLEAN
        /\ ingest = [phase |-> ingest.phase, base |-> ingest.base, pos |-> ingest.pos,
                     told |-> ingest.told, stacked |-> ingest.stacked,
                     started |-> ingest.started, fault |-> ingest.fault]
    BY <1>1 DEF IngestState
  <2>6. ingest' = [phase |-> ingest.phase, base |-> ingest.base, pos |-> last,
                   told |-> told, stacked |-> ingest.stacked, started |-> st,
                   fault |-> ingest.fault]
    BY <2>4, <2>5
  <2>7. ingest' \in IngestState
    BY <1>1, <1>2, <2>4, <2>5, <2>6, Zenon DEF IngestState
  <2>8. /\ ingest'.phase = ingest.phase /\ ingest'.pos = last /\ ingest'.told = told
        /\ ingest'.fault = ingest.fault
    BY <2>6
  <2> QED BY <2>7, <2>8
<1>7. SessionFits'
  <2>1. \E i \in chain'.fin..Len(chain'.blocks) : chain'.blocks[i] = ingest'.pos
    <3>1. Len(chain'.blocks) \in chain'.fin..Len(chain'.blocks)
      <4>1. Len(chain'.blocks) \in Nat /\ chain'.fin \in 1..Len(chain'.blocks)
        BY <1>5, WindowFacts
      <4> QED BY <4>1
    <3>2. chain'.blocks[Len(chain'.blocks)] = ingest'.pos
      BY <1>5, <1>6 DEF LastBlock
    <3> QED BY <3>1, <3>2
  <2>2. On(ingest'.told, node'.fin) /\ Comparable(ingest'.told, ingest'.pos)
    BY <1>2, <1>6
  <2> HIDE DEF last
  <2> QED BY <1>5, <1>6, <2>1, <2>2 DEF SessionFits
<1>8. IngestSurvives' /\ WindowBounded'
  <2>1. IngestSurvives
    BY DEF ServiceInv
  <2> QED BY <1>5, <1>6, <2>1 DEF IngestSurvives, WindowBounded
<1>9. /\ (client \in [Client -> ClientState])'
      /\ NoMissedBlock'
      /\ \A c \in Client : Comparable(client[c].at, client'[c].at)
  BY <1>4, <1>5, NotifiedFits
<1>10. /\ (node \in [tip : Block, fin : Block, prior : Block])'
       /\ On(node'.fin, node'.tip)
       /\ On(FinalizedHead(chain'), node'.fin)
  <2>1. node \in [tip : Block, fin : Block, prior : Block] /\ On(node.fin, node.tip)
    BY Opened
  <2> QED BY <1>3, <1>5, <2>1
<1>11. ServiceInv'
  BY <1>5, <1>6, <1>7, <1>8, <1>9, <1>10, Closed
<1>12. On(FinalizedHead(chain), FinalizedHead(chain'))
  BY <1>3, <1>5
<1> QED BY <1>9, <1>11, <1>12 DEF Goes

LEMMA DeliverGoes ==
    ASSUME ServiceInv, Trusted, NEW r \in Ref, Deliver(r)
    PROVE  Goes
<1>1. PICK s \in Segment : /\ ingest.phase = "session"
                           /\ s.base = ingest.pos
                           /\ SourceFinal(r, Tip(s))
                           /\ Ingest(s.blocks, r)
                           /\ UNCHANGED << node, used >>
  BY DEF Deliver
<1>2. PICK p \in chain.fin..Len(chain.blocks) : chain.blocks[p] = ingest.pos
  BY <1>1 DEF ServiceInv, SessionFits
<1> DEFINE n == Len(s.blocks)
           pushed == Grown(chain, p, s.blocks, n)
<1>3. /\ IsWindow(chain) /\ s.blocks \in Seq(Block) /\ n \in Nat \ {0} /\ n \in 1..n
      /\ chain.blocks[p] = s.base
  <2>1. s.blocks \in Seq(Block) /\ n \in Nat \ {0}
    BY SegmentIsChain
  <2>2. n \in 1..n
    <3> HIDE DEF n
    <3> QED BY <2>1
  <2> QED BY <1>1, <1>2, <2>1, <2>2, Opened
<1>4. /\ IsWindow(pushed) /\ LastBlock(pushed) = s.blocks[n]
      /\ FinalizedHead(pushed) = FinalizedHead(chain)
  BY <1>3, GrownIsWindow, Zenon
<1>5. PushAll(chain, s.blocks) = [chain |-> pushed, ok |-> TRUE]
  BY <1>3, PushAllWorks, Zenon
<1>6. LastBlock(pushed) = IF s.blocks = << >> THEN ingest.pos ELSE s.blocks[Len(s.blocks)]
  BY <1>3, <1>4
<1>7. On(r, node.fin) /\ Comparable(SessionFinal(ingest, r), LastBlock(pushed))
  BY <1>1, <1>4 DEF SourceFinal, Trusted, Tip
<1> HIDE DEF pushed
<1> QED BY <1>1, <1>3, <1>4, <1>5, <1>6, <1>7, IngestGoes

LEMMA DeliverFinalityGoes ==
    ASSUME ServiceInv, Trusted, NEW r \in Ref, DeliverFinality(r)
    PROVE  Goes
<1>1. /\ ingest.phase = "session" /\ ingest.pos # ingest.base
      /\ On(r, node.fin) /\ On(r, ingest.pos)
      /\ Ingest(<< >>, r)
      /\ UNCHANGED << node, used >>
  BY DEF DeliverFinality
<1>2. ingest.pos = LastBlock(chain) /\ Comparable(ingest.told, ingest.pos)
  BY <1>1 DEF ServiceInv, SessionFits
<1>3. Comparable(SessionFinal(ingest, r), LastBlock(chain))
  BY <1>1, <1>2 DEF SessionFinal, Comparable
<1> DEFINE none == << >>
<1>4. none \in Seq(Block) /\ none = << >>
  OBVIOUS
<1>5. PushAll(chain, none) = [chain |-> chain, ok |-> TRUE]
  BY PushNoneWorks
<1>6. Ingest(none, r)
  BY <1>1
<1> HIDE DEF none
<1>7. LastBlock(chain) = IF none = << >> THEN ingest.pos ELSE none[Len(none)]
  BY <1>2, <1>4
<1>8. IsWindow(chain) /\ UNCHANGED node
  BY <1>1, Opened
<1> QED BY <1>1, <1>3, <1>4, <1>5, <1>6, <1>7, <1>8, IngestGoes

\* The window and the clients stay: what is left is the session.
LEMMA SessionGoes ==
    ASSUME ServiceInv, UNCHANGED << node, chain, client >>,
           (ingest \in IngestState)', IngestSurvives', SessionFits'
    PROVE  Goes
<1>1. /\ (node \in [tip : Block, fin : Block, prior : Block])'
      /\ (client \in [Client -> ClientState])'
      /\ IsWindow(chain') /\ On(node'.fin, node'.tip)
      /\ On(FinalizedHead(chain'), node'.fin)
  BY Opened
<1>2. WindowBounded' /\ NoMissedBlock'
  BY DEF ServiceInv, WindowBounded, NoMissedBlock
<1>3. ServiceInv'
  BY <1>1, <1>2, Closed
<1> QED BY <1>3, AllStay, HeadStays DEF Goes

LEMMA IngestRecord ==
    ASSUME NEW phase \in {"session", "pause", "dead"}, NEW base \in Block, NEW pos \in Block,
           NEW told \in Ref, NEW stacked \in 0..(MaxStacked + 1),
           NEW started \in BOOLEAN, NEW fault \in BOOLEAN
    PROVE  [phase |-> phase, base |-> base, pos |-> pos, told |-> told,
            stacked |-> stacked, started |-> started, fault |-> fault] \in IngestState
BY DEF IngestState

\* A session at a block of the window that may be rolled back to.
LEMMA FreshSession ==
    ASSUME ServiceInv, NEW in \in IngestState, in.fault = ingest.fault,
           NEW base \in Block, ingest' = Session(in, base)
    PROVE  /\ (ingest \in IngestState)'
           /\ IngestSurvives'
           /\ ingest'.phase = "session" /\ ingest'.base = base /\ ingest'.pos = base
           /\ ingest'.told = Origin
<1>1. Origin \in Ref
  BY DEF Ref
<1>2. ingest' = [phase |-> "session", base |-> base, pos |-> base, told |-> Origin,
                 stacked |-> in.stacked, started |-> in.started, fault |-> in.fault]
  BY DEF Session, IngestState
<1>3. /\ in.stacked \in 0..(MaxStacked + 1) /\ in.started \in BOOLEAN
      /\ in.fault \in BOOLEAN
  BY DEF IngestState
<1>4. ingest' \in IngestState
  <2> DEFINE st == in.started
             ft == in.fault
  <2>1. ingest' = [phase |-> "session", base |-> base, pos |-> base, told |-> Origin,
                   stacked |-> in.stacked, started |-> st, fault |-> ft]
    BY <1>2
  <2>2. st \in BOOLEAN /\ ft \in BOOLEAN /\ in.stacked \in 0..(MaxStacked + 1)
    BY <1>3
  <2> HIDE DEF st, ft
  <2>3. [phase |-> "session", base |-> base, pos |-> base, told |-> Origin,
         stacked |-> in.stacked, started |-> st, fault |-> ft] \in IngestState
    BY <1>1, <2>2, IngestRecord
  <2> QED BY <2>1, <2>3
<1>5. /\ ingest'.phase = "session" /\ ingest'.base = base /\ ingest'.pos = base
      /\ ingest'.told = Origin /\ ingest'.fault = ingest.fault
  BY <1>2
<1>6. IngestSurvives'
  BY <1>5 DEF ServiceInv, IngestSurvives
<1> QED BY <1>4, <1>5, <1>6

LEMMA OriginFits ==
    ASSUME NEW r \in Ref
    PROVE  On(Origin, r) /\ Comparable(Origin, r)
BY DEF On, Comparable

LEMMA StreamForksGoes ==
    ASSUME ServiceInv, StreamForks
    PROVE  Goes
<1>1. PICK n \in {1, ForkWindow} :
          /\ ingest.phase = "session"
          /\ ingest' = Forked(Previous(node.tip, ingest.pos, n))
          /\ UNCHANGED << node, chain, client, used >>
  BY Zenon DEF StreamForks
<1>2. n \in Nat \ {0}
  BY ChainAssumption
<1>3. PICK at \in chain.fin..Len(chain.blocks) : chain.blocks[at] = ingest.pos
  BY <1>1 DEF ServiceInv, SessionFits
<1> DEFINE prev == Previous(node.tip, ingest.pos, n)
           base == GetForkBase(chain, prev)
           in == [ingest EXCEPT !.stacked = 0]
<1>4. /\ ForkBases(chain, prev) # {}
      /\ \E i \in chain.fin..Len(chain.blocks) : base = chain.blocks[i]
  <2> DEFINE back == Previous(node.tip, chain.blocks[at], n)
  <2>1. /\ ForkBases(chain, back) # {}
        /\ \E i \in chain.fin..Len(chain.blocks) : GetForkBase(chain, back) = chain.blocks[i]
    <3>1. /\ IsWindow(chain) /\ node.tip \in Ref
          /\ On(FinalizedHead(chain), node.tip)
      BY Opened
    <3> QED BY <1>2, <3>1, ForkBaseWorks, Zenon
  <2>2. back = prev
    BY <1>3
  <2> QED BY <2>1, <2>2
<1>5. PICK i \in chain.fin..Len(chain.blocks) : base = chain.blocks[i]
  BY <1>4
<1>6. base \in Block /\ base \in Ref
  <2>1. i \in 1..Len(chain.blocks)
    BY Opened, WindowSize
  <2>2. chain.blocks[i] \in Block /\ chain.blocks[i] \in Ref
    BY <2>1, Opened, WindowFacts
  <2> QED BY <1>5, <2>2
<1>7. ingest' = Session(in, base)
  <2>1. Forked(prev) = Session(in, base)
    BY <1>4, Zenon DEF Forked
  <2> QED BY <1>1, <2>1
<1> HIDE DEF prev, base
<1>8. in \in IngestState /\ in.fault = ingest.fault
  <2>1. 0 \in 0..(MaxStacked + 1)
    BY ServiceAssumption
  <2> QED BY <2>1, Opened DEF IngestState
<1> HIDE DEF in
<1>9. /\ (ingest \in IngestState)' /\ IngestSurvives'
      /\ ingest'.phase = "session" /\ ingest'.base = base /\ ingest'.pos = base
      /\ ingest'.told = Origin
  BY <1>6, <1>7, <1>8, FreshSession
<1>10. SessionFits'
  <2>1. /\ On(ingest'.told, node'.fin) /\ Comparable(ingest'.told, ingest'.pos)
    BY <1>1, <1>6, <1>9, Opened, OriginFits
  <2>2. chain' = chain
    BY <1>1
  <2> QED BY <1>5, <1>9, <2>1, <2>2 DEF SessionFits
<1> QED BY <1>1, <1>9, <1>10, SessionGoes

LEMMA StreamFailsGoes ==
    ASSUME ServiceInv, StreamFails
    PROVE  Goes
<1>1. /\ ingest.phase = "session" /\ ingest' = AfterFailure(ingest, chain)
      /\ UNCHANGED << node, chain, client >>
  BY DEF StreamFails
<1>2. ingest \in IngestState /\ LastBlock(chain) \in Block
  BY Opened
<1> DEFINE last == LastBlock(chain)
<1> HIDE DEF last
<1>3. CASE ~ ingest.started
  <2>1. ingest' = [ingest EXCEPT !.phase = "dead"]
    BY <1>1, <1>3 DEF AfterFailure
  <2>2. /\ ingest' \in IngestState /\ ingest'.phase = "dead"
        /\ ingest'.started = ingest.started /\ ingest'.fault = ingest.fault
    BY <1>2, <2>1 DEF IngestState
  <2>3. IngestSurvives' /\ SessionFits'
    BY <1>3, <2>2 DEF ServiceInv, IngestSurvives, SessionFits
  <2> QED BY <1>1, <2>2, <2>3, SessionGoes
<1>4. CASE ingest.started
  <2> DEFINE stacked == IF Number[last] # Number[ingest.base] THEN 0
                        ELSE IF ingest.stacked > MaxStacked THEN ingest.stacked
                        ELSE ingest.stacked + 1
  <2>1. ingest' = [ingest EXCEPT !.phase = "pause", !.stacked = stacked, !.base = last]
    BY <1>1, <1>4, Zenon DEF AfterFailure, last
  <2>2. stacked \in 0..(MaxStacked + 1)
    <3>1. MaxStacked \in Nat /\ ingest.stacked \in 0..(MaxStacked + 1)
      BY <1>2, ServiceAssumption DEF IngestState
    <3> QED BY <3>1
  <2> HIDE DEF stacked
  <2>3. /\ ingest' \in IngestState /\ ingest'.phase = "pause" /\ ingest'.base = last
        /\ ingest'.started = ingest.started /\ ingest'.fault = ingest.fault
    BY <1>2, <2>1, <2>2 DEF IngestState, last
  <2>4. IngestSurvives'
    BY <2>3 DEF ServiceInv, IngestSurvives
  <2>5. SessionFits'
    BY <1>1, <2>3 DEF SessionFits, last
  <2> QED BY <1>1, <2>3, <2>4, <2>5, SessionGoes
<1> QED BY <1>3, <1>4

LEMMA RestartGoes ==
    ASSUME ServiceInv, Restart
    PROVE  Goes
<1>1. ingest.phase = "pause" /\ UNCHANGED node
  BY DEF Restart
<1>2. ingest \in IngestState /\ ingest.base \in Block /\ node.fin \in Block
  BY Opened DEF IngestState
<1>3. CASE ingest.stacked > MaxStacked
  <2>1. /\ chain' = NewChain(node.fin)
        /\ client' = Notified(chain')
        /\ ingest' = Session(ingest, node.fin)
    BY <1>3 DEF Restart
  <2>2. /\ IsWindow(chain') /\ LastBlock(chain') = node.fin
        /\ FinalizedHead(chain') = node.fin
        /\ Len(chain'.blocks) = 1 /\ chain'.fin = 1 /\ chain'.blocks[1] = node.fin
    BY <1>2, <2>1, NewChainWorks
  <2>3. /\ (ingest \in IngestState)' /\ IngestSurvives'
        /\ ingest'.phase = "session" /\ ingest'.base = node.fin /\ ingest'.pos = node.fin
        /\ ingest'.told = Origin
    BY <1>2, <2>1, FreshSession
  <2>4. SessionFits'
    <3>1. On(ingest'.told, node'.fin) /\ Comparable(ingest'.told, ingest'.pos)
      BY <1>1, <2>3, Opened, OriginFits
    <3>2. \E i \in chain'.fin..Len(chain'.blocks) : chain'.blocks[i] = ingest'.pos
      BY <2>2, <2>3
    <3> QED BY <2>3, <3>1, <3>2 DEF SessionFits
  <2>5. WindowBounded'
    BY <2>2 DEF WindowBounded
  <2>6. /\ (client \in [Client -> ClientState])'
        /\ NoMissedBlock'
        /\ \A c \in Client : Comparable(client[c].at, client'[c].at)
    BY <2>1, <2>2, NotifiedFits
  <2>7. On(node.fin, node.fin) /\ On(FinalizedHead(chain), node.fin)
    BY Opened, AncestorReflexive
  <2>8. /\ (node \in [tip : Block, fin : Block, prior : Block])'
        /\ On(node'.fin, node'.tip)
        /\ On(FinalizedHead(chain'), node'.fin)
    <3>1. node \in [tip : Block, fin : Block, prior : Block] /\ On(node.fin, node.tip)
      BY Opened
    <3> QED BY <1>1, <2>2, <2>7, <3>1
  <2>9. ServiceInv'
    BY <2>2, <2>3, <2>4, <2>5, <2>6, <2>8, Closed
  <2> QED BY <2>2, <2>6, <2>7, <2>9 DEF Goes
<1>4. CASE ~(ingest.stacked > MaxStacked)
  <2>1. ingest' = Session(ingest, ingest.base) /\ UNCHANGED << node, chain, client >>
    BY <1>4 DEF Restart
  <2>2. /\ (ingest \in IngestState)' /\ IngestSurvives'
        /\ ingest'.phase = "session" /\ ingest'.base = ingest.base
        /\ ingest'.pos = ingest.base /\ ingest'.told = Origin
    BY <1>2, <2>1, FreshSession
  <2>3. SessionFits'
    <3>1. ingest.base = LastBlock(chain)
      BY <1>1 DEF ServiceInv, SessionFits
    <3>2. ingest.base \in Ref
      BY <1>2 DEF Ref
    <3>3. On(ingest'.told, node'.fin) /\ Comparable(ingest'.told, ingest'.pos)
      BY <2>1, <2>2, <3>2, Opened, OriginFits
    <3>4. \E i \in chain'.fin..Len(chain'.blocks) : chain'.blocks[i] = ingest'.pos
      <4>1. Len(chain.blocks) \in Nat /\ chain.fin \in 1..Len(chain.blocks)
        BY Opened, WindowFacts
      <4>2. Len(chain.blocks) \in chain.fin..Len(chain.blocks)
        BY <4>1
      <4>3. chain.blocks[Len(chain.blocks)] = ingest'.pos
        BY <2>2, <3>1 DEF LastBlock
      <4> QED BY <2>1, <4>2, <4>3
    <3> QED BY <2>2, <3>3, <3>4 DEF SessionFits
  <2> QED BY <2>1, <2>2, <2>3, SessionGoes
<1> QED BY <1>3, <1>4

\* The window stays: what is left is the client.
LEMMA ClientGoes ==
    ASSUME ServiceInv, UNCHANGED << node, chain, ingest >>, NEW c \in Client,
           NEW new \in ClientState, client' = [client EXCEPT ![c] = new],
           new.phase = "waiting" => Number[new.at] + 1 > Number[LastBlock(chain)],
           Comparable(client[c].at, new.at)
    PROVE  Goes
<1>1. /\ client \in [Client -> ClientState] /\ client[c] \in ClientState
      /\ (node \in [tip : Block, fin : Block, prior : Block])'
      /\ (ingest \in IngestState)'
      /\ IsWindow(chain') /\ On(node'.fin, node'.tip)
      /\ On(FinalizedHead(chain'), node'.fin)
  BY Opened
<1>2. (client \in [Client -> ClientState])'
  BY <1>1
<1>3. /\ client'[c] = new
      /\ \A d \in Client : d # c => client'[d] = client[d]
  BY <1>1
<1>4. NoMissedBlock'
  <2>1. SUFFICES ASSUME NEW d \in Client, client'[d].phase = "waiting"
                 PROVE  Number[client'[d].at] + 1 > Number[LastBlock(chain)]
    BY DEF NoMissedBlock
  <2>2. CASE d = c
    BY <1>3, <2>1, <2>2
  <2>3. CASE d # c
    BY <1>3, <2>1, <2>3 DEF ServiceInv, NoMissedBlock
  <2> QED BY <2>2, <2>3
<1>5. \A d \in Client : Comparable(client[d].at, client'[d].at)
  <2>1. \A d \in Client : On(client[d].at, client[d].at)
    BY <1>1, AncestorReflexive DEF ClientState
  <2> QED BY <1>3, <2>1 DEF Comparable
<1>6. WindowBounded' /\ IngestSurvives' /\ SessionFits'
  BY DEF ServiceInv, WindowBounded, IngestSurvives, SessionFits
<1>7. ServiceInv'
  BY <1>1, <1>2, <1>4, <1>6, Closed
<1> QED BY <1>5, <1>7, HeadStays DEF Goes

LEMMA BelowAnswers ==
    ASSUME ServiceInv, NEW at \in Ref
    PROVE  /\ Continues(BelowAnswer(at), at, LastBlock(chain))
           /\ BelowAnswer(at).kind # "nodata"
<1> DEFINE first == FirstBlock(chain)
           last == LastBlock(chain)
           data == [kind |-> "data", final |-> FinalizedHead(chain), refs |-> chain.blocks]
           refs == Previous(node.fin, at, 1)
           fork == [kind |-> "fork", final |-> Origin, refs |-> refs]
           answer == BelowAnswer(at)
<1>1. /\ first \in Ref /\ last \in Ref /\ FinalizedHead(chain) \in Ref /\ Origin \in Ref
      /\ last = chain.blocks[Len(chain.blocks)]
  BY Opened, WindowFacts DEF LastBlock, Ref
<1>2. On(first, last)
  <2>1. Len(chain.blocks) \in Nat \ {0}
    BY Opened, WindowFacts
  <2>2. 1 \in 1..Len(chain.blocks)
    BY <2>1
  <2> QED BY <2>2, Opened, WindowFacts DEF FirstBlock
<1>3. CASE On(at, first)
  <2>1. answer = data
    BY <1>3 DEF BelowAnswer
  <2> HIDE DEF answer, first, last
  <2>2. On(at, last)
    BY <1>1, <1>2, <1>3, AncestorTransitive
  <2>3. /\ answer.kind = "data" /\ answer.final = FinalizedHead(chain)
        /\ answer.refs = chain.blocks
    BY <2>1
  <2>4. Continues(answer, at, last) /\ answer.kind # "nodata"
    BY <1>1, <2>2, <2>3 DEF Continues
  <2> QED BY <2>4 DEF answer, last
<1>4. CASE ~ On(at, first)
  <2>1. answer = fork
    BY <1>4 DEF BelowAnswer
  <2> HIDE DEF answer, refs, last
  <2>2. answer.kind = "fork" /\ answer.final = Origin
    BY <2>1
  <2>3. Continues(answer, at, last) /\ answer.kind # "nodata"
    BY <1>1, <2>2 DEF Continues
  <2> QED BY <2>3 DEF answer, last
<1> QED BY <1>3, <1>4

\* An answer is taken in.
LEMMA AnswerGoes ==
    ASSUME ServiceInv, UNCHANGED << node, chain, ingest >>, NEW c \in Client, NEW answer,
           Continues(answer, client[c].at, LastBlock(chain)),
           client' = [client EXCEPT ![c] = Answered(c, answer)]
    PROVE  Goes
<1> DEFINE new == Answered(c, answer)
<1>1. client[c] \in ClientState /\ LastBlock(chain) \in Ref
  BY Opened
<1>2. new \in ClientState /\ new.phase = "idle" /\ Comparable(client[c].at, new.at)
  BY <1>1, AnsweredWorks
<1>3. client' = [client EXCEPT ![c] = new]
  OBVIOUS
<1> HIDE DEF new
<1> QED BY <1>2, <1>3, ClientGoes

LEMMA AskQueryGoes ==
    ASSUME ServiceInv, NEW c \in Client, AskQuery(c)
    PROVE  Goes
<1> DEFINE at == client[c].at
           low == Number[Parent(FirstBlock(chain))]
           answer == IF Number[at] + 1 <= low THEN BelowAnswer(at) ELSE Query(chain, at)
           last == LastBlock(chain)
<1>1. client[c] \in ClientState /\ at \in Ref /\ IsWindow(chain) /\ last \in Ref
  BY Opened DEF ClientState
<1>2. Number[at] \in Int /\ low \in Int
  <2>1. FirstBlock(chain) \in Block
    BY <1>1, WindowFacts
  <2>2. Parent(FirstBlock(chain)) \in Ref
    BY <2>1, ParentWorks
  <2> QED BY <1>1, <2>2, ChainAssumption
<1>3. /\ client' = [client EXCEPT ![c] =
                       IF answer.kind = "nodata" THEN [client[c] EXCEPT !.phase = "waiting"]
                       ELSE Answered(c, answer)]
      /\ UNCHANGED << node, chain, ingest >>
  BY Zenon DEF AskQuery
<1>4. /\ Continues(answer, at, last)
      /\ answer.kind = "nodata" => Number[at] + 1 > Number[last]
  <2>1. CASE Number[at] + 1 <= low
    <3>1. answer = BelowAnswer(at)
      BY <2>1
    <3> HIDE DEF answer, at, last
    <3>2. Continues(BelowAnswer(at), at, last) /\ BelowAnswer(at).kind # "nodata"
      BY <1>1, BelowAnswers DEF last
    <3> QED BY <3>1, <3>2
  <2>2. CASE ~(Number[at] + 1 <= low)
    <3>1. answer = Query(chain, at)
      BY <2>2
    <3> HIDE DEF answer, at, last
    <3>2. Number[at] + 1 > low
      <4> HIDE DEF low
      <4> QED BY <1>2, <2>2
    <3>3. /\ Continues(Query(chain, at), at, last)
          /\ Query(chain, at).kind = "nodata" => Number[at] + 1 > Number[last]
      BY <1>1, <3>2, QueryAnswers DEF last
    <3> QED BY <3>1, <3>3
  <2> QED BY <2>1, <2>2
<1> HIDE DEF answer, last
<1>5. CASE answer.kind = "nodata"
  <2> DEFINE new == [client[c] EXCEPT !.phase = "waiting"]
  <2>1. client' = [client EXCEPT ![c] = new]
    BY <1>3, <1>5
  <2>2. new \in ClientState /\ new.at = at
    BY <1>1 DEF ClientState
  <2>3. Comparable(client[c].at, new.at)
    <3>1. On(at, at)
      BY <1>1, AncestorReflexive
    <3> HIDE DEF new
    <3> QED BY <2>2, <3>1 DEF Comparable
  <2>4. Number[new.at] + 1 > Number[LastBlock(chain)]
    <3> HIDE DEF new
    <3> QED BY <1>4, <1>5, <2>2 DEF last
  <2> HIDE DEF new
  <2> QED BY <1>3, <2>1, <2>2, <2>3, <2>4, ClientGoes
<1>6. CASE answer.kind # "nodata"
  <2>1. client' = [client EXCEPT ![c] = Answered(c, answer)]
    BY <1>3, <1>6
  <2> QED BY <1>3, <1>4, <2>1, AnswerGoes DEF last
<1> QED BY <1>5, <1>6

LEMMA AnswerOrTimeoutGoes ==
    ASSUME ServiceInv, NEW c \in Client, Answer(c) \/ Timeout(c)
    PROVE  Goes
<1> DEFINE answer == Query(chain, client[c].at)
<1>1. UNCHANGED << node, chain, ingest >>
  BY DEF Answer, Timeout
<1>2. client' = [client EXCEPT ![c] = Answered(c, answer)]
  BY Zenon DEF Answer, Timeout
<1>3. Continues(answer, client[c].at, LastBlock(chain))
  <2>1. client[c].at \in Ref /\ IsWindow(chain)
    BY Opened DEF ClientState
  <2> QED BY <2>1, QueryAnswers
<1> HIDE DEF answer
<1> QED BY <1>1, <1>2, <1>3, AnswerGoes

------------------------------------------------------------------------------
(***************************************************************************)
(* The theorems.                                                            *)
(***************************************************************************)

LEMMA InitFits ==
    ASSUME Init
    PROVE  ServiceInv
<1>1. PICK b \in Block :
          /\ node = [tip |-> b, fin |-> b, prior |-> b]
          /\ chain = NewChain(b)
          /\ ingest = [phase |-> "session", base |-> b, pos |-> b, told |-> Origin,
                       stacked |-> 0, started |-> FALSE, fault |-> FALSE]
          /\ client = [c \in Client |-> [phase |-> "idle", at |-> b, final |-> b]]
  BY Zenon DEF Init
<1>2. /\ IsWindow(chain) /\ FinalizedHead(chain) = b /\ LastBlock(chain) = b
      /\ Len(chain.blocks) = 1 /\ chain.fin = 1 /\ chain.blocks[1] = b
  BY <1>1, NewChainWorks
<1>3. b \in Ref /\ Origin \in Ref
  BY DEF Ref
<1>4. On(b, b) /\ On(Origin, b) /\ Comparable(Origin, b)
  BY <1>3, AncestorReflexive, OriginFits
<1>5. ingest \in IngestState
  <2>1. 0 \in 0..(MaxStacked + 1)
    BY ServiceAssumption
  <2>2. TRUE \in BOOLEAN /\ FALSE \in BOOLEAN
    OBVIOUS
  <2> QED BY <1>1, <1>3, <2>1, <2>2, IngestRecord
<1>6. client \in [Client -> ClientState] /\ \A c \in Client : client[c].phase = "idle"
  <2> DEFINE idle == [phase |-> "idle", at |-> b, final |-> b]
  <2>1. idle \in ClientState /\ idle.phase = "idle"
    BY <1>3 DEF ClientState
  <2>2. client = [c \in Client |-> idle]
    BY <1>1
  <2> HIDE DEF idle
  <2> QED BY <2>1, <2>2
<1>7. node \in [tip : Block, fin : Block, prior : Block] /\ node.fin = b /\ node.tip = b
  BY <1>1
<1>8. /\ ingest.phase = "session" /\ ingest.pos = b /\ ingest.base = b
      /\ ingest.told = Origin /\ ingest.fault = FALSE
  BY <1>1
<1>9. TypeOK
  <2>1. /\ chain.blocks \in Seq(Block) /\ chain.fin \in 1..Len(chain.blocks)
        /\ \A i \in 1..Len(chain.blocks) : chain.blocks[i] \in Block
    BY <1>2, WindowFacts
  <2>2. DOMAIN chain.blocks = 1..Len(chain.blocks)
    BY <2>1
  <2> QED BY <1>5, <1>6, <1>7, <2>1, <2>2 DEF TypeOK, IngestState, ClientState
<1>10. SessionFits
  <2>1. \E i \in chain.fin..Len(chain.blocks) : chain.blocks[i] = ingest.pos
    BY <1>2, <1>8
  <2> QED BY <1>4, <1>7, <1>8, <2>1 DEF SessionFits
<1>11. WindowBounded /\ IngestSurvives /\ NoMissedBlock
  BY <1>2, <1>6, <1>8 DEF WindowBounded, IngestSurvives, NoMissedBlock
<1> QED BY <1>2, <1>4, <1>7, <1>9, <1>10, <1>11 DEF ServiceInv, FinalizedIsFinal

LEMMA StepGoes ==
    ASSUME ServiceInv, Trusted, [Next]_vars
    PROVE  Goes
<1>1. CASE NewBlock  BY <1>1, NewBlockGoes
<1>2. CASE Reorg  BY <1>2, ReorgGoes
<1>3. CASE NodeFinalizes  BY <1>3, NodeFinalizesGoes
<1>4. CASE ReplicasAgree  BY <1>4, ReplicasAgreeGoes
<1>5. ASSUME NEW r \in Ref, Deliver(r) \/ DeliverFinality(r)
      PROVE  Goes
  BY <1>5, DeliverGoes, DeliverFinalityGoes
<1>6. CASE StreamForks  BY <1>6, StreamForksGoes
<1>7. CASE StreamFails  BY <1>7, StreamFailsGoes
<1>8. CASE Restart  BY <1>8, RestartGoes
<1>9. ASSUME NEW c \in Client, AskQuery(c) \/ Answer(c) \/ Timeout(c)
      PROVE  Goes
  BY <1>9, AskQueryGoes, AnswerOrTimeoutGoes
<1>10. CASE UNCHANGED vars
  <2>1. UNCHANGED << node, chain, ingest, client >>
    BY <1>10 DEF vars
  <2>2. /\ (ingest \in IngestState)' /\ IngestSurvives' /\ SessionFits'
    <3>1. ingest \in IngestState
      BY Opened
    <3> QED BY <2>1, <3>1 DEF ServiceInv, IngestSurvives, SessionFits
  <2> QED BY <2>1, <2>2, SessionGoes
<1> QED BY <1>1, <1>2, <1>3, <1>4, <1>5, <1>6, <1>7, <1>8, <1>9, <1>10 DEF Next

\* The inductive invariant: the window is one chain whose finalized block is final for the
\* node, and the position of the stream is a block of it that may still be rolled back to.
THEOREM ServiceInvAlways ==
    ASSUME Trusted
    PROVE  Spec => []ServiceInv
<1>1. ServiceInv /\ [Next]_vars => ServiceInv'
  BY StepGoes DEF Goes
<1> QED BY <1>1, InitFits, PTL DEF Spec

\* Through forks, failed sessions, restarts and trimming, the window of a data service is
\* one chain, its finalized block is final for the node and no assertion of push() or
\* finalize() ends the ingestion.
THEOREM DataServiceIsSound ==
    ASSUME Trusted
    PROVE  Spec => []WindowIsSound
<1>1. ServiceInv => WindowIsSound
  <2>1. SUFFICES ASSUME ServiceInv
                 PROVE  WindowIsChain
    BY DEF ServiceInv, WindowIsSound
  <2>2. SUFFICES ASSUME NEW i \in 2..Len(chain.blocks)
                 PROVE  Parent(chain.blocks[i]) = chain.blocks[i - 1]
    BY DEF WindowIsChain
  <2>3. IsWindow(chain) /\ Len(chain.blocks) \in Nat
    BY <2>1, Opened, WindowFacts
  <2> DEFINE j == i - 1
  <2>4. j \in 1..Len(chain.blocks) /\ i \in 1..Len(chain.blocks) /\ j <= i /\ i = j + 1
    BY <2>3
  <2> HIDE DEF j
  <2>5. Parent(chain.blocks[i]) = chain.blocks[j]
    BY <2>3, <2>4, WindowOrder
  <2> QED BY <2>5 DEF j
<1> QED BY <1>1, ServiceInvAlways, PTL

\* No query waits for a block that is in the window: waitForBlock() and notifyListeners()
\* between them miss none.
THEOREM ServiceMissesNoBlock ==
    ASSUME Trusted
    PROVE  Spec => []NoMissedBlock
<1>1. ServiceInv => NoMissedBlock
  BY DEF ServiceInv
<1> QED BY <1>1, ServiceInvAlways, PTL

\* The finalized head of the service only moves up its own chain, over sessions, restarts
\* and finality reports that come late.
THEOREM ServiceFinalityMovesUp ==
    ASSUME Trusted
    PROVE  Spec => FinalityMovesUp
<1>1. ServiceInv /\ [Next]_vars
          => [On(FinalizedHead(chain), FinalizedHead(chain'))]_vars
  BY StepGoes DEF Goes
<1> QED BY <1>1, ServiceInvAlways, PTL DEF FinalityMovesUp, Spec

\* Whatever happens to the window between a request and its answer, a client is sent a
\* continuation of what it has, or sent back down its own chain.
THEOREM ServiceAnswersContinue ==
    ASSUME Trusted
    PROVE  Spec => AnswersContinue
<1>1. ServiceInv /\ [Next]_vars
          => [\A c \in Client : Comparable(client[c].at, client'[c].at)]_vars
  BY StepGoes DEF Goes
<1> QED BY <1>1, ServiceInvAlways, PTL DEF AnswersContinue, Spec
=============================================================================
