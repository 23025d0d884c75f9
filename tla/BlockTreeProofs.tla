--------------------------- MODULE BlockTreeProofs ---------------------------
(***************************************************************************)
(* What every proof about blocks needs: chains and their ancestors, and the  *)
(* facts about numbers and sequences that the library states in another     *)
(* form.                                                                    *)
(***************************************************************************)
EXTENDS BlockTree, SequenceTheorems, WellFoundedInduction, TLAPS

------------------------------------------------------------------------------
(***************************************************************************)
(* Chains.                                                                  *)
(***************************************************************************)

\* Heights are integers, and only Origin has none above it.
LEMMA HeightType ==
    ASSUME NEW r \in Ref
    PROVE  /\ Path[r] \in Seq(Block)
           /\ Len(Path[r]) \in Nat
           /\ Height(r) \in Int
           /\ r = Origin <=> Len(Path[r]) = 0
BY TreeAssumption DEF Height, Ref

\* The blocks of a chain and their own chains.
LEMMA PathBlocks ==
    ASSUME NEW t \in Ref, NEW i \in 1..Len(Path[t])
    PROVE  /\ Path[t][i] \in Block
           /\ Path[t][i] \in Ref
           /\ Len(Path[Path[t][i]]) = i
           /\ On(Path[t][i], t)
<1>1. Path[t] \in Seq(Block) /\ Len(Path[t]) \in Nat /\ Len(Path[t]) # 0
  BY HeightType
<1>2. t \in Block
  BY <1>1, HeightType DEF Ref
<1>3. Path[t][i] \in Block
  BY <1>1
<1>4. Path[Path[t][i]] = SubSeq(Path[t], 1, i)
  BY <1>2, TreeAssumption
<1>5. Len(SubSeq(Path[t], 1, i)) = i
  BY <1>1
<1>6. Path[t][i] \in Ref
  BY <1>3 DEF Ref
<1> QED BY <1>1, <1>3, <1>4, <1>5, <1>6 DEF On

\* The chain of an ancestor is a prefix of the chain.
LEMMA AncestorPath ==
    ASSUME NEW a \in Block, NEW c \in Ref, On(a, c)
    PROVE  \A i \in 1..Len(Path[a]) : Path[a][i] = Path[c][i]
<1>1. a # Origin /\ a \in Ref  BY TreeAssumption DEF Ref
<1>2. /\ Len(Path[a]) <= Len(Path[c])
      /\ Path[c][Len(Path[a])] = a
  BY <1>1 DEF On
<1>3. Len(Path[a]) > 0 /\ c \in Block
  BY <1>1, <1>2, HeightType, TreeAssumption DEF Ref
<1>4. Len(Path[a]) \in 1..Len(Path[c])
  BY <1>1, <1>2, <1>3, HeightType
<1>5. Path[a] = SubSeq(Path[c], 1, Len(Path[a]))
  BY <1>2, <1>3, <1>4, TreeAssumption
<1>6. Path[c] \in Seq(Block)  BY HeightType
<1>7. \A i \in 1..Len(Path[a]) : SubSeq(Path[c], 1, Len(Path[a]))[i] = Path[c][i]
  BY <1>4, <1>6
<1> QED BY <1>5, <1>7

\* An ancestor lies no higher.
LEMMA AncestorHeight ==
    ASSUME NEW a \in Ref, NEW c \in Ref, On(a, c)
    PROVE  Height(a) <= Height(c)
BY HeightType DEF On, Height

LEMMA AncestorReflexive ==
    ASSUME NEW a \in Ref
    PROVE  On(a, a)
BY TreeAssumption, HeightType DEF On, Ref

LEMMA AncestorTransitive ==
    ASSUME NEW a \in Ref, NEW b \in Ref, NEW c \in Ref, On(a, b), On(b, c)
    PROVE  On(a, c)
<1>1. CASE a = Origin  BY <1>1 DEF On
<1>2. CASE a # Origin
  <2>1. /\ Len(Path[a]) <= Len(Path[b])
        /\ Path[b][Len(Path[a])] = a
    BY <1>2 DEF On
  <2>2. Len(Path[a]) > 0 /\ b \in Block
    BY <1>2, <2>1, HeightType DEF Ref
  <2>3. Len(Path[b]) <= Len(Path[c])
    BY <2>2, TreeAssumption DEF On
  <2>4. Path[b][Len(Path[a])] = Path[c][Len(Path[a])]
    BY <2>1, <2>2, HeightType, AncestorPath
  <2> QED BY <2>1, <2>3, <2>4, HeightType DEF On
<1> QED BY <1>1, <1>2

\* Of two ancestors of a block the lower one is an ancestor of the other.
LEMMA AncestorLinear ==
    ASSUME NEW a \in Ref, NEW b \in Ref, NEW c \in Ref,
           On(a, c), On(b, c), Height(a) <= Height(b)
    PROVE  On(a, b)
<1>1. CASE a = Origin  BY <1>1 DEF On
<1>2. CASE a # Origin
  <2>1. Len(Path[a]) > 0 /\ Len(Path[a]) <= Len(Path[b])
    BY <1>2, HeightType DEF Height
  <2>2. b \in Block
    BY <2>1, HeightType DEF Ref
  <2>3. Path[b][Len(Path[a])] = Path[c][Len(Path[a])]
    BY <2>1, <2>2, HeightType, AncestorPath
  <2>4. Path[c][Len(Path[a])] = a
    BY <1>2 DEF On
  <2> QED BY <2>1, <2>3, <2>4 DEF On
<1> QED BY <1>1, <1>2

\* A chain has one block at a height.
LEMMA AncestorUnique ==
    ASSUME NEW a \in Ref, NEW b \in Ref, NEW c \in Ref,
           On(a, c), On(b, c), Height(a) = Height(b)
    PROVE  a = b
<1>1. Len(Path[a]) = Len(Path[b])
  BY HeightType DEF Height
<1>2. CASE a = Origin  BY <1>1, <1>2, HeightType
<1>3. CASE a # Origin
  <2>1. b # Origin  BY <1>1, <1>3, HeightType
  <2> QED BY <1>1, <1>3, <2>1 DEF On
<1> QED BY <1>2, <1>3

------------------------------------------------------------------------------
(***************************************************************************)
(* Numbers and sequences.                                                   *)
(***************************************************************************)

\* A set of naturals has a least one.
LEMMA LeastNatural ==
    ASSUME NEW T, T \subseteq Nat, T # {}
    PROVE  \E x \in T : \A y \in T : x <= y
<1> DEFINE R == OpToRel(<, Nat)
<1>1. IsWellFoundedOn(R, Nat)
  BY NatLessThanWellFounded
<1>2. \A x, y \in Nat : <<y, x>> \in R <=> y < x
  BY DEF OpToRel
<1> HIDE DEF R
<1>3. PICK x \in T : \A y \in T : ~(<<y, x>> \in R)
  BY <1>1, WFMin
<1>4. \A y \in T : ~(y < x)
  BY <1>2, <1>3
<1>5. x \in Nat /\ \A y \in T : y \in Nat
  OBVIOUS
<1> QED BY <1>4, <1>5, SMT

\* Whatever takes a set of naturals from each number to the next fills it.
LEMMA SetInduction ==
    ASSUME NEW T, 0 \in T, \A n \in Nat : n \in T => n + 1 \in T
    PROVE  Nat \subseteq T
<1> DEFINE U == {n \in Nat : n \notin T}
<1>1. SUFFICES ASSUME U # {}
               PROVE  FALSE
  OBVIOUS
<1>2. U \subseteq Nat
  OBVIOUS
<1> HIDE DEF U
<1>3. PICK x \in U : \A y \in U : x <= y
  BY <1>1, <1>2, LeastNatural
<1> USE DEF U
<1>4. x \in Nat /\ x # 0
  BY <1>3
<1>5. x - 1 \in Nat /\ x - 1 \notin U /\ (x - 1) + 1 = x
  BY <1>3, <1>4
<1> QED BY <1>3, <1>5

\* A concatenation, piece by piece.
LEMMA ConcatPieces ==
    ASSUME NEW S, NEW a \in Seq(S), NEW b \in Seq(S)
    PROVE  /\ a \o b \in Seq(S)
           /\ Len(a \o b) = Len(a) + Len(b)
           /\ \A i \in 1..Len(a) : (a \o b)[i] = a[i]
           /\ \A j \in 1..Len(b) : (a \o b)[Len(a) + j] = b[j]
<1>1. /\ a \o b \in Seq(S)
      /\ Len(a \o b) = Len(a) + Len(b)
      /\ \A i \in 1..Len(a) + Len(b) :
             (a \o b)[i] = IF i <= Len(a) THEN a[i] ELSE b[i - Len(a)]
  BY ConcatProperties
<1>2. Len(a) \in Nat /\ Len(b) \in Nat
  OBVIOUS
<1>3. \A j \in 1..Len(b) : /\ Len(a) + j \in 1..Len(a) + Len(b)
                           /\ ~(Len(a) + j <= Len(a))
                           /\ (Len(a) + j) - Len(a) = j
  BY <1>2
<1>4. \A i \in 1..Len(a) : i \in 1..Len(a) + Len(b) /\ i <= Len(a)
  BY <1>2
<1> QED BY <1>1, <1>3, <1>4

=============================================================================
