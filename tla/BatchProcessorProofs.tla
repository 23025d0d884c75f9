------------------------ MODULE BatchProcessorProofs ------------------------
(***************************************************************************)
(* Proofs about BatchProcessor, for every tree of blocks, every number of    *)
(* processes on the same tables, every node that follows a longest chain     *)
(* and every bound on reorganizations, crashes and aborted transactions, as  *)
(* long as no batch is grouped.                                              *)
(***************************************************************************)
EXTENDS BatchProcessor, TypeormDatabaseProofs

\* walk[n] is what comes of applying step to start n times.
Iterates(walk, S, start, step, last) ==
    /\ walk \in [0..last -> S]
    /\ walk[0] = start
    /\ \A n \in 1..last : walk[n] = step[walk[n - 1]]

\* A function can be applied to a value as often as one likes.
LEMMA IterationExists ==
    ASSUME NEW S, NEW start \in S, NEW Do \in [S -> S], NEW Last \in Nat
    PROVE  \E g : Iterates(g, S, start, Do, Last)
<1> DEFINE Good(g, m) == g[0] = start /\ \A n \in 1..Last : n <= m => g[n] = Do[g[n - 1]]
           T == {m \in Nat : \E g \in [0..Last -> S] : Good(g, m)}
<1>1. 0 \in T
  <2> DEFINE g == [n \in 0..Last |-> start]
  <2>1. g \in [0..Last -> S] /\ Good(g, 0)
    OBVIOUS
  <2> QED BY <2>1
<1>2. ASSUME NEW m \in Nat, m \in T
      PROVE  m + 1 \in T
  <2>1. PICK g \in [0..Last -> S] : Good(g, m)
    BY <1>2
  <2> DEFINE h == [n \in 0..Last |-> IF n = m + 1 THEN Do[g[m]] ELSE g[n]]
  <2>2. CASE m + 1 \in 0..Last
    <3>1. h \in [0..Last -> S]
      BY <2>1, <2>2
    <3>2. Good(h, m + 1)
      BY <2>1, <2>2
    <3> HIDE DEF h, Good
    <3> QED BY <3>1, <3>2
  <2>3. CASE m + 1 \notin 0..Last
    <3>1. Good(g, m + 1)
      BY <2>1, <2>3
    <3> QED BY <2>1, <3>1
  <2> QED BY <2>2, <2>3
<1>3. Last \in T
  <2> HIDE DEF T
  <2> QED BY <1>1, <1>2, SetInduction
<1> QED BY <1>3 DEF Iterates

------------------------------------------------------------------------------
(***************************************************************************)
(* The walk of findRollbackIndex().                                         *)
(***************************************************************************)
WalkState == [i : Nat \ {0}, j : Nat \ {0}, last : Nat]

WalkStart == [i |-> 1, j |-> 1, last |-> 0]

\* A step of the walk is a round of the loop.
LEMMA StepIsRound ==
    ASSUME NEW chain, NEW fork, NEW at
    PROVE  WalkStep(chain, fork, at) = WalkRound(chain, fork, at)
<1> DEFINE next == WalkRound(chain, fork, at)
<1>1. {WalkRound(chain, fork, from) : from \in {at}} = {next}
  <2> HIDE DEF next
  <2>1. \A from \in {at} : WalkRound(chain, fork, from) = next
    BY DEF next
  <2> QED BY <2>1
<1> HIDE DEF next
<1>2. (CHOOSE x \in {next} : TRUE) = next
  OBVIOUS
<1> QED BY <1>1, <1>2 DEF WalkStep, next

\* A step of the walk keeps its counters in range.
LEMMA WalkStepType ==
    ASSUME NEW chain \in Seq(Block), NEW fork \in Seq(Block), NEW at \in WalkState
    PROVE  WalkStep(chain, fork, at) \in WalkState
<1> DEFINE a == Height(chain[at.i])
           b == Height(fork[at.j])
           same == chain[at.i] = fork[at.j]
<1>1. at.i \in Nat \ {0} /\ at.j \in Nat \ {0} /\ at.last \in Nat
  BY DEF WalkState
<1>2. at.i + 1 \in Nat \ {0} /\ at.j + 1 \in Nat \ {0}
  BY <1>1
<1>3. [at EXCEPT !.j = @ + 1] \in WalkState
  BY <1>1, <1>2 DEF WalkState
<1>4. [at EXCEPT !.i = @ + 1] \in WalkState
  BY <1>1, <1>2 DEF WalkState
<1>5. [i |-> at.i + 1, j |-> at.j + 1, last |-> at.i] \in WalkState
  BY <1>1, <1>2 DEF WalkState
<1> QED BY <1>3, <1>4, <1>5, StepIsRound DEF WalkRound

\* The walk is the iteration of its step.
LEMMA WalkWorks ==
    ASSUME NEW chain \in Seq(Block), NEW fork \in Seq(Block)
    PROVE  \E walk \in [0..(Len(chain) + Len(fork)) -> WalkState] :
               /\ walk[0] = WalkStart
               /\ \A n \in 1..(Len(chain) + Len(fork)) :
                      walk[n] = WalkStep(chain, fork, walk[n - 1])
               /\ FindRollbackIndex(chain, fork) = walk[Len(chain) + Len(fork)].last
<1> DEFINE N == Len(chain) + Len(fork)
           F == [at \in WalkState |-> WalkStep(chain, fork, at)]
           Rounds(g) == [n \in 0..N |-> IF n = 0 THEN WalkStart
                                        ELSE WalkStep(chain, fork, g[n - 1])]
           walk == CHOOSE g : g = Rounds(g)
<1>1. N \in Nat
  OBVIOUS
<1>2. F \in [WalkState -> WalkState]
  BY WalkStepType
<1>3. WalkStart \in WalkState
  BY DEF WalkStart, WalkState
<1>4. PICK g \in [0..N -> WalkState] :
          /\ g[0] = WalkStart
          /\ \A n \in 1..N : g[n] = F[g[n - 1]]
  <2> HIDE DEF F, N, Rounds, walk
  <2>1. PICK g : Iterates(g, WalkState, WalkStart, F, N)
    BY <1>1, <1>2, <1>3, IterationExists
  <2> QED BY <2>1 DEF Iterates
<1>5. \A n \in 1..N : n - 1 \in 0..N /\ g[n - 1] \in WalkState
  BY <1>1, <1>4
<1>6. g = Rounds(g)
  <2> DEFINE body(n) == IF n = 0 THEN WalkStart ELSE WalkStep(chain, fork, g[n - 1])
  <2>1. ASSUME NEW n \in 0..N
        PROVE  g[n] = body(n)
    <3>1. CASE n = 0
      BY <1>4, <3>1
    <3>2. CASE n # 0
      <4>1. n \in 1..N
        BY <1>1, <3>2
      <4>2. F[g[n - 1]] = WalkStep(chain, fork, g[n - 1])
        BY <1>5, <4>1
      <4> QED BY <1>4, <3>2, <4>1, <4>2
    <3> QED BY <3>1, <3>2
  <2> HIDE DEF body, N
  <2>2. g = [n \in 0..N |-> g[n]]
    BY <1>4
  <2>3. g = [n \in 0..N |-> body(n)]
    BY <2>1, <2>2
  <2> QED BY <2>3 DEF body, N
<1> HIDE DEF F, N
<1>7. walk = Rounds(walk)
  <2> HIDE DEF Rounds
  <2> QED BY <1>6
<1>8. FindRollbackIndex(chain, fork) = walk[N].last
  BY Zenon DEF FindRollbackIndex, N, WalkStart
<1> HIDE DEF walk
<1>9. DOMAIN walk = 0..N
  <2> DEFINE body(n) == IF n = 0 THEN WalkStart ELSE WalkStep(chain, fork, walk[n - 1])
  <2>1. walk = [n \in 0..N |-> body(n)]
    BY <1>7
  <2> HIDE DEF body
  <2> QED BY <2>1, Zenon
<1>10. walk[0] = WalkStart /\ \A n \in 1..N : walk[n] = WalkStep(chain, fork, walk[n - 1])
  <2> DEFINE body(n) == IF n = 0 THEN WalkStart ELSE WalkStep(chain, fork, walk[n - 1])
  <2>1. walk = [n \in 0..N |-> body(n)]
    BY <1>7
  <2>2. \A n \in 0..N : walk[n] = body(n)
    <3> HIDE DEF body
    <3> QED BY <2>1
  <2> QED BY <1>1, <2>2
<1> DEFINE T == {n \in Nat : n \in 0..N => walk[n] \in WalkState}
<1>11. 0 \in T
  BY <1>3, <1>10
<1>12. ASSUME NEW n \in Nat, n \in T
       PROVE  n + 1 \in T
  <2>1. CASE n + 1 \in 0..N
    <3>1. n \in 0..N /\ n + 1 \in 1..N /\ (n + 1) - 1 = n
      BY <1>1, <2>1
    <3>2. walk[n] \in WalkState
      BY <1>12, <3>1
    <3>3. walk[n + 1] = WalkStep(chain, fork, walk[n])
      BY <1>10, <3>1
    <3> QED BY <3>2, <3>3, WalkStepType
  <2> QED BY <2>1
<1>13. \A n \in 0..N : walk[n] \in WalkState
  <2>1. Nat \subseteq T
    <3> HIDE DEF T
    <3> QED BY <1>11, <1>12, SetInduction
  <2> QED BY <1>1, <2>1
<1>14. walk \in [0..N -> WalkState]
  <2>1. walk = [n \in 0..N |-> walk[n]]
    BY <1>7, <1>9
  <2> QED BY <1>13, <2>1
<1> QED BY <1>8, <1>10, <1>14 DEF N

\* The rounds of the walk.
LEMMA WalkStepCases ==
    ASSUME NEW chain \in Seq(Block), NEW fork \in Seq(Block), NEW at \in WalkState
    PROVE  LET next == WalkStep(chain, fork, at)
               a    == chain[at.i]
               b    == fork[at.j]
           IN  /\ next \in WalkState
               /\ \/ /\ at.i > Len(chain) \/ at.j > Len(fork)
                     /\ next = at
                  \/ /\ at.i \in 1..Len(chain) /\ at.j \in 1..Len(fork)
                     /\ a \in Block /\ b \in Block
                     /\ \/ /\ Height(a) > Height(b)
                           /\ next.i = at.i /\ next.j = at.j + 1 /\ next.last = at.last
                        \/ /\ Height(a) < Height(b)
                           /\ next.i = at.i + 1 /\ next.j = at.j /\ next.last = at.last
                        \/ /\ a = b
                           /\ next.i = at.i + 1 /\ next.j = at.j + 1 /\ next.last = at.i
                        \/ /\ Height(a) = Height(b) /\ a # b
                           /\ next = at
<1> DEFINE next == WalkStep(chain, fork, at)
           a    == chain[at.i]
           b    == fork[at.j]
<1>1. /\ at.i \in Nat \ {0} /\ at.j \in Nat \ {0} /\ at.last \in Nat
      /\ at = [i |-> at.i, j |-> at.j, last |-> at.last]
  BY DEF WalkState
<1>2. next \in WalkState
  BY WalkStepType
<1>3. CASE at.i > Len(chain) \/ at.j > Len(fork)
  <2>1. next = at
    BY <1>3, StepIsRound, Zenon DEF WalkRound
  <2> QED BY <1>2, <1>3, <2>1
<1>4. CASE ~(at.i > Len(chain) \/ at.j > Len(fork))
  <2>1. at.i \in 1..Len(chain) /\ at.j \in 1..Len(fork)
    BY <1>1, <1>4
  <2>2. a \in Block /\ b \in Block
    BY <2>1
  <2>3. Height(a) \in Int /\ Height(b) \in Int
    BY <2>2, HeightType DEF Ref
  <2>4. next = CASE Height(a) > Height(b) -> [at EXCEPT !.j = @ + 1]
                 [] Height(a) < Height(b) -> [at EXCEPT !.i = @ + 1]
                 [] a = b -> [i |-> at.i + 1, j |-> at.j + 1, last |-> at.i]
                 [] OTHER -> at
    BY <1>4, StepIsRound, Zenon DEF WalkRound
  <2>5. /\ [at EXCEPT !.j = @ + 1] = [i |-> at.i, j |-> at.j + 1, last |-> at.last]
        /\ [at EXCEPT !.i = @ + 1] = [i |-> at.i + 1, j |-> at.j, last |-> at.last]
    BY <1>1
  <2> HIDE DEF next, a, b
  <2>6. CASE Height(a) > Height(b)
    <3>1. ~(Height(a) < Height(b)) /\ a # b
      BY <2>3, <2>6
    <3>2. next = [i |-> at.i, j |-> at.j + 1, last |-> at.last]
      BY <2>4, <2>5, <2>6, <3>1
    <3> QED BY <1>2, <2>1, <2>2, <2>6, <3>2 DEF next, a, b
  <2>7. CASE Height(a) < Height(b)
    <3>1. ~(Height(a) > Height(b)) /\ a # b
      BY <2>3, <2>7
    <3>2. next = [i |-> at.i + 1, j |-> at.j, last |-> at.last]
      BY <2>4, <2>5, <2>7, <3>1
    <3> QED BY <1>2, <2>1, <2>2, <2>7, <3>2 DEF next, a, b
  <2>8. CASE a = b
    <3>1. ~(Height(a) > Height(b)) /\ ~(Height(a) < Height(b))
      BY <2>3, <2>8
    <3>2. next = [i |-> at.i + 1, j |-> at.j + 1, last |-> at.i]
      BY <2>4, <2>8, <3>1
    <3> QED BY <1>2, <2>1, <2>2, <2>8, <3>2 DEF next, a, b
  <2>9. CASE Height(a) = Height(b) /\ a # b
    <3>1. ~(Height(a) > Height(b)) /\ ~(Height(a) < Height(b))
      BY <2>3, <2>9
    <3>2. next = at
      BY <2>4, <2>9, <3>1
    <3> QED BY <1>2, <2>1, <2>2, <2>9, <3>2 DEF next, a, b
  <2> QED BY <2>3, <2>6, <2>7, <2>8, <2>9
<1> QED BY <1>3, <1>4

\* The answer is where the walk comes to rest, and what every round preserves
\* holds there.
LEMMA WalkReaches ==
    ASSUME NEW chain \in Seq(Block), NEW fork \in Seq(Block), NEW T,
           WalkStart \in T,
           \A at \in WalkState : at \in T => WalkStep(chain, fork, at) \in T
    PROVE  \E at \in WalkState :
               /\ at \in T
               /\ WalkStep(chain, fork, at) = at
               /\ FindRollbackIndex(chain, fork) = at.last
<1> DEFINE N == Len(chain) + Len(fork)
           Step(at) == WalkStep(chain, fork, at)
<1>1. N \in Nat
  OBVIOUS
<1>2. PICK walk \in [0..N -> WalkState] :
          /\ walk[0] = WalkStart
          /\ \A n \in 1..N : walk[n] = Step(walk[n - 1])
          /\ FindRollbackIndex(chain, fork) = walk[N].last
  BY WalkWorks
<1> HIDE DEF N
<1> DEFINE Rest(n) == Step(walk[n]) = walk[n] \/ walk[n].i + walk[n].j >= n + 2
           U == {n \in Nat : n \in 0..N => walk[n] \in T /\ Rest(n)}
<1>3. 0 \in U
  <2>1. walk[0].i + walk[0].j >= 0 + 2
    BY <1>2 DEF WalkStart
  <2> QED BY <1>2, <2>1
<1>4. ASSUME NEW n \in Nat, n \in U, n + 1 \in 0..N
      PROVE  walk[n + 1] \in T /\ Rest(n + 1)
  <2> DEFINE at == walk[n]
  <2>1. n \in 0..N /\ n + 1 \in 1..N /\ (n + 1) - 1 = n
    BY <1>1, <1>4
  <2>2. at \in WalkState /\ at \in T /\ Rest(n)
    BY <1>2, <1>4, <2>1
  <2>3. walk[n + 1] = Step(at)
    BY <1>2, <2>1
  <2> HIDE DEF Step
  <2>4. walk[n + 1] \in T
    BY <2>2, <2>3 DEF Step
  <2>5. CASE Step(at) = at
    BY <2>3, <2>4, <2>5
  <2>6. CASE Step(at) # at
    <3>1. at.i + at.j >= n + 2
      BY <2>2, <2>6
    <3>2. at.i \in Nat /\ at.j \in Nat
      BY <2>2 DEF WalkState
    <3>3. Step(at).i + Step(at).j >= at.i + at.j + 1
      <4> HIDE DEF at
      <4>1. \/ Step(at).i = at.i /\ Step(at).j = at.j + 1
            \/ Step(at).i = at.i + 1 /\ Step(at).j = at.j
            \/ Step(at).i = at.i + 1 /\ Step(at).j = at.j + 1
        BY <2>2, <2>6, WalkStepCases DEF Step
      <4> QED BY <3>2, <4>1
    <3>4. Step(at).i \in Nat /\ Step(at).j \in Nat
      BY <2>2, WalkStepType DEF WalkState, Step
    <3>5. walk[n + 1].i + walk[n + 1].j >= (n + 1) + 2
      BY <2>3, <3>1, <3>2, <3>3, <3>4
    <3> QED BY <2>4, <3>5
  <2> QED BY <2>5, <2>6
<1>5. N \in U
  <2>1. \A n \in Nat : n \in U => n + 1 \in U
    BY <1>4
  <2> HIDE DEF U
  <2> QED BY <1>1, <1>3, <2>1, SetInduction
<1> DEFINE end == walk[N]
<1>6. end \in WalkState /\ end \in T /\ Rest(N)
  BY <1>1, <1>2, <1>5
<1>7. Step(end) = end
  <2>1. CASE end.i + end.j >= N + 2
    <3>1. end.i \in Nat /\ end.j \in Nat
      BY <1>6 DEF WalkState
    <3>2. end.i > Len(chain) \/ end.j > Len(fork)
      BY <2>1, <3>1 DEF N
    <3> HIDE DEF end
    <3> QED BY <3>2, StepIsRound DEF WalkRound
  <2> QED BY <1>6, <2>1
<1> QED BY <1>2, <1>6, <1>7

\* The block the walk ends at is one of the fork, and higher than every block that
\* comes before it in the chain, ordered or not.
LEMMA WalkResult ==
    ASSUME NEW chain \in Seq(Block), NEW fork \in Seq(Block), Ascending(fork)
    PROVE  LET w == FindRollbackIndex(chain, fork)
           IN  /\ w \in 0..Len(chain)
               /\ w # 0 => /\ \E j \in 1..Len(fork) : fork[j] = chain[w]
                           /\ \A k \in 1..(w - 1) : Height(chain[k]) < Height(chain[w])
<1> DEFINE Shared(w) ==
               /\ w \in 1..Len(chain)
               /\ \E j \in 1..Len(fork) : fork[j] = chain[w]
               /\ \A k \in 1..(w - 1) : Height(chain[k]) < Height(chain[w])
           Below(i, j) ==
               j <= Len(fork) => \A k \in 1..Len(chain) :
                                     k < i => Height(chain[k]) < Height(fork[j])
           T == {at \in WalkState : /\ at.last = 0 \/ Shared(at.last)
                                    /\ Below(at.i, at.j)}
<1>1. WalkStart \in T
  BY DEF WalkStart, WalkState
<1>2. /\ \A k \in 1..Len(chain) : chain[k] \in Block /\ Height(chain[k]) \in Int
      /\ \A j \in 1..Len(fork) : fork[j] \in Block /\ Height(fork[j]) \in Int
  BY HeightType DEF Ref
<1>3. ASSUME NEW at \in WalkState, at \in T
      PROVE  WalkStep(chain, fork, at) \in T
  <2> DEFINE next == WalkStep(chain, fork, at)
  <2>1. /\ at.i \in Nat \ {0} /\ at.j \in Nat \ {0} /\ at.last \in Nat
        /\ at.last = 0 \/ Shared(at.last)
        /\ Below(at.i, at.j)
    BY <1>3 DEF WalkState
  <2>2. next \in WalkState
    BY WalkStepType
  <2> HIDE DEF next
  <2>3. CASE next = at
    BY <1>3, <2>3 DEF next
  <2>4. CASE /\ at.i \in 1..Len(chain) /\ at.j \in 1..Len(fork)
             /\ Height(chain[at.i]) > Height(fork[at.j])
             /\ next.i = at.i /\ next.j = at.j + 1 /\ next.last = at.last
    <3>1. Below(at.i, at.j + 1)
      <4>1. SUFFICES ASSUME at.j + 1 <= Len(fork), NEW k \in 1..Len(chain), k < at.i
                     PROVE  Height(chain[k]) < Height(fork[at.j + 1])
        OBVIOUS
      <4>2. Height(chain[k]) < Height(fork[at.j])
        BY <2>1, <2>4, <4>1
      <4>3. Height(fork[at.j]) < Height(fork[at.j + 1])
        BY <2>1, <2>4, <4>1 DEF Ascending
      <4>4. at.j + 1 \in 1..Len(fork)
        BY <2>1, <4>1
      <4> QED BY <1>2, <2>4, <4>2, <4>3, <4>4
    <3> QED BY <2>1, <2>2, <2>4, <3>1 DEF next
  <2>5. CASE /\ at.i \in 1..Len(chain) /\ at.j \in 1..Len(fork)
             /\ Height(chain[at.i]) < Height(fork[at.j])
             /\ next.i = at.i + 1 /\ next.j = at.j /\ next.last = at.last
    <3>1. Below(at.i + 1, at.j)
      <4>1. SUFFICES ASSUME NEW k \in 1..Len(chain), k < at.i + 1
                     PROVE  Height(chain[k]) < Height(fork[at.j])
        OBVIOUS
      <4>2. k < at.i \/ k = at.i
        BY <2>1, <4>1
      <4> QED BY <2>1, <2>5, <4>2
    <3> QED BY <2>1, <2>2, <2>5, <3>1 DEF next
  <2>6. CASE /\ at.i \in 1..Len(chain) /\ at.j \in 1..Len(fork)
             /\ chain[at.i] = fork[at.j]
             /\ next.i = at.i + 1 /\ next.j = at.j + 1 /\ next.last = at.i
    <3>1. Shared(at.i)
      <4>1. \A k \in 1..(at.i - 1) : k \in 1..Len(chain) /\ k < at.i
        BY <2>6
      <4>2. at.j <= Len(fork)
        BY <2>6
      <4> QED BY <2>1, <2>6, <4>1, <4>2
    <3>2. Below(at.i + 1, at.j + 1)
      <4>1. SUFFICES ASSUME at.j + 1 <= Len(fork), NEW k \in 1..Len(chain), k < at.i + 1
                     PROVE  Height(chain[k]) < Height(fork[at.j + 1])
        OBVIOUS
      <4>2. Height(fork[at.j]) < Height(fork[at.j + 1])
        BY <2>1, <2>6, <4>1 DEF Ascending
      <4>3. k < at.i \/ k = at.i
        BY <2>1, <4>1
      <4>4. Height(chain[k]) <= Height(fork[at.j])
        BY <1>2, <2>1, <2>6, <4>3
      <4>5. at.j + 1 \in 1..Len(fork)
        BY <2>1, <4>1
      <4> QED BY <1>2, <2>6, <4>2, <4>4, <4>5
    <3> QED BY <2>2, <2>6, <3>1, <3>2 DEF next
  <2> QED
    <3> HIDE DEF T
    <3> QED BY <2>3, <2>4, <2>5, <2>6, WalkStepCases DEF next
<1>4. PICK at \in WalkState :
          /\ at \in T
          /\ FindRollbackIndex(chain, fork) = at.last
  <2> HIDE DEF T
  <2> QED BY <1>1, <1>3, WalkReaches
<1> QED BY <1>4

------------------------------------------------------------------------------
(***************************************************************************)
(* Batches and what is left of them.                                        *)
(***************************************************************************)

\* What a source delivers on top of a base is one chain above it.
LEMMA DeliveryFacts ==
    ASSUME NEW base \in Ref, NEW s \in Deliveries(base) \cup {<< >>}
    PROVE  /\ s \in Seq(Block)
           /\ Len(s) \in Nat
           /\ LastOf(base, s) \in Ref
           /\ On(base, LastOf(base, s))
           /\ Ascending(s)
           /\ \A i \in 1..Len(s) : /\ s[i] \in Block /\ s[i] \in Ref
                                   /\ On(s[i], LastOf(base, s))
                                   /\ Height(s[i]) > Height(base)
           /\ s \in Deliveries(base) => s # << >>
           /\ s # << >> => Len(s) > 0 /\ LastOf(base, s) = s[Len(s)]
<1>1. CASE s = << >>
  <2>1. LastOf(base, s) = base /\ Len(s) = 0 /\ s \in Seq(Block)
    BY <1>1 DEF LastOf
  <2>2. s \notin Deliveries(base)
    BY <1>1, SegmentAssumption DEF Deliveries
  <2> QED BY <1>1, <2>1, <2>2, AncestorReflexive DEF Ascending
<1>2. CASE s \in Deliveries(base)
  <2>1. PICK x \in Segment : x.base = base /\ s = x.blocks
    BY <1>2 DEF Deliveries
  <2>2. /\ s \in Seq(Block) /\ Len(s) > 0
        /\ On(base, Tip(x))
        /\ Ascending(s)
        /\ \A i \in 1..Len(s) : On(s[i], Tip(x)) /\ Height(s[i]) > Height(base)
    BY <2>1, SegmentAssumption
  <2>3. Tip(x) = s[Len(s)]
    BY <2>1 DEF Tip
  <2>4. s # << >> /\ Len(s) \in Nat
    BY <2>2
  <2>5. LastOf(base, s) = s[Len(s)]
    BY <2>4 DEF LastOf
  <2>6. \A i \in 1..Len(s) : s[i] \in Block /\ s[i] \in Ref
    BY <2>2 DEF Ref
  <2> QED BY <2>2, <2>3, <2>4, <2>5, <2>6
<1> QED BY <1>1, <1>2

\* The last block of two batches is that of the second one, if it has any.
LEMMA LastOfConcat ==
    ASSUME NEW r, NEW a \in Seq(Block), NEW b \in Seq(Block)
    PROVE  LastOf(r, a \o b) = LastOf(LastOf(r, a), b)
<1>1. /\ a \o b \in Seq(Block) /\ Len(a \o b) = Len(a) + Len(b)
      /\ \A i \in 1..Len(a) : (a \o b)[i] = a[i]
      /\ \A j \in 1..Len(b) : (a \o b)[Len(a) + j] = b[j]
  BY ConcatPieces
<1>2. CASE b = << >>
  <2>1. a \o b = a
    BY <1>2
  <2> QED BY <1>2, <2>1 DEF LastOf
<1>3. CASE b # << >>
  <2>1. Len(b) \in 1..Len(b) /\ Len(a) \in Nat
    BY <1>3
  <2>2. (a \o b)[Len(a) + Len(b)] = b[Len(b)]
    BY <1>1, <2>1
  <2>3. a \o b # << >>
    BY <1>1, <2>1
  <2> QED BY <1>1, <1>3, <2>2, <2>3 DEF LastOf
<1> QED BY <1>2, <1>3

\* A sequence that does not rise above a height is counted in full.
LEMMA CountUpToAll ==
    ASSUME NEW s \in Seq(Block), NEW h \in Int, \A i \in 1..Len(s) : Height(s[i]) <= h
    PROVE  CountUpTo(s, h) = Len(s)
<1>1. /\ CountUpTo(s, h) \in 0..Len(s)
      /\ CountUpTo(s, h) < Len(s) => Height(s[CountUpTo(s, h) + 1]) > h
  BY CountUpToWorks
<1>2. ASSUME CountUpTo(s, h) < Len(s)
      PROVE  FALSE
  <2>1. CountUpTo(s, h) + 1 \in 1..Len(s)
    BY <1>1, <1>2
  <2>2. Height(s[CountUpTo(s, h) + 1]) \in Int
    BY <2>1, HeightType DEF Ref
  <2> QED BY <1>1, <1>2, <2>1, <2>2
<1> QED BY <1>1, <1>2

\* Every block of a batch that is not finalized has a slice of its own.
LEMMA SliceHeadsWork ==
    ASSUME Ungrouped, NEW tx, tx.base \in Ref, tx.final \in Ref,
           tx.blocks \in Deliveries(tx.base) \cup {<< >>}
    PROVE  LET u == CountUpTo(tx.blocks, Height(tx.final))
           IN  /\ u \in 0..Len(tx.blocks)
               /\ SliceHeads(tx) \in Seq(Block)
               /\ Len(SliceHeads(tx)) = Len(tx.blocks) - u
               /\ \A j \in 1..(Len(tx.blocks) - u) : SliceHeads(tx)[j] = tx.blocks[u + j]
<1> DEFINE s == tx.blocks
           u == CountUpTo(s, Height(tx.final))
           rows == HotRows(s, u, 0)
<1>1. s \in Seq(Block) /\ Height(tx.final) \in Int
  BY DeliveryFacts, HeightType
<1>2. u \in 0..Len(s)
  BY <1>1, CountUpToWorks
<1>3. Len(s) < 2 * GroupDivisor
  <2>1. CASE s = << >>
    BY <2>1, DatabaseAssumption
  <2>2. CASE s \in Deliveries(tx.base)
    BY <2>2 DEF Ungrouped, Deliveries
  <2> QED BY <2>1, <2>2
<1> HIDE DEF s, u
<1>4. /\ rows \in Seq(HotRow)
      /\ Len(rows) = Len(s) - u
      /\ \A j \in 1..(Len(s) - u) : rows[j] = [ref |-> s[u + j], undo |-> 0 + u + j - 1]
  <2>1. 0 \in Nat
    OBVIOUS
  <2> QED BY <1>1, <1>2, <1>3, <2>1, UngroupedRows, Zenon
<1>5. /\ Refs(rows) \in Seq(Block)
      /\ Len(Refs(rows)) = Len(rows)
      /\ \A i \in 1..Len(rows) : Refs(rows)[i] = rows[i].ref
  BY <1>4, RefsType
<1>6. SliceHeads(tx) = Refs(rows)
  BY DEF SliceHeads, s, u
<1> HIDE DEF rows
<1>7. ASSUME NEW j \in 1..(Len(s) - u)
      PROVE  Refs(rows)[j] = s[u + j]
  <2>1. rows[j].ref = s[u + j]
    BY <1>4
  <2> QED BY <1>4, <1>5, <2>1
<1> QED BY <1>2, <1>4, <1>5, <1>6, <1>7 DEF s, u

------------------------------------------------------------------------------
(***************************************************************************)
(* A process after its transaction.                                         *)
(***************************************************************************)

\* A hot transaction leaves in memory some of the heads that were there and some
\* blocks of the batch, none of them at random, and moves the head to the end of
\* the batch.
LEMMA HotCommitMemory ==
    ASSUME Ungrouped, NEW s \in ProcessorState, s.hot, NEW d, NEW n,
           MemoryIsChain(s, n), TransactionFits(s, d)
    PROVE  LET t     == AfterCommit(s)
               final == IF s.tx.final = Origin THEN s.final ELSE s.tx.final
               cut   == CountUpTo(s.heads, Height(final))
               u     == CountUpTo(s.tx.blocks, Height(s.tx.final))
           IN  /\ t = [s EXCEPT !.phase = "run", !.tx = NoTx, !.final = final,
                                !.heads = t.heads]
               /\ t.heads \in Seq(Block)
               /\ StateHead(t) = LastOf(s.tx.base, s.tx.blocks)
               /\ \A i \in 1..Len(t.heads) :
                      \/ \E k \in (cut + 1)..Len(s.heads) : t.heads[i] = s.heads[k]
                      \/ \E j \in (u + 1)..Len(s.tx.blocks) : t.heads[i] = s.tx.blocks[j]
<1> DEFINE tx     == s.tx
           base   == tx.base
           blocks == tx.blocks
           last   == LastOf(base, blocks)
           final  == IF tx.final = Origin THEN s.final ELSE tx.final
           cut    == CountUpTo(s.heads, Height(final))
           u      == CountUpTo(blocks, Height(tx.final))
           H      == SubSeq(s.heads, cut + 1, Len(s.heads))
           K      == H \o tx.slices \o SliceHeads(tx)
           t      == AfterCommit(s)
<1>1. /\ s.final \in Ref /\ s.heads \in Seq(Block) /\ tx \in TxState
      /\ base \in Ref /\ tx.final \in Ref /\ tx.slices \in Seq(Block)
  BY DEF ProcessorState, TxState
<1>2. /\ base = StateHead(s)
      /\ blocks \in Deliveries(base) \cup {<< >>}
      /\ On(tx.final, last) /\ Height(s.final) <= Height(tx.final)
      /\ \A i \in 1..Len(tx.slices) :
             \E j \in (u + 1)..Len(blocks) : tx.slices[i] = blocks[j]
  BY DEF TransactionFits
<1>0. /\ blocks \in Seq(Block) /\ Len(blocks) \in Nat
      /\ last \in Ref /\ Height(last) \in Int /\ On(base, last)
      /\ \A i \in 1..Len(blocks) : Height(blocks[i]) > Height(base)
      /\ blocks # << >> => Len(blocks) > 0 /\ last = blocks[Len(blocks)]
  <2>1. base \in Ref /\ blocks \in Deliveries(base) \cup {<< >>}
    BY <1>1, <1>2
  <2> QED BY <2>1, DeliveryFacts, HeightType
<1>3. /\ u \in 0..Len(blocks)
      /\ SliceHeads(tx) \in Seq(Block)
      /\ Len(SliceHeads(tx)) = Len(blocks) - u
      /\ \A j \in 1..(Len(blocks) - u) : SliceHeads(tx)[j] = blocks[u + j]
  BY <1>1, <1>2, SliceHeadsWork
<1>4. final \in Ref /\ Height(final) \in Int /\ Height(s.final) <= Height(final)
  BY <1>1, <1>2, HeightType
<1>5. cut \in 0..Len(s.heads)
  BY <1>1, <1>4, CountUpToWorks
<1>6. t = [s EXCEPT !.phase = "run", !.tx = NoTx, !.final = final, !.heads = K]
  BY Zenon DEF AfterCommit
<1> HIDE DEF t
<1>7. t = [s EXCEPT !.phase = "run", !.tx = NoTx, !.final = final, !.heads = t.heads]
      /\ t.heads = K /\ t.final = final
  <2> HIDE DEF K, final
  <2> QED BY <1>6 DEF ProcessorState
<1>8. /\ H \in Seq(Block) /\ Len(H) = Len(s.heads) - cut
      /\ \A i \in 1..Len(H) : H[i] = s.heads[cut + i]
  BY <1>1, <1>5
<1> DEFINE G == H \o tx.slices
<1>9. G \in Seq(Block) /\ K \in Seq(Block)
  <2> HIDE DEF H
  <2> QED BY <1>1, <1>3, <1>8
<1>10. ASSUME NEW i \in 1..Len(K)
       PROVE  \/ \E k \in (cut + 1)..Len(s.heads) : K[i] = s.heads[k]
              \/ \E j \in (u + 1)..Len(blocks) : K[i] = blocks[j]
  <2> HIDE DEF H, u, cut
  <2>1. /\ Len(K) = Len(G) + Len(SliceHeads(tx))
        /\ \A x \in 1..Len(G) : K[x] = G[x]
        /\ \A x \in 1..Len(SliceHeads(tx)) : K[Len(G) + x] = SliceHeads(tx)[x]
    <3> DEFINE S == SliceHeads(tx)
    <3>1. K = G \o S /\ G \in Seq(Block) /\ S \in Seq(Block)
      BY <1>3, <1>9
    <3> HIDE DEF K, G, S
    <3>2. /\ Len(K) = Len(G) + Len(S)
          /\ \A x \in 1..Len(G) : K[x] = G[x]
          /\ \A x \in 1..Len(S) : K[Len(G) + x] = S[x]
      BY <3>1, ConcatPieces
    <3> QED BY <3>2 DEF S
  <2>2. /\ Len(G) = Len(H) + Len(tx.slices)
        /\ \A x \in 1..Len(H) : G[x] = H[x]
        /\ \A x \in 1..Len(tx.slices) : G[Len(H) + x] = tx.slices[x]
    <3>1. G = H \o tx.slices
      OBVIOUS
    <3> HIDE DEF G
    <3> QED BY <1>1, <1>8, <3>1, ConcatPieces, ZenonT(60)
  <2>3. Len(G) \in Nat /\ Len(H) \in Nat /\ Len(tx.slices) \in Nat /\ Len(K) \in Nat
        /\ Len(s.heads) \in Nat /\ Len(blocks) \in Nat
    <3> HIDE DEF G, K
    <3> QED BY <1>0, <1>1, <1>8, <1>9
  <2> HIDE DEF G, K, tx, blocks, base
  <2>4. CASE i <= Len(H)
    <3>1. i \in 1..Len(H) /\ i \in 1..Len(G)
      BY <2>2, <2>3, <2>4
    <3>2. K[i] = s.heads[cut + i]
      BY <1>8, <2>1, <2>2, <3>1
    <3>3. cut + i \in (cut + 1)..Len(s.heads)
      BY <1>5, <1>8, <2>3, <3>1
    <3> QED BY <3>2, <3>3
  <2>5. CASE Len(H) < i /\ i <= Len(G)
    <3>1. i \in 1..Len(G) /\ i - Len(H) \in 1..Len(tx.slices) /\ Len(H) + (i - Len(H)) = i
      BY <2>2, <2>3, <2>5
    <3>2. K[i] = tx.slices[i - Len(H)]
      BY <2>1, <2>2, <3>1
    <3> QED BY <1>2, <3>1, <3>2
  <2>6. CASE Len(G) < i
    <3>1. i - Len(G) \in 1..(Len(blocks) - u) /\ Len(G) + (i - Len(G)) = i
      BY <1>3, <2>1, <2>3, <2>6
    <3>2. K[i] = blocks[u + (i - Len(G))]
      BY <1>3, <2>1, <3>1
    <3>3. u + (i - Len(G)) \in (u + 1)..Len(blocks)
      BY <1>3, <2>3, <3>1
    <3> QED BY <3>2, <3>3
  <2> QED BY <2>3, <2>4, <2>5, <2>6
<1>11. LastOf(final, K) = last
  <2>1. LastOf(final, K) = LastOf(LastOf(final, G), SliceHeads(tx))
    BY <1>3, <1>9, LastOfConcat
  <2>2. LastOf(final, G) = LastOf(LastOf(final, H), tx.slices)
    BY <1>1, <1>8, LastOfConcat, ZenonT(60)
  <2> HIDE DEF K, G, t
  <2>3. CASE u < Len(blocks)
    <3>1. Len(blocks) \in Nat /\ last = blocks[Len(blocks)]
      BY <1>0, <1>3, <2>3
    <3>2. Len(blocks) - u \in 1..(Len(blocks) - u) /\ u + (Len(blocks) - u) = Len(blocks)
      BY <1>3, <2>3, <3>1
    <3>3. SliceHeads(tx)[Len(SliceHeads(tx))] = last /\ SliceHeads(tx) # << >>
      BY <1>3, <3>1, <3>2
    <3> QED BY <2>1, <3>3 DEF LastOf
  <2>4. CASE u = Len(blocks)
    <3>1. SliceHeads(tx) = << >>
      BY <1>0, <1>3, <2>4
    <3>2. tx.slices = << >>
      <4>1. (u + 1)..Len(blocks) = {}
        BY <1>0, <2>4
      <4>2. ~(1 \in 1..Len(tx.slices))
        BY <1>2, <4>1
      <4> QED BY <1>1, <4>2
    <3>3. LastOf(final, K) = LastOf(final, H)
      BY <2>1, <2>2, <3>1, <3>2 DEF LastOf
    <3> HIDE DEF u
    <3>4. LastOf(final, H) = last
      <4>1. /\ s.heads # << >> => Len(s.heads) > 0 /\ base = s.heads[Len(s.heads)]
            /\ s.heads = << >> => base = s.final
        BY <1>1, <1>2 DEF StateHead, LastOf
      <4>2. CASE H # << >>
        \* What is kept in memory ends in the base: nothing is on top of it.
        <5>1. s.heads # << >> /\ cut < Len(s.heads)
          BY <1>1, <1>5, <1>8, <4>2
        <5>2. LastOf(final, H) = base
          <6>1. Len(H) \in 1..Len(H) /\ cut + Len(H) = Len(s.heads)
            BY <1>1, <1>5, <1>8, <5>1
          <6>2. H[Len(H)] = base
            BY <1>8, <4>1, <5>1, <6>1
          <6> QED BY <4>2, <6>2 DEF LastOf
        <5>3. blocks = << >>
          <6>1. SUFFICES ASSUME blocks # << >>
                         PROVE  FALSE
            OBVIOUS
          <6>2. Len(blocks) \in 1..u /\ last = blocks[Len(blocks)]
            BY <1>0, <2>4, <6>1
          <6>3. Height(last) <= Height(tx.final) /\ Height(base) < Height(last)
            <7>1. Height(tx.final) \in Int
              BY <1>1, HeightType
            <7>2. \A i \in 1..u : Height(blocks[i]) <= Height(tx.final)
              BY <1>0, <7>1, CountUpToWorks DEF u
            <7>3. Len(blocks) \in 1..Len(blocks)
              BY <1>0, <6>1
            <7>4. Height(last) > Height(base)
              BY <1>0, <6>2, <7>3
            <7>5. Height(base) \in Int
              BY <1>1, HeightType
            <7> QED BY <1>0, <6>2, <7>2, <7>4, <7>5
          <6>4. tx.final = final
            <7>1. tx.final # Origin
              <8>1. Height(Origin) = -1 /\ Height(base) >= -1
                BY <1>1, HeightType DEF Height, Ref
              <8>2. Height(last) \in Int /\ Height(base) \in Int
                BY <1>0, <1>1, HeightType
              <8> QED BY <6>3, <8>1, <8>2
            <7> QED BY <7>1
          <6>5. \A i \in 1..Len(s.heads) : Height(s.heads[i]) <= Height(final)
            <7>1. ASSUME NEW i \in 1..Len(s.heads)
                  PROVE  Height(s.heads[i]) <= Height(final)
              <8>1. s.heads[i] \in Ref /\ On(s.heads[i], base)
                BY <1>1, <1>2 DEF MemoryIsChain, Ref
              <8>2. Height(s.heads[i]) <= Height(base)
                BY <1>1, <8>1, AncestorHeight
              <8>3. Height(s.heads[i]) \in Int /\ Height(base) \in Int /\ Height(last) \in Int
                BY <1>1, <1>2, <1>0, <8>1, HeightType
              <8> QED BY <1>4, <6>3, <6>4, <8>2, <8>3
            <7> QED BY <7>1
          <6>6. cut = Len(s.heads)
            BY <1>1, <1>4, <6>5, CountUpToAll
          <6> QED BY <5>1, <6>6
        <5> QED BY <5>2, <5>3 DEF LastOf
      <4>3. CASE H = << >>
        \* Nothing is kept: the finalized head is the end of the batch.
        <5>1. LastOf(final, H) = final
          BY <4>3 DEF LastOf
        <5>2. On(final, last)
          <6>1. On(s.final, base)
            BY <1>2 DEF MemoryIsChain
          <6>2. On(s.final, last)
            BY <1>0, <1>1, <6>1, AncestorTransitive
          <6> QED BY <1>2, <6>2
        <5>3. Height(last) <= Height(final)
          <6>1. CASE blocks # << >>
            <7>1. Len(blocks) \in 1..u /\ last = blocks[Len(blocks)]
              BY <1>0, <2>4, <6>1
            <7>2. Height(last) <= Height(tx.final)
              BY <1>0, <1>1, <7>1, CountUpToWorks, HeightType DEF u
            <7>3. Height(tx.final) <= Height(final)
              <8>1. CASE tx.final = Origin
                <9>1. Height(Origin) = -1 /\ Height(s.final) >= -1
                  BY <1>1, HeightType DEF Height, Ref
                <9> QED BY <8>1, <9>1
              <8>2. CASE tx.final # Origin
                BY <1>4, <8>2
              <8> QED BY <8>1, <8>2
            <7>4. Height(last) \in Int /\ Height(tx.final) \in Int
              BY <1>0, <1>1, HeightType
            <7> QED BY <1>4, <7>2, <7>3, <7>4
          <6>2. CASE blocks = << >>
            <7>1. last = base
              BY <6>2 DEF LastOf
            <7>2. CASE s.heads = << >>
              BY <1>4, <4>1, <7>1, <7>2
            <7>3. CASE s.heads # << >>
              <8>1. cut = Len(s.heads) /\ Len(s.heads) \in 1..cut
                <9> HIDE DEF H
                <9>1. Len(H) = 0 /\ Len(s.heads) \in Nat /\ Len(s.heads) > 0
                  BY <1>1, <4>3, <7>3
                <9> HIDE DEF cut
                <9> QED BY <1>5, <1>8, <9>1
              <8>2. Height(s.heads[Len(s.heads)]) <= Height(final)
                BY <1>1, <1>4, <8>1, CountUpToWorks
              <8> QED BY <4>1, <7>1, <7>3, <8>2
            <7> QED BY <7>2, <7>3
          <6> QED BY <6>1, <6>2
        <5>4. last \in Ref /\ On(last, last) /\ Height(final) <= Height(last)
              /\ Height(last) \in Int
          BY <1>0, <1>4, <5>2, AncestorReflexive, AncestorHeight, HeightType
        <5>5. Height(final) = Height(last)
          BY <1>4, <5>3, <5>4
        <5> QED BY <1>4, <5>1, <5>2, <5>4, <5>5, AncestorUnique
      <4> QED BY <4>2, <4>3
    <3> QED BY <3>3, <3>4
  <2> QED BY <1>0, <1>3, <2>3, <2>4
<1>12. StateHead(t) = last
  <2> HIDE DEF K, final, last
  <2> QED BY <1>7, <1>11 DEF StateHead
<1> HIDE DEF K, H
<1> QED BY <1>7, <1>9, <1>10, <1>12 DEF t

\* The stream of a process and where it stands.
LEMMA StreamFacts ==
    ASSUME NEW s \in ProcessorState, NEW n, n.tip \in Ref,
           MemoryIsChain(s, n), StreamContinues(s, n),
           s.phase = "tx" => /\ s.tx.base = StateHead(s)
                             /\ s.tx.blocks \in Deliveries(s.tx.base) \cup {<< >>}
    PROVE  /\ StateHead(s) \in Ref
           /\ BatchBase(s) \in Ref
           /\ On(StateHead(s), BatchBase(s))
           /\ On(BatchBase(s), s.stream.pos)
           /\ s.stream.pos \in Ref
           /\ Height(BatchBase(s)) <= Height(n.tip)
<1>1. StateHead(s) \in Ref
  <2>1. s.final \in Ref /\ s.heads \in Seq(Block)
    BY DEF ProcessorState
  <2> QED BY <2>1 DEF StateHead, LastOf, Ref
<1>2. BatchBase(s) \in Ref /\ On(StateHead(s), BatchBase(s))
  <2>1. CASE s.phase = "tx"
    BY <1>1, <2>1, DeliveryFacts DEF BatchBase
  <2>2. CASE s.phase # "tx"
    BY <1>1, <2>2, AncestorReflexive DEF BatchBase
  <2> QED BY <2>1, <2>2
<1>3. s.stream.pos \in Ref /\ On(BatchBase(s), s.stream.pos)
  BY <1>2, DeliveryFacts DEF StreamContinues
<1>4. Height(BatchBase(s)) <= Height(s.stream.pos)
  BY <1>2, <1>3, AncestorHeight
<1>5. Height(s.stream.pos) <= Height(n.tip)
  BY DEF StreamContinues
<1>6. Height(BatchBase(s)) \in Int /\ Height(s.stream.pos) \in Int /\ Height(n.tip) \in Int
  BY <1>2, <1>3, HeightType
<1> QED BY <1>1, <1>2, <1>3, <1>4, <1>5, <1>6

\* The memory of a process is one chain after the transaction, too, and the
\* stream still continues it.
LEMMA CommitFits ==
    ASSUME Ungrouped, NEW s \in ProcessorState, s.phase = "tx", NEW d, NEW n, n.tip \in Ref,
           MemoryIsChain(s, n), StreamContinues(s, n), TransactionFits(s, d), NEW e
    PROVE  /\ AfterCommit(s) \in ProcessorState
           /\ AfterCommit(s).phase = "run"
           /\ ProcessFits(AfterCommit(s), e, n)
<1> DEFINE t    == AfterCommit(s)
           base == s.tx.base
           last == LastOf(base, s.tx.blocks)
<1>1. /\ s.final \in Ref /\ s.heads \in Seq(Block) /\ s.hot \in BOOLEAN
      /\ s.tx \in TxState /\ base \in Ref /\ s.tx.final \in Ref
  BY DEF ProcessorState, TxState
<1>2. /\ base = StateHead(s)
      /\ s.tx.blocks \in Deliveries(base) \cup {<< >>}
      /\ s.hot => On(s.tx.final, last)
  BY DEF TransactionFits
<1>3. /\ last \in Ref /\ On(base, last)
      /\ \A j \in 1..Len(s.tx.blocks) : On(s.tx.blocks[j], last)
  BY <1>1, <1>2, DeliveryFacts
<1>4. BatchBase(s) = last
  BY DEF BatchBase
<1>5. Height(last) <= Height(n.tip)
  BY <1>2, <1>4, StreamFacts
<1>6. NoTx \in TxState
  BY ProcessorAssumption DEF NoTx, TxState, Ref
<1>7. /\ t.phase = "run" /\ t.stream = s.stream /\ t.hot = s.hot
      /\ t.final \in Ref /\ t.heads \in Seq(Block)
      /\ t \in ProcessorState
      /\ StateHead(t) = last
      /\ On(t.final, last)
      /\ \A i \in 1..Len(t.heads) : On(t.heads[i], last)
  <2>1. CASE s.hot
    <3> DEFINE final == IF s.tx.final = Origin THEN s.final ELSE s.tx.final
               cut   == CountUpTo(s.heads, Height(final))
               u     == CountUpTo(s.tx.blocks, Height(s.tx.final))
    <3>1. /\ t = [s EXCEPT !.phase = "run", !.tx = NoTx, !.final = final,
                           !.heads = t.heads]
          /\ t.heads \in Seq(Block)
          /\ StateHead(t) = last
          /\ \A i \in 1..Len(t.heads) :
                 \/ \E k \in (cut + 1)..Len(s.heads) : t.heads[i] = s.heads[k]
                 \/ \E j \in (u + 1)..Len(s.tx.blocks) : t.heads[i] = s.tx.blocks[j]
      BY <2>1, HotCommitMemory
    <3> DEFINE heads == t.heads
    <3> HIDE DEF t, heads
    <3>2. t = [s EXCEPT !.phase = "run", !.tx = NoTx, !.final = final, !.heads = heads]
      BY <3>1 DEF heads
    <3>3. final \in Ref
      BY <1>1
    <3>4. On(final, last)
      <4>1. On(s.final, base)
        BY <1>2 DEF MemoryIsChain
      <4>2. On(s.final, last)
        BY <1>1, <1>3, <4>1, AncestorTransitive
      <4> QED BY <1>2, <2>1, <4>2
    <3>5. cut \in 0..Len(s.heads) /\ u \in 0..Len(s.tx.blocks)
      <4>1. s.tx.blocks \in Seq(Block)
        BY <1>1 DEF TxState
      <4> QED BY <1>1, <3>3, <4>1, CountUpToWorks, HeightType
    <3>6. ASSUME NEW i \in 1..Len(t.heads)
          PROVE  On(t.heads[i], last)
      <4>1. CASE \E k \in (cut + 1)..Len(s.heads) : t.heads[i] = s.heads[k]
        <5>1. PICK k \in 1..Len(s.heads) : t.heads[i] = s.heads[k]
          BY <3>5, <4>1
        <5>2. On(s.heads[k], base) /\ s.heads[k] \in Ref
          BY <1>1, <1>2, <5>1 DEF MemoryIsChain, Ref
        <5> QED BY <1>1, <1>3, <5>1, <5>2, AncestorTransitive
      <4>2. CASE \E j \in (u + 1)..Len(s.tx.blocks) : t.heads[i] = s.tx.blocks[j]
        <5>1. PICK j \in 1..Len(s.tx.blocks) : t.heads[i] = s.tx.blocks[j]
          BY <3>5, <4>2
        <5> QED BY <1>3, <5>1
      <4> QED BY <3>1, <4>1, <4>2
    <3> HIDE DEF final, last
    <3>7. heads \in Seq(Block)
      BY <3>1 DEF heads
    <3>8. /\ t.phase = "run" /\ t.stream = s.stream /\ t.hot = s.hot /\ t.final = final
          /\ t.heads = heads /\ t \in ProcessorState
      BY <1>6, <3>2, <3>3, <3>7 DEF ProcessorState
    <3> QED BY <3>1, <3>3, <3>4, <3>6, <3>8
  <2>2. CASE ~s.hot
    <3>1. t = [s EXCEPT !.phase = "run", !.tx = NoTx, !.final = last, !.heads = << >>]
      BY <2>2, Zenon DEF AfterCommit
    <3> DEFINE none == << >>
    <3>4. none \in Seq(Block)
      OBVIOUS
    <3> HIDE DEF t, last, none
    <3>5. t = [s EXCEPT !.phase = "run", !.tx = NoTx, !.final = last, !.heads = none]
      BY <3>1 DEF none
    <3>6. /\ t.phase = "run" /\ t.stream = s.stream /\ t.hot = s.hot /\ t.final = last
          /\ t.heads = none /\ t \in ProcessorState
      BY <1>3, <1>6, <3>4, <3>5 DEF ProcessorState
    <3>2. t.heads = << >>
      BY <3>6 DEF none
    <3>3. StateHead(t) = last
      BY <3>2, <3>6 DEF StateHead, LastOf
    <3> QED BY <1>3, <3>2, <3>3, <3>6, AncestorReflexive
  <2> QED BY <1>1, <2>1, <2>2
<1> HIDE DEF t, last
<1>8. MemoryIsChain(t, n)
  BY <1>5, <1>7 DEF MemoryIsChain
<1>9. BatchBase(t) = BatchBase(s)
  BY <1>4, <1>7 DEF BatchBase
<1>10. StreamContinues(t, n)
  BY <1>7, <1>9 DEF StreamContinues
<1> QED BY <1>7, <1>8, <1>10 DEF ProcessFits, t

------------------------------------------------------------------------------
(***************************************************************************)
(* A process while others act.                                              *)
(***************************************************************************)

\* The node moves on: its tip no lower, its finalized block up its own chain.
LEMMA FitsNode ==
    ASSUME NEW s \in ProcessorState, NEW d, NEW n, NEW m, ProcessFits(s, d, n),
           n.tip \in Ref, m.tip \in Ref, n.fin \in Ref, m.fin \in Ref,
           Height(n.tip) <= Height(m.tip), On(n.fin, m.fin)
    PROVE  ProcessFits(s, d, m)
<1>1. SUFFICES ASSUME s.phase # "down"
               PROVE  /\ MemoryIsChain(s, m)
                      /\ StreamContinues(s, m)
  BY DEF ProcessFits
<1>2. /\ MemoryIsChain(s, n) /\ StreamContinues(s, n)
      /\ s.phase = "tx" => TransactionFits(s, d)
  BY <1>1 DEF ProcessFits
<1>3. Height(n.tip) \in Int /\ Height(m.tip) \in Int
  BY HeightType
<1>4. s.phase = "tx" => /\ s.tx.base = StateHead(s)
                        /\ s.tx.blocks \in Deliveries(s.tx.base) \cup {<< >>}
  BY <1>2 DEF TransactionFits
<1>5. StateHead(s) \in Ref /\ s.stream.pos \in Ref /\ s.stream.final \in Ref
  <2>1. s.stream.final \in Ref
    BY DEF ProcessorState, StreamState
  <2> QED BY <1>2, <1>4, <2>1, StreamFacts
<1>6. Height(StateHead(s)) \in Int /\ Height(s.stream.pos) \in Int
  BY <1>5, HeightType
<1>7. MemoryIsChain(s, m)
  <2>1. Height(StateHead(s)) <= Height(m.tip)
    BY <1>2, <1>3, <1>6 DEF MemoryIsChain
  <2> QED BY <1>2, <2>1 DEF MemoryIsChain
<1>8. StreamContinues(s, m)
  <2>1. Height(s.stream.pos) <= Height(m.tip)
    BY <1>2, <1>3, <1>6 DEF StreamContinues
  <2>2. On(s.stream.final, m.fin)
    BY <1>2, <1>5, AncestorTransitive DEF StreamContinues
  <2> QED BY <1>2, <2>1, <2>2 DEF StreamContinues
<1> QED BY <1>7, <1>8

\* The assertions are about the status row and the hot rows.
LEMMA SameFault ==
    ASSUME NEW d, NEW e, e.status = d.status, e.hot = d.hot, NEW hot \in BOOLEAN, NEW tx
    PROVE  TxFault(e, hot, tx) = TxFault(d, hot, tx)
<1>1. Positions(e) = Positions(d) /\ \A k : RefAt(e, k) = RefAt(d, k)
  BY DEF Positions, RefAt
<1>2. \A r : IsBase(e, r) <=> IsBase(d, r)
  BY <1>1 DEF IsBase
<1>3. \A info : TransactHot2Asserts(e, info) <=> TransactHot2Asserts(d, info)
  BY <1>2 DEF TransactHot2Asserts
<1>4. \A info : TransactAsserts(e, info) <=> TransactAsserts(d, info)
  BY DEF TransactAsserts
<1> QED BY <1>2, <1>3, <1>4, Zenon DEF TxFault

\* Others commit, or repair the registry.
LEMMA FitsTables ==
    ASSUME NEW s \in ProcessorState, NEW d, NEW e, NEW n, ProcessFits(s, d, n),
           d.nonce \in Nat, e.nonce \in Nat,
           \/ e.nonce > d.nonce
           \/ e.nonce = d.nonce /\ e.status = d.status /\ e.hot = d.hot
    PROVE  ProcessFits(s, e, n)
<1>1. SUFFICES ASSUME s.phase = "tx"
               PROVE  TransactionFits(s, e)
  BY DEF ProcessFits
<1>2. TransactionFits(s, d) /\ s.tx.nonce \in Nat /\ s.hot \in BOOLEAN
  BY <1>1 DEF ProcessFits, ProcessorState, TxState
<1>3. s.tx.nonce <= d.nonce
  BY <1>2 DEF TransactionFits
<1>4. s.tx.nonce <= e.nonce
  BY <1>2, <1>3
<1>5. s.tx.nonce = e.nonce => TxFault(e, s.hot, s.tx) = "none"
  <2>1. CASE e.nonce > d.nonce
    BY <1>2, <1>3, <2>1
  <2>2. CASE e.nonce = d.nonce /\ e.status = d.status /\ e.hot = d.hot
    <3>1. TxFault(e, s.hot, s.tx) = TxFault(d, s.hot, s.tx)
      BY <1>2, <2>2, SameFault
    <3> QED BY <1>2, <2>2, <3>1 DEF TransactionFits
  <2> QED BY <2>1, <2>2
<1> QED BY <1>2, <1>4, <1>5 DEF TransactionFits

------------------------------------------------------------------------------
(***************************************************************************)
(* A process and its own steps.                                             *)
(***************************************************************************)
\* A process that is not running fits any tables and any node.
LEMMA DownFits ==
    ASSUME NEW fault \in Faults, NEW hot \in BOOLEAN, NEW d, NEW n
    PROVE  /\ Down(fault, hot) \in ProcessorState
           /\ Down(fault, hot).phase = "down"
           /\ Down(fault, hot).hot = hot
           /\ Down(fault, hot).fault = fault
           /\ ProcessFits(Down(fault, hot), d, n)
<1>1. NoTx \in TxState /\ NoStream \in StreamState
  BY ProcessorAssumption DEF NoTx, TxState, NoStream, StreamState, Ref
<1>2. Origin \in Ref /\ << >> \in Seq(Block)
  BY DEF Ref
<1> QED BY <1>1, <1>2 DEF Down, ProcessorState, ProcessFits

\* A new stream starts from the head in memory.
LEMMA OpenStreamFits ==
    ASSUME NEW s \in ProcessorState, s.phase = "run", NEW d, NEW n,
           n.tip \in Ref, n.fin \in Ref, MemoryIsChain(s, n)
    PROVE  LET t == OpenStream(s)
           IN  /\ t \in ProcessorState
               /\ t.phase = "run" /\ t.fault = s.fault /\ t.hot = s.hot
               /\ t.final = s.final /\ t.heads = s.heads
               /\ t.stream = [NoStream EXCEPT !.pos = StateHead(s)]
               /\ ProcessFits(t, d, n)
<1> DEFINE t == OpenStream(s)
           stream == [NoStream EXCEPT !.pos = StateHead(s)]
<1>1. s.final \in Ref /\ s.heads \in Seq(Block)
  BY DEF ProcessorState
<1>2. StateHead(s) \in Ref
  BY <1>1 DEF StateHead, LastOf, Ref
<1>3. ASSUME NEW r \in Ref
      PROVE  /\ [NoStream EXCEPT !.pos = r] \in StreamState
             /\ [NoStream EXCEPT !.pos = r].pos = r
             /\ [NoStream EXCEPT !.pos = r].blocks = << >>
             /\ [NoStream EXCEPT !.pos = r].final = Origin
             /\ [NoStream EXCEPT !.pos = r].fork = << >>
  <2>1. NoStream \in StreamState
    BY DEF NoStream, StreamState, Ref
  <2>2. [NoStream EXCEPT !.pos = r] \in StreamState
    BY <2>1 DEF StreamState
  <2> QED BY <2>2 DEF NoStream
<1>4. stream \in StreamState
  BY <1>2, <1>3
<1>5. t = [s EXCEPT !.stream = stream]
  BY DEF OpenStream
<1> DEFINE fresh == stream
<1> HIDE DEF fresh, t
<1>6. /\ t \in ProcessorState
      /\ t.phase = "run" /\ t.fault = s.fault /\ t.hot = s.hot
      /\ t.final = s.final /\ t.heads = s.heads
      /\ t.stream = fresh
  <2>1. t = [s EXCEPT !.stream = fresh] /\ fresh \in StreamState
    BY <1>4, <1>5 DEF fresh
  <2> QED BY <2>1 DEF ProcessorState
<1>7. /\ t.stream.pos = StateHead(s) /\ t.stream.blocks = << >>
      /\ t.stream.final = Origin /\ t.stream.fork = << >>
  BY <1>2, <1>3, <1>6 DEF fresh
<1>8. StateHead(t) = StateHead(s)
  BY <1>6 DEF StateHead
<1>9. MemoryIsChain(t, n)
  BY <1>6, <1>8 DEF MemoryIsChain
<1>10. StreamContinues(t, n)
  <2>1. BatchBase(t) = StateHead(s)
    BY <1>6, <1>8 DEF BatchBase
  <2>2. LastOf(BatchBase(t), t.stream.blocks) = t.stream.pos
    BY <1>7, <2>1 DEF LastOf
  <2>3. On(t.stream.final, n.fin) /\ OneChain(t.stream.final, t.stream.pos)
    BY <1>7 DEF On, OneChain
  <2>4. Ascending(t.stream.fork)
    BY <1>7 DEF Ascending
  <2>5. Height(t.stream.pos) <= Height(n.tip)
    BY <1>7 DEF MemoryIsChain
  <2> QED BY <1>7, <2>2, <2>3, <2>4, <2>5 DEF StreamContinues
<1> QED BY <1>6, <1>9, <1>10 DEF ProcessFits, fresh, t

\* The process t is s in transaction next, an attempt of tx on the present tables.
Attempted(s, tx, t, next) ==
    /\ TxFault(db, s.hot, tx) = "none"
    /\ TxFault(db, s.hot, next) = "none"
    /\ next.base = tx.base /\ next.final = tx.final
    /\ next.blocks = tx.blocks /\ next.slices = tx.slices
    /\ next.nonce = db.nonce
    /\ t \in ProcessorState
    /\ t.phase = "tx" /\ t.tx = next /\ t.hot = s.hot
    /\ t.final = s.final /\ t.heads = s.heads /\ t.stream = s.stream
    /\ t.fault = s.fault

\* A transaction that is tried passes its assertions, or the process ends.
LEMMA AttemptWorks ==
    ASSUME NEW s \in ProcessorState, NEW tx \in TxState, db.nonce \in Nat
    PROVE  \/ \E fault \in {"race", "assert"} :
                  /\ fault = TxFault(db, s.hot, tx)
                  /\ Attempt(s, tx) = Down(fault, s.hot)
           \/ \E next \in TxState : Attempted(s, tx, Attempt(s, tx), next)
<1> DEFINE t == Attempt(s, tx)
           next == [tx EXCEPT !.nonce = db.nonce]
<1>1. /\ next \in TxState
      /\ next.base = tx.base /\ next.final = tx.final
      /\ next.blocks = tx.blocks /\ next.slices = tx.slices
      /\ next.nonce = db.nonce
  BY DEF TxState
<1>2. TxFault(db, s.hot, tx) \in {"race", "assert", "none"}
  BY DEF TxFault
<1>3. CASE TxFault(db, s.hot, tx) # "none"
  BY <1>2, <1>3 DEF Attempt
<1>4. CASE TxFault(db, s.hot, tx) = "none"
  <2> HIDE DEF next
  <2>1. t = [s EXCEPT !.phase = "tx", !.tx = next]
    BY <1>4, Zenon DEF Attempt, next
  <2> HIDE DEF t
  <2>2. /\ t \in ProcessorState
        /\ t.phase = "tx" /\ t.tx = next /\ t.hot = s.hot
        /\ t.final = s.final /\ t.heads = s.heads /\ t.stream = s.stream
        /\ t.fault = s.fault
    BY <1>1, <2>1 DEF ProcessorState
  <2>3. TxFault(db, s.hot, next) = TxFault(db, s.hot, tx)
    <3>1. HotInfo(next) = HotInfo(tx) /\ FinalInfo(next) = FinalInfo(tx)
      BY <1>1 DEF HotInfo, FinalInfo
    <3> QED BY <1>1, <3>1, Zenon DEF TxFault
  <2>4. Attempted(s, tx, t, next)
    BY <1>1, <1>4, <2>2, <2>3 DEF Attempted, next
  <2> QED BY <1>1, <2>4 DEF t, next
<1> QED BY <1>3, <1>4

\* What a hot transaction that passes its assertions finalizes is on the chain of
\* its batch, and no lower than what the process has finalized before.
LEMMA SubmittedFinalizedWorks ==
    ASSUME NEW s \in ProcessorState, s.phase = "run", NEW n, n.tip \in Ref,
           MemoryIsChain(s, n), StreamContinues(s, n)
    PROVE  LET fin  == SubmittedFinalized(s)
               last == LastOf(StateHead(s), s.stream.blocks)
           IN  /\ fin \in Ref
               /\ BatchFinalized(s) \in Ref
               /\ Height(s.final) <= Height(BatchFinalized(s))
               /\ Height(s.final) <= Height(fin)
               /\ s.hot /\ Height(fin) <= Height(last) => On(fin, last)
<1> DEFINE blocks == s.stream.blocks
           head   == StateHead(s)
           last   == LastOf(head, blocks)
           top    == BatchFinalized(s)
           u      == CountUpTo(blocks, Height(top))
           fin    == SubmittedFinalized(s)
<1>1. s.final \in Ref /\ s.stream.final \in Ref /\ blocks \in Seq(Block)
  BY DEF ProcessorState, StreamState
<1>2. head \in Ref /\ BatchBase(s) = head /\ s.stream.pos = last
  BY StreamFacts DEF BatchBase, StreamContinues
<1>3. /\ last \in Ref /\ On(head, last)
      /\ \A i \in 1..Len(blocks) : /\ blocks[i] \in Ref
                                   /\ On(blocks[i], last)
                                   /\ Height(blocks[i]) > Height(head)
  BY <1>2, DeliveryFacts DEF StreamContinues
<1>4. On(s.final, head) /\ On(s.final, last) /\ Height(s.final) <= Height(head)
  <2>1. On(s.final, head)
    BY DEF MemoryIsChain
  <2> QED BY <1>1, <1>2, <1>3, <2>1, AncestorTransitive, AncestorHeight
<1>5. /\ Height(s.final) \in Int /\ Height(s.stream.final) \in Int
      /\ Height(head) \in Int /\ Height(last) \in Int
  BY <1>1, <1>2, <1>3, HeightType
<1>6. /\ top \in Ref /\ Height(top) \in Int
      /\ Height(s.final) <= Height(top)
      /\ top = s.final \/ top = s.stream.final
  BY <1>1, <1>5 DEF BatchFinalized
<1>7. u \in 0..Len(blocks)
  BY <1>1, <1>6, CountUpToWorks
<1>8. fin = IF u = 0 THEN top ELSE blocks[u]
  BY DEF SubmittedFinalized
<1> HIDE DEF top, u, fin, last, head
<1>9. CASE u = 0
  <2>1. fin = top
    BY <1>8, <1>9
  <2>2. ASSUME s.hot, Height(fin) <= Height(last)
        PROVE  On(fin, last)
    <3>1. CASE top = s.final
      BY <1>4, <2>1, <3>1
    <3>2. CASE top = s.stream.final
      <4>1. On(top, last) \/ On(last, top)
        BY <1>2, <2>2, <3>2 DEF StreamContinues, OneChain
      <4>2. CASE On(last, top)
        <5>1. On(top, top) /\ Height(last) <= Height(top)
          BY <1>3, <1>6, <4>2, AncestorReflexive, AncestorHeight
        <5>2. Height(last) = Height(top)
          BY <1>5, <1>6, <2>1, <2>2, <5>1
        <5>3. last = top
          BY <1>3, <1>6, <4>2, <5>1, <5>2, AncestorUnique
        <5> QED BY <2>1, <5>1, <5>3
      <4> QED BY <2>1, <4>1, <4>2
    <3> QED BY <1>6, <3>1, <3>2
  <2> QED BY <1>6, <2>1, <2>2 DEF top, fin, last, head
<1>10. CASE u # 0
  <2>1. u \in 1..Len(blocks) /\ fin = blocks[u]
    BY <1>7, <1>8, <1>10
  <2>2. fin \in Ref /\ On(fin, last) /\ Height(fin) > Height(head)
    BY <1>3, <2>1
  <2>3. Height(fin) \in Int
    BY <2>2, HeightType
  <2>4. Height(s.final) <= Height(fin)
    BY <1>4, <1>5, <2>2, <2>3
  <2> QED BY <1>6, <2>2, <2>4 DEF top, fin, last, head
<1> QED BY <1>9, <1>10

------------------------------------------------------------------------------
(***************************************************************************)
(* Steps of the composition.                                                *)
(***************************************************************************)
Bounds == [reorgs : 0..MaxReorgs, crashes : 0..MaxCrashes,
           aborts : 0..MaxAborts, idle : 0..MaxIdle, headers : 0..MaxHeaders]

\* What the invariant says of the tables, the node and each process.
LEMMA InvFacts ==
    ASSUME ProcessorInv
    PROVE  /\ Sound(db) /\ db \in DatabaseState /\ db.nonce \in Nat
           /\ source \in [tip : Ref, fin : Ref]
           /\ source.tip \in Ref /\ source.fin \in Ref /\ On(source.fin, source.tip)
           /\ Height(source.tip) \in Int /\ Height(source.fin) \in Int
           /\ Height(source.fin) <= Height(source.tip)
           /\ proc \in [Processor -> ProcessorState]
           /\ used \in Bounds
           /\ TablesBelowTip(db, source)
           /\ \A p \in Processor : /\ proc[p] \in ProcessorState
                                   /\ ProcessFits(proc[p], db, source)
<1>1. ProcessorTypeOK /\ IndInv /\ On(source.fin, source.tip)
  BY DEF ProcessorInv
<1>2. /\ source \in [tip : Ref, fin : Ref]
      /\ proc \in [Processor -> ProcessorState] /\ used \in Bounds
  BY <1>1 DEF ProcessorTypeOK, Bounds
<1>3. Sound(db) /\ db.nonce \in Nat /\ db \in DatabaseState
  BY <1>1, SoundType DEF IndInv, Sound
<1>4. source.tip \in Ref /\ source.fin \in Ref
  BY <1>2
<1>5. /\ Height(source.tip) \in Int /\ Height(source.fin) \in Int
      /\ Height(source.fin) <= Height(source.tip)
  BY <1>1, <1>4, HeightType, AncestorHeight
<1> QED BY <1>1, <1>2, <1>3, <1>4, <1>5 DEF ProcessorInv

\* One process changes, the tables and the node do not.
LEMMA LocalStep ==
    ASSUME ProcessorInv, NEW p \in Processor, NEW t \in ProcessorState,
           ProcessFits(t, db, source),
           proc' = [proc EXCEPT ![p] = t], db' = db, source' = source, used' \in Bounds
    PROVE  ProcessorInv'
<1>1. proc' \in [Processor -> ProcessorState]
  BY InvFacts
<1>2. \A q \in Processor : proc'[q] = t \/ proc'[q] = proc[q]
  BY InvFacts
<1>3. \A q \in Processor : ProcessFits(proc'[q], db, source)
  BY <1>2, InvFacts
<1>4. ProcessorTypeOK'
  BY <1>1, InvFacts DEF ProcessorTypeOK, TypeOK, Bounds
<1>5. IndInv'
  BY DEF ProcessorInv, IndInv
<1>6. On(source'.fin, source'.tip) /\ TablesBelowTip(db', source')
  BY DEF ProcessorInv
<1>7. \A q \in Processor : ProcessFits(proc'[q], db', source')
  BY <1>3
<1> QED BY <1>4, <1>5, <1>6, <1>7 DEF ProcessorInv

\* The node moves on, everything else stays.
LEMMA NodeStep ==
    ASSUME ProcessorInv, NewBlock \/ Reorg \/ Finalize
    PROVE  ProcessorInv' /\ UNCHANGED db
<1> USE InvFacts
<1>1. /\ db' = db /\ proc' = proc /\ used' \in Bounds
      /\ source' \in [tip : Ref, fin : Ref]
      /\ On(source'.fin, source'.tip)
      /\ On(source.fin, source'.fin)
      /\ Height(source.tip) <= Height(source'.tip)
  <2>1. CASE NewBlock
    <3>1. PICK b \in Block : /\ On(source.tip, b)
                             /\ Height(b) = Height(source.tip) + 1
                             /\ source' = [source EXCEPT !.tip = b]
                             /\ UNCHANGED << db, proc, used >>
      BY <2>1 DEF NewBlock
    <3>2. b \in Ref /\ source'.tip = b /\ source'.fin = source.fin
          /\ source' \in [tip : Ref, fin : Ref]
      BY <3>1 DEF Ref
    <3>3. On(source.fin, b)
      BY <3>1, <3>2, AncestorTransitive
    <3> QED BY <3>1, <3>2, <3>3, AncestorReflexive
  <2>2. CASE Reorg
    <3>1. PICK b \in Block : /\ used.reorgs < MaxReorgs
                             /\ On(source.fin, b)
                             /\ Height(b) >= Height(source.tip)
                             /\ source' = [source EXCEPT !.tip = b]
                             /\ used' = [used EXCEPT !.reorgs = @ + 1]
                             /\ UNCHANGED << db, proc >>
      BY <2>2 DEF Reorg
    <3>2. b \in Ref /\ source'.tip = b /\ source'.fin = source.fin
          /\ source' \in [tip : Ref, fin : Ref]
      BY <3>1 DEF Ref
    <3>3. used' \in Bounds
      BY <3>1, ProcessorAssumption DEF Bounds
    <3>4. Height(b) \in Int
      BY <3>2, HeightType
    <3> QED BY <3>1, <3>2, <3>3, <3>4, AncestorReflexive
  <2>3. CASE Finalize
    <3>1. PICK b \in Block : /\ On(source.fin, b)
                             /\ On(b, source.tip)
                             /\ source' = [source EXCEPT !.fin = b]
                             /\ UNCHANGED << db, proc, used >>
      BY <2>3 DEF Finalize
    <3>2. b \in Ref /\ source'.tip = source.tip /\ source'.fin = b
          /\ source' \in [tip : Ref, fin : Ref]
      BY <3>1 DEF Ref
    <3> QED BY <3>1, <3>2
  <2> QED BY <2>1, <2>2, <2>3
<1>2. source'.tip \in Ref /\ source'.fin \in Ref
  BY <1>1
<1>3. ASSUME NEW p \in Processor
      PROVE  ProcessFits(proc[p], db, source')
  BY <1>1, <1>2, FitsNode
<1>4. TablesBelowTip(db, source')
  <2>1. Height(source'.tip) \in Int
    BY <1>2, HeightType
  <2>2. /\ db.status \in Ref /\ Height(db.status) \in Int
        /\ \A i \in 1..Len(db.applied) : Height(db.applied[i]) \in Int
    BY SoundType, HeightType
  <2> QED BY <1>1, <2>1, <2>2 DEF TablesBelowTip
<1>5. ProcessorTypeOK'
  BY <1>1 DEF ProcessorTypeOK, TypeOK, Bounds
<1>6. IndInv'
  BY <1>1 DEF IndInv
<1>7. \A p \in Processor : ProcessFits(proc'[p], db', source')
  BY <1>1, <1>3
<1> QED BY <1>1, <1>4, <1>5, <1>6, <1>7 DEF ProcessorInv

\* The stream of a process changes and nothing else about it.
LEMMA StreamStep ==
    ASSUME ProcessorInv, NEW p \in Processor, proc[p].phase # "down",
           NEW stream \in StreamState,
           stream.blocks \in Deliveries(BatchBase(proc[p])) \cup {<< >>},
           stream.pos = LastOf(BatchBase(proc[p]), stream.blocks),
           Height(stream.pos) <= Height(source.tip),
           On(stream.final, source.fin),
           proc[p].hot => OneChain(stream.final, stream.pos),
           Ascending(stream.fork),
           proc' = [proc EXCEPT ![p].stream = stream], db' = db, source' = source,
           used' \in Bounds
    PROVE  ProcessorInv' /\ UNCHANGED db
<1> DEFINE s == proc[p]
           t == [s EXCEPT !.stream = stream]
<1>1. s \in ProcessorState /\ ProcessFits(s, db, source)
  BY InvFacts
<1>2. proc' = [proc EXCEPT ![p] = t]
  OBVIOUS
<1> HIDE DEF s
<1>3. /\ t \in ProcessorState
      /\ t.phase = s.phase /\ t.hot = s.hot /\ t.final = s.final /\ t.heads = s.heads
      /\ t.tx = s.tx /\ t.stream = stream
  BY <1>1 DEF ProcessorState
<1> HIDE DEF t
<1>4. StateHead(t) = StateHead(s)
  BY <1>3 DEF StateHead
<1>5. BatchBase(t) = BatchBase(s)
  BY <1>3, <1>4 DEF BatchBase
<1>6. ProcessFits(t, db, source)
  <2>1. MemoryIsChain(t, source)
    BY <1>1, <1>3, <1>4 DEF ProcessFits, MemoryIsChain, s
  <2>2. StreamContinues(t, source)
    BY <1>3, <1>5 DEF StreamContinues, s
  <2>3. t.phase = "tx" => TransactionFits(t, db)
    BY <1>1, <1>3, <1>4 DEF ProcessFits, TransactionFits, s
  <2> QED BY <2>1, <2>2, <2>3 DEF ProcessFits
<1> QED BY <1>2, <1>3, <1>6, LocalStep

\* What a running process has received so far.
LEMMA Received ==
    ASSUME ProcessorInv, NEW p \in Processor, proc[p].phase # "down"
    PROVE  /\ proc[p] \in ProcessorState
           /\ proc[p].stream \in StreamState
           /\ proc[p].stream.pos \in Ref /\ proc[p].stream.final \in Ref
           /\ proc[p].stream.blocks \in Seq(Block)
           /\ MemoryIsChain(proc[p], source) /\ StreamContinues(proc[p], source)
           /\ StateHead(proc[p]) \in Ref /\ BatchBase(proc[p]) \in Ref
           /\ On(StateHead(proc[p]), BatchBase(proc[p]))
           /\ On(BatchBase(proc[p]), proc[p].stream.pos)
           /\ Height(BatchBase(proc[p])) <= Height(source.tip)
<1>1. proc[p] \in ProcessorState /\ ProcessFits(proc[p], db, source) /\ source.tip \in Ref
  BY InvFacts
<1>2. /\ proc[p].stream \in StreamState
      /\ proc[p].stream.final \in Ref
      /\ proc[p].stream.blocks \in Seq(Block)
  BY <1>1 DEF ProcessorState, StreamState
<1>3. /\ MemoryIsChain(proc[p], source) /\ StreamContinues(proc[p], source)
      /\ proc[p].phase = "tx" =>
             /\ proc[p].tx.base = StateHead(proc[p])
             /\ proc[p].tx.blocks \in Deliveries(proc[p].tx.base) \cup {<< >>}
  BY <1>1 DEF ProcessFits, TransactionFits
<1> QED BY <1>1, <1>2, <1>3, StreamFacts

\* A response with blocks extends what the stream has delivered.
LEMMA ReceiveBlocksStep ==
    ASSUME ProcessorInv, NEW p \in Processor, NEW r \in Reportable, ReceiveBlocks(p, r)
    PROVE  ProcessorInv' /\ UNCHANGED db
<1> USE InvFacts
<1> DEFINE old == proc[p].stream
<1>1. PICK x \in Segment :
          /\ Streaming(p)
          /\ x.base = old.pos
          /\ Fits(proc[p], x.blocks)
          /\ On(Tip(x), Top(p))
          /\ proc' = [proc EXCEPT ![p].stream =
                 [old EXCEPT !.pos = Tip(x),
                             !.blocks = @ \o x.blocks,
                             !.final = MaxRef(r, @),
                             !.updated = TRUE]]
          /\ UNCHANGED << db, source, used >>
  BY DEF ReceiveBlocks
<1>2. proc[p].phase # "down" /\ old.fork = << >>
  BY <1>1 DEF Streaming
<1>3. old \in StreamState /\ old.final \in Ref /\ old.blocks \in Seq(Block)
      /\ On(old.final, source.fin)
  BY <1>2, Received DEF StreamContinues
<1>4. r \in Ref /\ On(r, source.fin)
  BY DEF Reportable
<1>5. x.blocks \in Seq(Block) /\ Len(x.blocks) > 0 /\ Tip(x) \in Ref
  BY SegmentAssumption DEF Tip, Ref
<1> DEFINE joined == old.blocks \o x.blocks
           final  == MaxRef(r, old.final)
           stream == [old EXCEPT !.pos = Tip(x), !.blocks = joined,
                                 !.final = final, !.updated = TRUE]
<1>6. final \in Ref /\ On(final, source.fin)
  BY <1>3, <1>4 DEF MaxRef
<1>7. joined \in Seq(Block) /\ joined \in Deliveries(BatchBase(proc[p]))
  BY <1>1, <1>3, <1>5 DEF Fits
<1>8. LastOf(BatchBase(proc[p]), joined) = Tip(x)
  <2>1. LastOf(BatchBase(proc[p]), joined)
            = LastOf(LastOf(BatchBase(proc[p]), old.blocks), x.blocks)
    BY <1>3, <1>5, LastOfConcat
  <2>2. x.blocks # << >>
    BY <1>5
  <2> HIDE DEF joined
  <2> QED BY <2>1, <2>2 DEF LastOf, Tip
<1>9. Top(p) \in Ref /\ On(Top(p), source.tip)
  BY AncestorReflexive DEF Top
<1>10. On(Tip(x), source.tip) /\ Height(Tip(x)) <= Height(source.tip)
  <2>1. On(Tip(x), source.tip)
    BY <1>1, <1>5, <1>9, AncestorTransitive
  <2> QED BY <1>5, <2>1, AncestorHeight
<1>11. OneChain(final, Tip(x))
  <2>1. On(final, source.tip)
    BY <1>6, AncestorTransitive
  <2>2. Height(final) \in Int /\ Height(Tip(x)) \in Int
    BY <1>5, <1>6, HeightType
  <2>3. Height(final) <= Height(Tip(x)) \/ Height(Tip(x)) <= Height(final)
    BY <2>2
  <2> QED BY <1>5, <1>6, <1>10, <2>1, <2>3, AncestorLinear DEF OneChain
<1> HIDE DEF old, final, joined
<1>12. /\ stream \in StreamState
       /\ stream.pos = Tip(x) /\ stream.blocks = joined /\ stream.final = final
       /\ stream.fork = old.fork
  BY <1>3, <1>5, <1>6, <1>7 DEF StreamState
<1>13. proc' = [proc EXCEPT ![p].stream = stream]
  BY <1>1 DEF final, joined, old
<1>14. Ascending(stream.fork)
  BY <1>2, <1>12 DEF Ascending
<1> HIDE DEF stream
<1> QED BY <1>1, <1>2, <1>6, <1>7, <1>8, <1>10, <1>11, <1>12, <1>13, <1>14, StreamStep

\* The header of a response brings a finalized head of the chain it continues.
LEMMA ReceiveHeaderStep ==
    ASSUME ProcessorInv, NEW p \in Processor, NEW r \in Reportable, ReceiveHeader(p, r)
    PROVE  ProcessorInv' /\ UNCHANGED db
<1> USE InvFacts
<1> DEFINE old   == proc[p].stream
           final == MaxRef(r, old.final)
           stream == [old EXCEPT !.final = final, !.updated = TRUE]
<1>1. /\ proc[p].phase # "down" /\ old.fork = << >>
      /\ On(old.pos, Top(p))
      /\ used.headers < MaxHeaders
      /\ used' = [used EXCEPT !.headers = @ + 1]
      /\ proc' = [proc EXCEPT ![p].stream = stream]
      /\ UNCHANGED << db, source >>
  BY DEF ReceiveHeader, Streaming
<1>2. /\ old \in StreamState /\ old.final \in Ref /\ old.pos \in Ref
      /\ StreamContinues(proc[p], source)
  BY <1>1, Received
<1>3. r \in Ref /\ On(r, source.fin)
  BY DEF Reportable
<1>4. final \in Ref /\ On(final, source.fin)
  BY <1>2, <1>3 DEF MaxRef, StreamContinues
<1>5. used' \in Bounds
  <2> HIDE DEF stream
  <2> QED BY <1>1, ProcessorAssumption, SMTT(40) DEF Bounds
<1>6. OneChain(final, old.pos)
  <2>1. Top(p) \in Ref /\ On(Top(p), source.tip)
    BY AncestorReflexive DEF Top
  <2>2. On(old.pos, source.tip) /\ On(final, source.tip)
    BY <1>1, <1>2, <1>4, <2>1, AncestorTransitive
  <2>3. Height(final) \in Int /\ Height(old.pos) \in Int
    BY <1>2, <1>4, HeightType
  <2>4. Height(final) <= Height(old.pos) \/ Height(old.pos) <= Height(final)
    BY <2>3
  <2> QED BY <1>2, <1>4, <2>2, <2>4, AncestorLinear DEF OneChain
<1> HIDE DEF final, old
<1>7. /\ stream \in StreamState
      /\ stream.pos = old.pos /\ stream.blocks = old.blocks /\ stream.final = final
      /\ stream.fork = old.fork
  BY <1>2, <1>4 DEF StreamState
<1> HIDE DEF stream
<1>8. /\ stream.blocks \in Deliveries(BatchBase(proc[p])) \cup {<< >>}
      /\ stream.pos = LastOf(BatchBase(proc[p]), stream.blocks)
      /\ Height(stream.pos) <= Height(source.tip)
      /\ Ascending(stream.fork)
  BY <1>2, <1>7 DEF StreamContinues, old
<1> QED BY <1>1, <1>4, <1>5, <1>6, <1>7, <1>8, StreamStep

\* A response without blocks brings a finalized head of the same node.
LEMMA ReceiveNoDataStep ==
    ASSUME ProcessorInv, NEW p \in Processor, NEW r \in Reportable, ReceiveNoData(p, r)
    PROVE  ProcessorInv' /\ UNCHANGED db
<1> USE InvFacts
<1> DEFINE old   == proc[p].stream
           final == MaxRef(r, old.final)
           news  == Height(final) > Height(proc[p].final)
           stream == [old EXCEPT !.final = final, !.updated = TRUE]
<1>1. /\ proc[p].phase # "down" /\ old.fork = << >>
      /\ Height(Top(p)) < (IF old.pos = Origin THEN StartHeight ELSE Height(old.pos) + 1)
      /\ Height(Top(p)) = Height(old.pos) => On(old.pos, Top(p))
      /\ news \/ used.idle < MaxIdle
      /\ used' = [used EXCEPT !.idle = IF news THEN @ ELSE @ + 1]
      /\ proc' = [proc EXCEPT ![p].stream = stream]
      /\ UNCHANGED << db, source >>
  BY DEF ReceiveNoData, Streaming, FromBlock
<1>2. /\ old \in StreamState /\ old.final \in Ref /\ old.pos \in Ref
      /\ StreamContinues(proc[p], source)
  BY <1>1, Received
<1>3. r \in Ref /\ On(r, source.fin)
  BY DEF Reportable
<1>4. final \in Ref /\ On(final, source.fin)
  BY <1>2, <1>3 DEF MaxRef, StreamContinues
<1>5. used' \in Bounds
  <2> HIDE DEF news
  <2> QED BY <1>1, ProcessorAssumption, SMTT(40) DEF Bounds
<1>6. ASSUME proc[p].hot
      PROVE  OneChain(final, old.pos)
  <2>1. CASE old.pos = Origin
    BY <2>1 DEF OneChain, On
  <2>2. CASE old.pos # Origin
    <3>1. Top(p) = source.tip
      BY <1>6 DEF Top
    <3>2. Height(old.pos) \in Int /\ Height(old.pos) <= Height(source.tip)
      BY <1>2, HeightType DEF StreamContinues
    <3>3. Height(source.tip) = Height(old.pos)
      BY <1>1, <2>2, <3>1, <3>2
    <3>4. On(old.pos, source.tip)
      BY <1>1, <3>1, <3>3
    <3>5. On(final, source.tip)
      BY <1>4, AncestorTransitive
    <3>6. Height(final) <= Height(source.tip)
      BY <1>4, <3>5, AncestorHeight
    <3> QED BY <1>2, <1>4, <3>3, <3>4, <3>5, <3>6, AncestorLinear DEF OneChain
  <2> QED BY <2>1, <2>2
<1> HIDE DEF final, news, old
<1>7. /\ stream \in StreamState
      /\ stream.pos = old.pos /\ stream.blocks = old.blocks /\ stream.final = final
      /\ stream.fork = old.fork
  BY <1>2, <1>4 DEF StreamState
<1> HIDE DEF stream
<1>8. /\ stream.blocks \in Deliveries(BatchBase(proc[p])) \cup {<< >>}
      /\ stream.pos = LastOf(BatchBase(proc[p]), stream.blocks)
      /\ Height(stream.pos) <= Height(source.tip)
      /\ Ascending(stream.fork)
  BY <1>2, <1>7 DEF StreamContinues, old
<1> QED BY <1>1, <1>4, <1>5, <1>6, <1>7, <1>8, StreamStep

\* A fork report lists blocks of one chain, the lowest first.
LEMMA PreviousBlocksAscend ==
    ASSUME NEW r \in Ref, NEW h \in Int, 0 <= h, h <= Height(r)
    PROVE  /\ PreviousBlocks(r, h) \in Seq(Block)
           /\ Ascending(PreviousBlocks(r, h))
<1> DEFINE low  == h - ForkWindow + 1
           from == (IF low < 0 THEN 0 ELSE low) + 1
           fork == PreviousBlocks(r, h)
<1>1. Path[r] \in Seq(Block) /\ Len(Path[r]) \in Nat /\ Height(r) = Len(Path[r]) - 1
  BY HeightType DEF Height
<1>2. ForkWindow \in Nat \ {0}
  BY ProcessorAssumption
<1>3. from \in 1..(h + 1) /\ h + 1 \in 1..Len(Path[r])
  BY <1>1, <1>2
<1>4. fork = SubSeq(Path[r], from, h + 1)
  <2>1. (IF h < Height(r) THEN h ELSE Height(r)) = h
    BY <1>1
  <2> QED BY <2>1 DEF PreviousBlocks
<1> HIDE DEF from, fork
<1>5. /\ fork \in Seq(Block)
      /\ Len(fork) = h + 1 - from + 1
      /\ \A i \in 1..Len(fork) : fork[i] = Path[r][from + i - 1]
  BY <1>1, <1>3, <1>4
<1>6. \A i \in 1..Len(fork) : Height(fork[i]) = from + i - 2
  <2>1. SUFFICES ASSUME NEW i \in 1..Len(fork)
                 PROVE  Height(fork[i]) = from + i - 2
    OBVIOUS
  <2> DEFINE k == from + i - 1
  <2>2. k \in 1..Len(Path[r]) /\ k - 1 = from + i - 2
    BY <1>3, <1>5
  <2> HIDE DEF k
  <2>3. r \in Block
    BY <1>1, <2>2, HeightType DEF Ref
  <2>4. Path[Path[r][k]] = SubSeq(Path[r], 1, k)
    BY <2>2, <2>3, TreeAssumption
  <2>5. Len(Path[Path[r][k]]) = k
    BY <1>1, <2>2, <2>4
  <2>6. fork[i] = Path[r][k]
    BY <1>5 DEF k
  <2>7. k \in Nat
    BY <2>2
  <2> QED BY <2>2, <2>5, <2>6, <2>7 DEF Height
<1>7. Ascending(fork)
  <2>1. SUFFICES ASSUME NEW i \in 1..Len(fork), NEW j \in 1..Len(fork), i < j
                 PROVE  Height(fork[i]) < Height(fork[j])
    BY DEF Ascending
  <2>2. from + i - 2 < from + j - 2
    BY <1>3, <2>1
  <2> QED BY <1>6, <2>2
<1> QED BY <1>5, <1>7 DEF fork

\* A fork report is a run of blocks of the node's chain.
LEMMA ReceiveForkStep ==
    ASSUME ProcessorInv, NEW p \in Processor, ReceiveFork(p)
    PROVE  ProcessorInv' /\ UNCHANGED db
<1> USE InvFacts
<1> DEFINE old    == proc[p].stream
           fork   == PreviousBlocks(Top(p), Height(old.pos))
           stream == [old EXCEPT !.fork = fork]
<1>1. /\ proc[p].phase # "down"
      /\ Height(old.pos) <= Height(Top(p))
      /\ ~ On(old.pos, Top(p))
      /\ proc' = [proc EXCEPT ![p].stream.fork = fork]
      /\ UNCHANGED << db, source, used >>
  BY DEF ReceiveFork, Streaming
<1>2. /\ old \in StreamState /\ old.final \in Ref /\ old.pos \in Ref
      /\ StreamContinues(proc[p], source) /\ proc[p] \in ProcessorState
  BY <1>1, Received
<1>3. Top(p) \in Ref
  BY DEF Top
<1>4. old.pos # Origin
  BY <1>1 DEF On
<1>5. Height(old.pos) \in Int /\ 0 <= Height(old.pos)
  BY <1>2, <1>4, HeightType DEF Height
<1>6. fork \in Seq(Block) /\ Ascending(fork)
  BY <1>1, <1>3, <1>5, PreviousBlocksAscend
<1>7. proc' = [proc EXCEPT ![p].stream = stream]
  BY <1>1
<1> HIDE DEF fork, old
<1>8. /\ stream \in StreamState
      /\ stream.pos = old.pos /\ stream.blocks = old.blocks /\ stream.final = old.final
      /\ stream.fork = fork
  BY <1>2, <1>6 DEF StreamState
<1> HIDE DEF stream
<1>9. /\ stream.blocks \in Deliveries(BatchBase(proc[p])) \cup {<< >>}
      /\ stream.pos = LastOf(BatchBase(proc[p]), stream.blocks)
      /\ Height(stream.pos) <= Height(source.tip)
      /\ On(stream.final, source.fin)
      /\ proc[p].hot => OneChain(stream.final, stream.pos)
  BY <1>2, <1>8 DEF StreamContinues, old
<1> QED BY <1>1, <1>6, <1>7, <1>8, <1>9, StreamStep

\* The batch processBatch() takes continues the head in memory.
LEMMA TakeBatchStep ==
    ASSUME ProcessorInv, NEW p \in Processor, TakeBatch(p)
    PROVE  ProcessorInv' /\ UNCHANGED db
<1> USE InvFacts
<1> DEFINE s      == proc[p]
           blocks == s.stream.blocks
           stream == [s.stream EXCEPT !.blocks = << >>, !.updated = FALSE]
           rest   == [s EXCEPT !.stream.blocks = << >>, !.stream.updated = FALSE]
           tx     == [base |-> StateHead(s), final |-> SubmittedFinalized(s),
                      blocks |-> blocks, nonce |-> 0, retries |-> MaxRetries,
                      slices |-> << >>]
           idle   == blocks = << >> /\ (s.stream.final = Origin \/ ~ s.hot)
           bad    == \/ ~ Ascending(<< StateHead(s) >> \o blocks)
                     \/ /\ ~ s.hot
                        /\ CountUpTo(blocks, Height(BatchFinalized(s))) < Len(blocks)
           t      == IF idle THEN rest
                     ELSE IF bad THEN Down("assert", s.hot) ELSE Attempt(rest, tx)
<1>1. /\ s.phase = "run"
      /\ proc' = [proc EXCEPT ![p] = t]
      /\ UNCHANGED << db, source, used >>
  BY DEF TakeBatch
<1>2. /\ s \in ProcessorState /\ s.stream \in StreamState
      /\ s.stream.pos \in Ref /\ blocks \in Seq(Block) /\ s.hot \in BOOLEAN
      /\ MemoryIsChain(s, source) /\ StreamContinues(s, source)
      /\ StateHead(s) \in Ref /\ BatchBase(s) = StateHead(s)
  BY <1>1, Received DEF BatchBase, ProcessorState
<1>3. /\ stream \in StreamState
      /\ stream.pos = s.stream.pos /\ stream.blocks = << >>
      /\ stream.final = s.stream.final /\ stream.fork = s.stream.fork
  <2> DEFINE none == << >>
             old  == s.stream
  <2>1. none \in Seq(Block) /\ old \in StreamState
    BY <1>2
  <2>2. stream = [old EXCEPT !.blocks = none, !.updated = FALSE]
    OBVIOUS
  <2> HIDE DEF none, old, stream
  <2>3. /\ stream \in StreamState
        /\ stream.pos = old.pos /\ stream.blocks = none
        /\ stream.final = old.final /\ stream.fork = old.fork
    BY <2>1, <2>2 DEF StreamState
  <2> QED BY <2>3 DEF none, old
<1>4. rest = [s EXCEPT !.stream = stream]
  BY <1>2, Zenon DEF ProcessorState
<1> HIDE DEF s, stream, rest, tx
<1>5. /\ rest \in ProcessorState
      /\ rest.phase = "run" /\ rest.hot = s.hot /\ rest.final = s.final
      /\ rest.heads = s.heads /\ rest.stream = stream
  BY <1>1, <1>2, <1>3, <1>4 DEF ProcessorState
<1>6. StateHead(rest) = StateHead(s) /\ MemoryIsChain(rest, source)
  <2>1. StateHead(rest) = StateHead(s)
    BY <1>5 DEF StateHead
  <2> QED BY <1>2, <1>5, <2>1 DEF MemoryIsChain
<1>7. /\ s.stream.pos = LastOf(StateHead(s), blocks)
      /\ blocks \in Deliveries(StateHead(s)) \cup {<< >>}
      /\ Height(s.stream.pos) <= Height(source.tip)
      /\ On(s.stream.final, source.fin)
      /\ s.hot => OneChain(s.stream.final, s.stream.pos)
      /\ Ascending(s.stream.fork)
  BY <1>2 DEF StreamContinues
<1>8. t \in ProcessorState /\ ProcessFits(t, db, source)
  <2>1. CASE idle
    <3>1. t = rest
      BY <2>1
    <3>2. BatchBase(rest) = StateHead(s)
      BY <1>5, <1>6 DEF BatchBase
    <3>3. LastOf(StateHead(s), << >>) = StateHead(s)
      BY DEF LastOf
    <3>4. s.stream.pos = StateHead(s)
      BY <1>7, <2>1, <3>3
    <3>5. StreamContinues(rest, source)
      BY <1>3, <1>5, <1>7, <3>2, <3>3, <3>4 DEF StreamContinues
    <3>6. ProcessFits(rest, db, source)
      BY <1>5, <1>6, <3>5 DEF ProcessFits
    <3> QED BY <1>5, <3>1, <3>6
  <2>2. CASE ~idle /\ bad
    <3>1. t = Down("assert", s.hot)
      BY <2>2
    <3>2. "assert" \in Faults
      BY DEF Faults
    <3> QED BY <1>2, <3>1, <3>2, DownFits
  <2>3. CASE ~idle /\ ~bad
    <3>1. t = Attempt(rest, tx)
      BY <2>3
    <3>2. SubmittedFinalized(s) \in Ref /\ Height(s.final) <= Height(SubmittedFinalized(s))
          /\ (s.hot /\ Height(SubmittedFinalized(s)) <= Height(LastOf(StateHead(s), blocks))
                  => On(SubmittedFinalized(s), LastOf(StateHead(s), blocks)))
      BY <1>1, <1>2, SubmittedFinalizedWorks
    <3>3. /\ tx \in TxState
          /\ tx.base = StateHead(s) /\ tx.final = SubmittedFinalized(s)
          /\ tx.blocks = blocks /\ tx.slices = << >>
      <4>1. MaxRetries \in 0..MaxRetries
        BY ProcessorAssumption
      <4> QED BY <1>2, <3>2, <4>1 DEF tx, TxState
    <3>4. CASE \E fault \in {"race", "assert"} : t = Down(fault, s.hot)
      <4>1. {"race", "assert"} \subseteq Faults
        BY DEF Faults
      <4> HIDE DEF t
      <4> QED BY <1>2, <3>4, <4>1, DownFits
    <3>5. CASE \E next \in TxState : Attempted(rest, tx, t, next)
      <4> HIDE DEF t
      <4>10. PICK next \in TxState : Attempted(rest, tx, t, next)
        BY <3>5
      <4>11. /\ TxFault(db, s.hot, next) = "none"
            /\ next.base = tx.base /\ next.final = tx.final
            /\ next.blocks = tx.blocks /\ next.slices = tx.slices
            /\ next.nonce = db.nonce
            /\ t \in ProcessorState
            /\ t.phase = "tx" /\ t.tx = next /\ t.hot = s.hot
            /\ t.final = s.final /\ t.heads = s.heads /\ t.stream = stream
        BY <1>5, <4>10 DEF Attempted
      <4>1. StateHead(t) = StateHead(s)
        BY <4>11 DEF StateHead
      <4>2. MemoryIsChain(t, source)
        BY <1>2, <4>11, <4>1 DEF MemoryIsChain
      <4>3. BatchBase(t) = LastOf(StateHead(s), blocks)
        BY <3>3, <4>11 DEF BatchBase
      <4>4. LastOf(BatchBase(t), << >>) = BatchBase(t)
        BY DEF LastOf
      <4>5. StreamContinues(t, source)
        BY <1>3, <1>7, <4>11, <4>3, <4>4 DEF StreamContinues
      <4>6. ~s.hot => blocks # << >>
        BY <2>3
      <4>7. s.hot => On(next.final, LastOf(next.base, next.blocks))
        <5>1. SUFFICES ASSUME s.hot
                       PROVE  On(next.final, LastOf(next.base, next.blocks))
          OBVIOUS
        <5>2. TransactHot2Asserts(db, HotInfo(next))
          BY <4>11, <5>1, Zenon DEF TxFault
        <5>3. Height(next.final) <= Height(LastOf(next.base, next.blocks))
          BY <5>2 DEF TransactHot2Asserts, HotInfo
        <5> QED BY <3>2, <3>3, <4>11, <5>1, <5>3
      <4>8. Len(next.slices) = 0
        BY <3>3, <4>11
      <4>9. TransactionFits(t, db)
        <5>1. next.nonce <= db.nonce
          BY <4>11
        <5>2. next.blocks \in Deliveries(next.base) \cup {<< >>}
          BY <1>7, <3>3, <4>11
        <5>3. \A i \in 1..Len(next.slices) :
                  \E j \in (CountUpTo(next.blocks, Height(next.final)) + 1)..Len(next.blocks) :
                      next.slices[i] = next.blocks[j]
          BY <4>8
        <5> QED BY <3>2, <3>3, <4>11, <4>1, <4>6, <4>7, <5>1, <5>2, <5>3 DEF TransactionFits
      <4> QED BY <4>11, <4>2, <4>5, <4>9 DEF ProcessFits
    <3>6. rest \in ProcessorState /\ tx \in TxState /\ db.nonce \in Nat
      BY <1>5, <3>3
    <3> QED
      <4> HIDE DEF t
      <4> QED BY <1>5, <3>1, <3>4, <3>5, <3>6, AttemptWorks
  <2> QED BY <2>1, <2>2, <2>3
<1> HIDE DEF t
<1> QED BY <1>1, <1>8, LocalStep

\* An aborted transaction is attempted again from what connect() read of it.
LEMMA AbortStep ==
    ASSUME Ungrouped, ProcessorInv, NEW p \in Processor, NEW n \in Nat, Abort(p, n)
    PROVE  ProcessorInv' /\ UNCHANGED db
<1> USE InvFacts
<1> DEFINE s  == proc[p]
           more == SubSeq(SliceHeads(s.tx), 1, n)
           tx == [s.tx EXCEPT !.retries = @ - 1, !.slices = @ \o more]
           t  == IF s.tx.retries = 0 THEN Down("aborted", s.hot) ELSE Attempt(s, tx)
<1>1. /\ s.phase = "tx"
      /\ n \in 0..(IF s.hot THEN Len(SliceHeads(s.tx)) ELSE 0)
      /\ proc' = [proc EXCEPT ![p] = t]
      /\ UNCHANGED << db, source >>
      /\ \/ UNCHANGED used
         \/ used.aborts < MaxAborts /\ used' = [used EXCEPT !.aborts = @ + 1]
  BY DEF Abort
<1>2. used' \in Bounds
  <2>1. CASE used' = used
    BY <2>1
  <2>2. CASE used.aborts < MaxAborts /\ used' = [used EXCEPT !.aborts = @ + 1]
    BY <2>2, ProcessorAssumption, SMTT(40) DEF Bounds
  <2> QED BY <1>1, <2>1, <2>2
<1>3. /\ s \in ProcessorState /\ s.hot \in BOOLEAN /\ s.tx \in TxState
      /\ MemoryIsChain(s, source) /\ StreamContinues(s, source) /\ TransactionFits(s, db)
  BY <1>1 DEF ProcessFits, ProcessorState
<1> HIDE DEF s
<1>4. /\ s.tx.base \in Ref /\ s.tx.final \in Ref /\ s.tx.slices \in Seq(Block)
      /\ s.tx.retries \in 0..MaxRetries
      /\ s.tx.blocks \in Deliveries(s.tx.base) \cup {<< >>}
  BY <1>3 DEF TxState, TransactionFits
<1> DEFINE u == CountUpTo(s.tx.blocks, Height(s.tx.final))
           S == SliceHeads(s.tx)
<1>5. /\ u \in 0..Len(s.tx.blocks) /\ Len(s.tx.blocks) \in Nat
      /\ S \in Seq(Block) /\ Len(S) = Len(s.tx.blocks) - u
      /\ \A j \in 1..(Len(s.tx.blocks) - u) : S[j] = s.tx.blocks[u + j]
  BY <1>4, SliceHeadsWork, DeliveryFacts
<1>6. n \in 0..Len(S)
  BY <1>1, <1>5
<1> HIDE DEF u, S
<1>7. /\ more \in Seq(Block) /\ Len(more) = n
      /\ \A j \in 1..n : more[j] = s.tx.blocks[u + j] /\ u + j \in (u + 1)..Len(s.tx.blocks)
  <2>1. more = SubSeq(S, 1, n)
    BY DEF S
  <2> HIDE DEF more
  <2>2. /\ more \in Seq(Block) /\ Len(more) = n
        /\ \A j \in 1..n : more[j] = S[j]
    <3>1. S \in Seq(Block) /\ n \in 0..Len(S)
      BY <1>5, <1>6
    <3> QED BY <2>1, <3>1
  <2>3. ASSUME NEW j \in 1..n
        PROVE  more[j] = s.tx.blocks[u + j] /\ u + j \in (u + 1)..Len(s.tx.blocks)
    <3> DEFINE N == Len(s.tx.blocks)
    <3>1. u \in 0..N /\ N \in Nat /\ Len(S) = N - u /\ n \in 0..Len(S)
      BY <1>5, <1>6
    <3> HIDE DEF N
    <3>2. j \in 1..(N - u) /\ u + j \in (u + 1)..N
      BY <3>1, <2>3
    <3> QED BY <1>5, <2>2, <3>2 DEF N
  <2> QED BY <2>2, <2>3
<1> HIDE DEF more
<1> DEFINE slices == s.tx.slices \o more
<1>8. /\ slices \in Seq(Block)
      /\ Len(slices) = Len(s.tx.slices) + Len(more)
      /\ \A i \in 1..Len(s.tx.slices) : slices[i] = s.tx.slices[i]
      /\ \A j \in 1..Len(more) : slices[Len(s.tx.slices) + j] = more[j]
  <2> DEFINE a == s.tx.slices
  <2>1. a \in Seq(Block) /\ more \in Seq(Block) /\ slices = a \o more
    BY <1>4, <1>7
  <2> HIDE DEF a, slices
  <2>2. /\ slices \in Seq(Block)
        /\ Len(slices) = Len(a) + Len(more)
        /\ \A i \in 1..Len(a) : slices[i] = a[i]
        /\ \A j \in 1..Len(more) : slices[Len(a) + j] = more[j]
    BY <2>1, ConcatPieces
  <2> QED BY <2>2 DEF a
<1>9. ASSUME NEW i \in 1..Len(slices)
      PROVE  \E j \in (u + 1)..Len(s.tx.blocks) : slices[i] = s.tx.blocks[j]
  <2>1. Len(s.tx.slices) \in Nat
    BY <1>4
  <2> HIDE DEF slices
  <2>2. CASE i <= Len(s.tx.slices)
    <3>1. i \in 1..Len(s.tx.slices)
      BY <2>2
    <3> QED BY <1>3, <1>8, <3>1 DEF TransactionFits, u
  <2>3. CASE i > Len(s.tx.slices)
    <3>1. i - Len(s.tx.slices) \in 1..n
          /\ Len(s.tx.slices) + (i - Len(s.tx.slices)) = i
      BY <1>7, <1>8, <2>1, <2>3
    <3> QED BY <1>7, <1>8, <3>1
  <2> QED BY <2>2, <2>3
<1>10. t \in ProcessorState /\ ProcessFits(t, db, source)
  <2>1. CASE s.tx.retries = 0
    <3>1. t = Down("aborted", s.hot) /\ "aborted" \in Faults
      BY <2>1 DEF Faults
    <3> QED BY <1>3, <3>1, DownFits
  <2>2. CASE s.tx.retries # 0
    <3>1. t = Attempt(s, tx)
      BY <2>2
    <3>2. /\ tx \in TxState
          /\ tx.base = s.tx.base /\ tx.final = s.tx.final
          /\ tx.blocks = s.tx.blocks /\ tx.slices = slices
      <4>1. s.tx.retries - 1 \in 0..MaxRetries
        BY <1>4, <2>2, ProcessorAssumption, SMTT(40)
      <4>2. tx = [s.tx EXCEPT !.retries = s.tx.retries - 1, !.slices = slices]
        BY <1>3 DEF TxState
      <4> HIDE DEF tx, slices
      <4> QED BY <1>3, <1>8, <4>1, <4>2 DEF TxState
    <3> HIDE DEF tx, slices
    <3>4. CASE \E fault \in {"race", "assert"} : t = Down(fault, s.hot)
      <4>1. {"race", "assert"} \subseteq Faults
        BY DEF Faults
      <4> HIDE DEF t
      <4> QED BY <1>3, <3>4, <4>1, DownFits
    <3>5. CASE \E next \in TxState : Attempted(s, tx, t, next)
      <4> HIDE DEF t
      <4>10. PICK next \in TxState : Attempted(s, tx, t, next)
        BY <3>5
      <4>11. /\ TxFault(db, s.hot, next) = "none"
            /\ next.base = tx.base /\ next.final = tx.final
            /\ next.blocks = tx.blocks /\ next.slices = tx.slices
            /\ next.nonce = db.nonce
            /\ t \in ProcessorState
            /\ t.phase = "tx" /\ t.tx = next /\ t.hot = s.hot
            /\ t.final = s.final /\ t.heads = s.heads /\ t.stream = s.stream
        BY <4>10 DEF Attempted
      <4>1. StateHead(t) = StateHead(s)
        BY <4>11 DEF StateHead
      <4>2. MemoryIsChain(t, source)
        BY <1>3, <4>11, <4>1 DEF MemoryIsChain
      <4>3. BatchBase(t) = BatchBase(s)
        BY <1>1, <3>2, <4>11 DEF BatchBase
      <4>4. StreamContinues(t, source)
        BY <1>3, <4>11, <4>3 DEF StreamContinues
      <4>5. TransactionFits(t, db)
        <5>1. next.nonce <= db.nonce
          BY <4>11
        <5>2. \A i \in 1..Len(next.slices) :
                  \E j \in (CountUpTo(next.blocks, Height(next.final)) + 1)..Len(next.blocks) :
                      next.slices[i] = next.blocks[j]
          BY <1>9, <3>2, <4>11 DEF u
        <5> QED BY <1>3, <3>2, <4>11, <4>1, <5>1, <5>2, SMTT(40) DEF TransactionFits
      <4> QED BY <4>11, <4>2, <4>4, <4>5 DEF ProcessFits
    <3> QED
      <4> HIDE DEF t
      <4> QED BY <1>3, <3>1, <3>2, <3>4, <3>5, AttemptWorks
  <2> QED BY <2>1, <2>2
<1> HIDE DEF t
<1> QED BY <1>1, <1>2, <1>10, LocalStep

\* The position in [final, ...heads] that handleFork() has found, as a number of
\* heads to keep.
LEMMA RollbackIndexWorks ==
    ASSUME NEW s \in ProcessorState, Ascending(s.stream.fork)
    PROVE  LET below == IF s.final = Origin THEN << >> ELSE << s.final >>
               chain == below \o s.heads
               index == FindRollbackIndex(chain, s.stream.fork)
               kept  == index - Len(below)
           IN  /\ chain \in Seq(Block)
               /\ Len(chain) = Len(below) + Len(s.heads)
               /\ Len(below) = IF s.final = Origin THEN 0 ELSE 1
               /\ s.final # Origin => chain[1] = s.final
               /\ \A i \in 1..Len(s.heads) : chain[Len(below) + i] = s.heads[i]
               /\ index \in 0..Len(chain)
               /\ \/ index = 0 /\ s.final # Origin
                  \/ /\ kept \in 0..Len(s.heads)
                     /\ kept # 0 => /\ index = Len(below) + kept
                                    /\ s.heads[kept] = chain[index]
                                    /\ s.final # Origin => Height(s.final) < Height(s.heads[kept])
                                    /\ \A i \in 1..(kept - 1) :
                                           Height(s.heads[i]) < Height(s.heads[kept])
<1> DEFINE below == IF s.final = Origin THEN << >> ELSE << s.final >>
           chain == below \o s.heads
           index == FindRollbackIndex(chain, s.stream.fork)
           kept  == index - Len(below)
<1>1. s.final \in Ref /\ s.heads \in Seq(Block) /\ s.stream.fork \in Seq(Block)
  BY DEF ProcessorState, StreamState
<1>2. /\ below \in Seq(Block)
      /\ Len(below) = IF s.final = Origin THEN 0 ELSE 1
      /\ s.final # Origin => below[1] = s.final
  <2>1. CASE s.final = Origin
    BY <2>1
  <2>2. CASE s.final # Origin
    <3>1. s.final \in Block
      BY <1>1, <2>2 DEF Ref
    <3> QED BY <2>2, <3>1
  <2> QED BY <2>1, <2>2
<1> HIDE DEF below
<1>3. /\ chain \in Seq(Block)
      /\ Len(chain) = Len(below) + Len(s.heads)
      /\ \A i \in 1..Len(below) : chain[i] = below[i]
      /\ \A i \in 1..Len(s.heads) : chain[Len(below) + i] = s.heads[i]
  <2> DEFINE a == s.heads
  <2>1. a \in Seq(Block) /\ chain = below \o a
    BY <1>1
  <2> HIDE DEF a, chain
  <2>2. /\ chain \in Seq(Block)
        /\ Len(chain) = Len(below) + Len(a)
        /\ \A i \in 1..Len(below) : chain[i] = below[i]
        /\ \A i \in 1..Len(a) : chain[Len(below) + i] = a[i]
    BY <1>2, <2>1, ConcatPieces
  <2> QED BY <2>2 DEF a
<1>4. s.final # Origin => chain[1] = s.final
  BY <1>2, <1>3
<1> HIDE DEF chain
<1>5. /\ index \in 0..Len(chain)
      /\ index # 0 => \A k \in 1..(index - 1) : Height(chain[k]) < Height(chain[index])
  BY <1>1, <1>3, WalkResult
<1> HIDE DEF index
<1>6. Len(s.heads) \in Nat
  BY <1>1
<1>8. ~(index = 0 /\ s.final # Origin) => kept \in 0..Len(s.heads)
  <2> DEFINE N == Len(s.heads)
             B == Len(below)
  <2>1. N \in Nat /\ B = (IF s.final = Origin THEN 0 ELSE 1) /\ index \in 0..(B + N)
    BY <1>2, <1>3, <1>5, <1>6
  <2> HIDE DEF N, B
  <2>2. ~(index = 0 /\ s.final # Origin) => index - B \in 0..N
    BY <2>1
  <2> QED BY <2>2 DEF N, B
<1>9. ASSUME ~(index = 0 /\ s.final # Origin), kept # 0
      PROVE  /\ index = Len(below) + kept
             /\ s.heads[kept] = chain[index]
             /\ s.final # Origin => Height(s.final) < Height(s.heads[kept])
             /\ \A i \in 1..(kept - 1) : Height(s.heads[i]) < Height(s.heads[kept])
  <2>1. index = Len(below) + kept /\ kept \in 1..Len(s.heads) /\ index # 0
    BY <1>2, <1>5, <1>6, <1>8, <1>9
  <2> HIDE DEF kept
  <2>2. s.heads[kept] = chain[index]
    BY <1>3, <2>1
  <2>3. ASSUME s.final # Origin
        PROVE  Height(s.final) < Height(s.heads[kept])
    <3>1. 1 \in 1..(index - 1)
      BY <1>2, <1>6, <2>1, <2>3
    <3> QED BY <1>4, <1>5, <2>1, <2>2, <2>3, <3>1
  <2>4. ASSUME NEW i \in 1..(kept - 1)
        PROVE  Height(s.heads[i]) < Height(s.heads[kept])
    <3>1. Len(below) + i \in 1..(index - 1) /\ i \in 1..Len(s.heads)
      BY <1>2, <1>6, <2>1
    <3>2. chain[Len(below) + i] = s.heads[i]
      BY <1>3, <3>1
    <3> QED BY <1>5, <2>1, <2>2, <3>1, <3>2
  <2> QED BY <2>1, <2>2, <2>3, <2>4
<1>10. \/ index = 0 /\ s.final # Origin
       \/ /\ kept \in 0..Len(s.heads)
          /\ kept # 0 => /\ index = Len(below) + kept
                         /\ s.heads[kept] = chain[index]
                         /\ s.final # Origin => Height(s.final) < Height(s.heads[kept])
                         /\ \A i \in 1..(kept - 1) :
                                Height(s.heads[i]) < Height(s.heads[kept])
  <2> HIDE DEF kept
  <2> QED BY <1>8, <1>9
<1>11. index \in 0..Len(chain)
  BY <1>5
<1> QED BY <1>2, <1>3, <1>4, <1>10, <1>11, Zenon DEF below, chain, index

\* What is kept of the memory of a process is one chain, if the last head kept is
\* the highest.
LEMMA KeptMemory ==
    ASSUME NEW s \in ProcessorState, NEW n, n.tip \in Ref, MemoryIsChain(s, n),
           NEW k \in 0..Len(s.heads),
           k # 0 => /\ s.final # Origin => Height(s.final) < Height(s.heads[k])
                    /\ \A i \in 1..(k - 1) : Height(s.heads[i]) < Height(s.heads[k])
    PROVE  LET t == [s EXCEPT !.heads = SubSeq(@, 1, k)]
           IN  /\ t \in ProcessorState
               /\ t.phase = s.phase /\ t.fault = s.fault /\ t.hot = s.hot
               /\ t.final = s.final /\ t.heads = SubSeq(s.heads, 1, k)
               /\ Len(t.heads) = k
               /\ \A i \in 1..k : t.heads[i] = s.heads[i]
               /\ StateHead(t) = IF k = 0 THEN s.final ELSE s.heads[k]
               /\ On(StateHead(t), StateHead(s))
               /\ MemoryIsChain(t, n)
<1> DEFINE heads == SubSeq(s.heads, 1, k)
           t == [s EXCEPT !.heads = SubSeq(@, 1, k)]
           head == IF k = 0 THEN s.final ELSE s.heads[k]
<1>1. s.final \in Ref /\ s.heads \in Seq(Block) /\ Len(s.heads) \in Nat
  BY DEF ProcessorState
<1>2. /\ heads \in Seq(Block) /\ Len(heads) = k
      /\ \A i \in 1..k : heads[i] = s.heads[i]
  BY <1>1
<1> HIDE DEF heads
<1>3. /\ t \in ProcessorState
      /\ t.phase = s.phase /\ t.fault = s.fault /\ t.hot = s.hot
      /\ t.final = s.final /\ t.heads = heads
  <2>1. t = [s EXCEPT !.heads = heads]
    BY DEF heads
  <2> HIDE DEF t
  <2> QED BY <1>2, <2>1 DEF ProcessorState
<1> HIDE DEF t
<1>4. StateHead(t) = head
  <2>1. CASE k = 0
    <3>1. heads = << >>
      BY <1>2, <2>1
    <3> QED BY <1>3, <2>1, <3>1 DEF StateHead, LastOf
  <2>2. CASE k # 0
    <3>1. heads # << >> /\ heads[Len(heads)] = s.heads[k]
      BY <1>2, <2>2
    <3> QED BY <1>3, <2>2, <3>1 DEF StateHead, LastOf
  <2> QED BY <2>1, <2>2
<1>5. /\ StateHead(s) \in Ref
      /\ \A i \in 1..Len(s.heads) : s.heads[i] \in Ref /\ On(s.heads[i], StateHead(s))
  BY <1>1 DEF StateHead, LastOf, Ref, MemoryIsChain
<1>6. head \in Ref /\ On(head, StateHead(s))
  BY <1>1, <1>5 DEF MemoryIsChain
<1>7. On(s.final, head)
  <2>1. CASE k = 0
    BY <1>1, <2>1, AncestorReflexive
  <2>2. CASE k # 0 /\ s.final # Origin
    <3>1. Height(s.final) <= Height(head)
      BY <1>1, <1>6, <2>2, HeightType
    <3> QED BY <1>1, <1>5, <1>6, <3>1, AncestorLinear DEF MemoryIsChain
  <2>3. CASE s.final = Origin
    BY <2>3 DEF On
  <2> QED BY <2>1, <2>2, <2>3
<1>8. ASSUME NEW i \in 1..k
      PROVE  On(s.heads[i], head)
  <2>1. CASE i = k
    BY <1>6, <2>1, AncestorReflexive
  <2>2. CASE i # k
    <3>1. i \in 1..(k - 1) /\ k # 0 /\ i \in 1..Len(s.heads)
      BY <1>1, <2>2
    <3>2. Height(s.heads[i]) < Height(head)
      BY <3>1
    <3>3. Height(s.heads[i]) <= Height(head)
      BY <1>5, <1>6, <3>1, <3>2, HeightType
    <3> QED BY <1>5, <1>6, <3>1, <3>3, AncestorLinear
  <2> QED BY <2>1, <2>2
<1>9. Height(head) <= Height(n.tip)
  <2>1. Height(head) <= Height(StateHead(s))
    BY <1>5, <1>6, AncestorHeight
  <2>2. Height(head) \in Int /\ Height(StateHead(s)) \in Int /\ Height(n.tip) \in Int
    BY <1>5, <1>6, HeightType
  <2> HIDE DEF head
  <2> QED BY <2>1, <2>2 DEF MemoryIsChain
<1>10. MemoryIsChain(t, n)
  BY <1>2, <1>3, <1>4, <1>7, <1>8, <1>9 DEF MemoryIsChain
<1> QED BY <1>2, <1>3, <1>4, <1>6, <1>10 DEF t, heads

\* A fork ends the process or puts it back on a block that it shares with the
\* source.
LEMMA HandleForkStep ==
    ASSUME ProcessorInv, NEW p \in Processor, HandleFork(p)
    PROVE  ProcessorInv' /\ UNCHANGED db
<1> USE InvFacts
<1> DEFINE s     == proc[p]
           below == IF s.final = Origin THEN << >> ELSE << s.final >>
           index == FindRollbackIndex(below \o s.heads, s.stream.fork)
           kept  == index - Len(below)
           lost  == ~ s.hot \/ (index = 0 /\ s.final # Origin)
           back  == [s EXCEPT !.heads = SubSeq(@, 1, kept)]
           t     == IF lost THEN Down("fork", s.hot) ELSE OpenStream(back)
<1>1. /\ s.phase = "run"
      /\ proc' = [proc EXCEPT ![p] = t]
      /\ UNCHANGED << db, source, used >>
  BY DEF HandleFork
<1>2. /\ s \in ProcessorState /\ s.hot \in BOOLEAN
      /\ MemoryIsChain(s, source) /\ Ascending(s.stream.fork)
  BY <1>1, Received DEF StreamContinues, ProcessorState
<1> HIDE DEF s
<1>3. t \in ProcessorState /\ ProcessFits(t, db, source)
  <2>1. CASE lost
    <3>1. t = Down("fork", s.hot) /\ "fork" \in Faults
      BY <2>1 DEF Faults
    <3> HIDE DEF t
    <3> QED BY <1>2, <3>1, DownFits
  <2>2. CASE ~lost
    <3>1. /\ kept \in 0..Len(s.heads)
          /\ kept # 0 => /\ s.final # Origin => Height(s.final) < Height(s.heads[kept])
                         /\ \A i \in 1..(kept - 1) : Height(s.heads[i]) < Height(s.heads[kept])
      BY <1>2, <2>2, RollbackIndexWorks
    <3> HIDE DEF kept
    <3>2. back \in ProcessorState /\ back.phase = s.phase /\ MemoryIsChain(back, source)
      BY <1>2, <3>1, KeptMemory
    <3> HIDE DEF back
    <3>3. t = OpenStream(back)
      BY <2>2 DEF back, kept
    <3> HIDE DEF t
    <3> QED BY <1>1, <3>2, <3>3, OpenStreamFits
  <2> QED BY <2>1, <2>2
<1>4. used' \in Bounds /\ db' = db /\ source' = source
  BY <1>1
<1> HIDE DEF t
<1> QED BY <1>1, <1>3, <1>4, LocalStep

\* A crash leaves the configuration and nothing else.
LEMMA CrashStep ==
    ASSUME ProcessorInv, NEW p \in Processor, Crash(p)
    PROVE  ProcessorInv' /\ UNCHANGED db
<1> USE InvFacts
<1>1. /\ used.crashes < MaxCrashes
      /\ used' = [used EXCEPT !.crashes = @ + 1]
      /\ proc' = [proc EXCEPT ![p] = Down("crash", proc[p].hot)]
      /\ UNCHANGED << db, source >>
  BY DEF Crash
<1>2. used' \in Bounds
  BY <1>1, ProcessorAssumption DEF Bounds
<1>3. proc[p].hot \in BOOLEAN /\ "crash" \in Faults
  BY DEF ProcessorState, Faults
<1>4. /\ Down("crash", proc[p].hot) \in ProcessorState
      /\ ProcessFits(Down("crash", proc[p].hot), db, source)
  BY <1>3, DownFits
<1> QED BY <1>1, <1>2, <1>4, LocalStep

\* So does a change of the configuration.
LEMMA ReconfigureStep ==
    ASSUME ProcessorInv, NEW p \in Processor, Reconfigure(p)
    PROVE  ProcessorInv' /\ UNCHANGED db
<1> USE InvFacts
<1>1. /\ proc' = [proc EXCEPT ![p] = Down("none", ~ proc[p].hot)]
      /\ UNCHANGED << db, source, used >>
  BY DEF Reconfigure
<1>2. (~ proc[p].hot) \in BOOLEAN /\ "none" \in Faults
  BY DEF ProcessorState, Faults
<1>3. /\ Down("none", ~ proc[p].hot) \in ProcessorState
      /\ ProcessFits(Down("none", ~ proc[p].hot), db, source)
  BY <1>2, DownFits
<1> QED BY <1>1, <1>3, LocalStep

\* One process and the tables change, the node does not.
LEMMA TablesStep ==
    ASSUME ProcessorInv, NEW p \in Processor, NEW t \in ProcessorState,
           ProcessFits(t, db', source), Sound(db'), TablesBelowTip(db', source),
           \/ db'.nonce > db.nonce
           \/ db'.nonce = db.nonce /\ db'.status = db.status /\ db'.hot = db.hot,
           proc' = [proc EXCEPT ![p] = t], source' = source, used' \in Bounds
    PROVE  ProcessorInv'
<1>1. proc' \in [Processor -> ProcessorState]
  BY InvFacts
<1>2. \A q \in Processor : proc'[q] = t \/ proc'[q] = proc[q]
  BY InvFacts
<1>3. db.nonce \in Nat /\ db'.nonce \in Nat /\ db' \in DatabaseState
  BY InvFacts, SoundType DEF Sound
<1>4. \A q \in Processor : ProcessFits(proc[q], db', source)
  BY <1>3, InvFacts, FitsTables
<1>5. \A q \in Processor : ProcessFits(proc'[q], db', source)
  BY <1>2, <1>4
<1>6. ProcessorTypeOK'
  BY <1>1, <1>3, InvFacts DEF ProcessorTypeOK, TypeOK, Bounds
<1>7. On(source'.fin, source'.tip) /\ TablesBelowTip(db', source')
  BY DEF ProcessorInv
<1>8. \A q \in Processor : ProcessFits(proc'[q], db', source')
  BY <1>5
<1>9. IndInv'
  BY DEF IndInv
<1> QED BY <1>6, <1>7, <1>8, <1>9 DEF ProcessorInv

\* What connect() reads is one chain: the status row and the hot rows.
LEMMA TablesAreChain ==
    ASSUME NEW d, Sound(d)
    PROVE  /\ Refs(d.hot) \in Seq(Block)
           /\ Len(Refs(d.hot)) = Len(d.hot)
           /\ \A j \in 1..Len(d.hot) : /\ Refs(d.hot)[j] = d.hot[j].ref
                                       /\ Refs(d.hot)[j] = d.applied[Settled(d) + j]
                                       /\ Settled(d) + j \in 1..Len(d.applied)
           /\ LastOf(d.status, Refs(d.hot)) = HeadOf(d)
           /\ On(d.status, HeadOf(d))
           /\ \A j \in 1..Len(d.hot) : On(Refs(d.hot)[j], HeadOf(d))
           /\ \/ HeadOf(d) = d.status
              \/ \E i \in 1..Len(d.applied) : HeadOf(d) = d.applied[i]
<1>1. /\ d.hot \in Seq(HotRow) /\ Len(d.hot) \in Nat /\ Settled(d) \in Nat
      /\ Len(d.applied) = Settled(d) + Len(d.hot)
  BY SoundType
<1>2. /\ Refs(d.hot) \in Seq(Block) /\ Len(Refs(d.hot)) = Len(d.hot)
      /\ \A j \in 1..Len(d.hot) : Refs(d.hot)[j] = d.hot[j].ref
  BY <1>1, RefsType
<1>3. \A j \in 1..Len(d.hot) : d.hot[j].ref = d.applied[Settled(d) + j]
  BY DEF Sound, RowsAreTail
<1>4. \A j \in 1..Len(d.hot) : Settled(d) + j \in 1..Len(d.applied)
  BY <1>1
<1>5. LastOf(d.status, Refs(d.hot)) = HeadOf(d)
  <2>1. CASE Len(d.hot) = 0
    <3>1. Refs(d.hot) = << >>
      BY <1>2, <2>1
    <3> QED BY <2>1, <3>1 DEF LastOf, HeadOf, RefAt
  <2>2. CASE Len(d.hot) # 0
    <3>1. Refs(d.hot) # << >> /\ Len(d.hot) \in 1..Len(d.hot)
      BY <1>1, <1>2, <2>2
    <3> QED BY <1>2, <2>2, <3>1 DEF LastOf, HeadOf, RefAt
  <2> QED BY <2>1, <2>2
<1>6. On(d.status, HeadOf(d))
  BY DEF Sound, HeadReflected
<1>7. ASSUME NEW j \in 1..Len(d.hot)
      PROVE  On(Refs(d.hot)[j], HeadOf(d))
  <2>1. j \in Positions(d) /\ RefAt(d, j) = d.hot[j].ref
    BY <1>1 DEF Positions, RefAt
  <2> QED BY <1>2, <2>1, SoundPositions
<1>8. \/ HeadOf(d) = d.status
      \/ \E i \in 1..Len(d.applied) : HeadOf(d) = d.applied[i]
  <2>1. CASE Len(d.hot) = 0
    BY <2>1 DEF HeadOf, RefAt
  <2>2. CASE Len(d.hot) # 0
    <3>1. Len(d.hot) \in 1..Len(d.hot)
      BY <1>1, <2>2
    <3>2. HeadOf(d) = d.applied[Settled(d) + Len(d.hot)]
      BY <1>3, <2>2, <3>1 DEF HeadOf, RefAt
    <3> QED BY <1>4, <3>1, <3>2
  <2> QED BY <2>1, <2>2
<1> QED BY <1>2, <1>3, <1>4, <1>5, <1>6, <1>7, <1>8

\* The process that connect() starts, before it opens its stream ...
Connected(d, hot) ==
    [Down("none", hot) EXCEPT !.phase = "run", !.final = d.status, !.heads = Refs(d.hot)]

\* ... remembers what the tables hold.
LEMMA StartMemory ==
    ASSUME NEW d, Sound(d), NEW hot \in BOOLEAN, NEW n, n.tip \in Ref, TablesBelowTip(d, n)
    PROVE  LET s == Connected(d, hot)
           IN  /\ s \in ProcessorState
               /\ s.phase = "run" /\ s.fault = "none" /\ s.hot = hot
               /\ s.final = d.status /\ s.heads = Refs(d.hot)
               /\ StateHead(s) = HeadOf(d)
               /\ MemoryIsChain(s, n)
<1> DEFINE heads == Refs(d.hot)
           down == Down("none", hot)
           s == Connected(d, hot)
<1>0. s = [down EXCEPT !.phase = "run", !.final = d.status, !.heads = heads]
  BY DEF Connected
<1>1. down \in ProcessorState /\ down.hot = hot /\ down.fault = "none"
  BY DownFits DEF Faults
<1>2. heads \in Seq(Block) /\ d.status \in Ref
  BY TablesAreChain, SoundType
<1> HIDE DEF heads, down, s
<1>3. /\ s \in ProcessorState
      /\ s.phase = "run" /\ s.fault = "none" /\ s.hot = hot
      /\ s.final = d.status /\ s.heads = heads
  BY <1>0, <1>1, <1>2 DEF ProcessorState
<1>4. StateHead(s) = HeadOf(d)
  BY <1>3, TablesAreChain DEF StateHead, heads
<1>5. Height(HeadOf(d)) <= Height(n.tip)
  BY TablesAreChain DEF TablesBelowTip
<1>6. MemoryIsChain(s, n)
  BY <1>3, <1>4, <1>5, TablesAreChain DEF MemoryIsChain, heads
<1> QED BY <1>3, <1>4, <1>6 DEF s, heads, down

\* connect() is a step of the database component.
LEMMA StartStep ==
    ASSUME ProcessorInv, NEW p \in Processor, Start(p)
    PROVE  ProcessorInv' /\ [Next]_db
<1> USE InvFacts
<1> DEFINE s == Connected(db, proc[p].hot)
           t == OpenStream(s)
<1>1. /\ db' = RepairOrphans(db)
      /\ proc' = [proc EXCEPT ![p] = t]
      /\ UNCHANGED << source, used >>
  BY DEF Start, Connected
<1>2. proc[p].hot \in BOOLEAN
  BY DEF ProcessorState
<1>3. s \in ProcessorState /\ s.phase = "run" /\ MemoryIsChain(s, source)
  BY <1>2, StartMemory
<1> HIDE DEF s
<1>4. t \in ProcessorState /\ ProcessFits(t, db', source)
  BY <1>3, OpenStreamFits
<1> HIDE DEF t
<1>5. Sound(db') /\ db'.status = db.status /\ db'.applied = db.applied
  BY <1>1, RepairSound
<1>6. db'.nonce = db.nonce /\ db'.hot = db.hot
  BY <1>1 DEF RepairOrphans, DatabaseState
<1>7. TablesBelowTip(db', source)
  BY <1>5 DEF TablesBelowTip
<1>8. [Next]_db
  BY <1>1 DEF Next, Connect
<1> QED BY <1>1, <1>4, <1>5, <1>6, <1>7, <1>8, TablesStep

\* Every block of mapped is one of those before, or one of the batch.
FromBoth(mapped, before, batch) ==
    \A i \in 1..Len(mapped) : \/ \E k \in 1..Len(before) : mapped[i] = before[k]
                              \/ \E j \in 1..Len(batch) : mapped[i] = batch[j]

\* What a transaction leaves in the tables: the finalized head on the chain of its
\* batch, and blocks that were there or are of the batch.
Carries(d, e, s, last) ==
    /\ Sound(e)
    /\ e.nonce = d.nonce + 1
    /\ On(e.status, last)
    /\ FromBoth(e.applied, d.applied, s)

\* The tables of a transaction that keeps some of the mapped blocks and adds the
\* batch.
LEMMA KeepAndAdd ==
    ASSUME NEW d, Sound(d), NEW k \in Positions(d), NEW s \in Seq(Block)
    PROVE  FromBoth(RollbackTo(d, k).applied \o s, d.applied, s)
<1> DEFINE P == RollbackTo(d, k).applied
<1>1. /\ P \in Seq(Block) /\ Len(P) \in Nat /\ Len(P) = Settled(d) + k
      /\ \A i \in 1..Len(P) : P[i] = d.applied[i]
  BY RollbackFields, RollbackSound, SoundType
<1>2. Len(P) <= Len(d.applied) /\ Len(d.applied) \in Nat
  BY <1>1, SoundType DEF Positions
<1> HIDE DEF P
<1> DEFINE a == P \o s
<1>3. /\ Len(a) = Len(P) + Len(s)
      /\ \A i \in 1..Len(P) : a[i] = P[i]
      /\ \A j \in 1..Len(s) : a[Len(P) + j] = s[j]
  <2>1. P \in Seq(Block) /\ a = P \o s
    BY <1>1
  <2> HIDE DEF a
  <2> QED BY <2>1, ConcatPieces
<1> HIDE DEF a
<1>4. ASSUME NEW i \in 1..Len(a)
      PROVE  \/ \E m \in 1..Len(d.applied) : a[i] = d.applied[m]
             \/ \E j \in 1..Len(s) : a[i] = s[j]
  <2>1. Len(s) \in Nat
    OBVIOUS
  <2>2. CASE i <= Len(P)
    <3>1. i \in 1..Len(P) /\ i \in 1..Len(d.applied)
      BY <1>1, <1>2, <1>3, <2>1, <2>2
    <3> QED BY <1>1, <1>3, <3>1
  <2>3. CASE i > Len(P)
    <3>1. i - Len(P) \in 1..Len(s) /\ Len(P) + (i - Len(P)) = i
      BY <1>1, <1>3, <2>1, <2>3
    <3> QED BY <1>3, <3>1
  <2> QED BY <1>1, <1>3, <2>1, <2>2, <2>3
<1> QED BY <1>4 DEF FromBoth, a, P

\* An open transaction commits as a transaction of the database component.
LEMMA CommitIsSubmit ==
    ASSUME Ungrouped, ProcessorInv, NEW p \in Processor, Commit(p)
    PROVE  /\ [Next]_db
           /\ Carries(db, db', proc[p].tx.blocks, LastOf(proc[p].tx.base, proc[p].tx.blocks))
<1> USE InvFacts
<1> DEFINE s    == proc[p]
           tx   == s.tx
           base == tx.base
           blocks == tx.blocks
           fin  == tx.final
           last == LastOf(base, blocks)
<1>0. Sound(db)
  OBVIOUS
<1>1. /\ s.phase = "tx" /\ db.nonce = tx.nonce /\ db.nonce < MaxNonce
      /\ db' = IF s.hot THEN TransactHot2(db, HotInfo(tx)) ELSE Transact(db, FinalInfo(tx))
  BY DEF Commit
<1>2. /\ s \in ProcessorState /\ s.hot \in BOOLEAN
      /\ base \in Ref /\ fin \in Ref
      /\ TransactionFits(s, db)
  BY <1>1 DEF ProcessFits, ProcessorState, TxState
<1>3. /\ blocks \in Deliveries(base) \cup {<< >>}
      /\ ~ s.hot => blocks # << >>
      /\ s.hot => On(fin, last)
      /\ TxFault(db, s.hot, tx) = "none"
  BY <1>1, <1>2 DEF TransactionFits
<1>4. blocks \in Seq(Block) /\ last \in Ref /\ On(base, last)
  BY <1>2, <1>3, DeliveryFacts
<1>5. CASE s.hot
  <2>1. TransactHot2Asserts(db, HotInfo(tx))
    BY <1>3, <1>5, Zenon DEF TxFault
  <2> DEFINE info == [finalizedHead |-> fin, baseHead |-> base, newBlocks |-> blocks]
  <2>2. HotInfo(tx) = info
    BY DEF HotInfo
  <2>3. db' = TransactHot2(db, info)
    BY <1>1, <1>5, <2>2
  <2>4. SubmitHot(base, blocks, fin)
    BY <1>1, <1>3, <1>5, <2>1, <2>2, <2>3 DEF SubmitHot
  <2>5. [Next]_db
    BY <1>2, <1>3, <2>4 DEF Next
  <2>6. IsBase(db, base) /\ Batch(base, blocks)
    BY <1>3, <2>1 DEF TransactHot2Asserts, HotInfo, Batch
  <2> DEFINE k == BasePos(db, base)
             e == EffectiveFinalizedHead(db, fin)
  <2>7. k \in Positions(db) /\ On(e, last)
    BY <1>2, <1>3, <1>5, <2>6, HotSetup
  <2>8. /\ db'.status = e /\ db'.nonce = db.nonce + 1
        /\ db'.applied = RollbackTo(db, k).applied \o blocks
    BY <2>3 DEF TransactHot2
  <2>9. Sound(db')
    BY <1>2, <1>3, <1>5, <2>3, <2>6, TransactHot2Sound
  <2> HIDE DEF k, e, s, tx, base, blocks, last
  <2>10. FromBoth(db'.applied, db.applied, blocks)
    BY <1>0, <1>4, <2>7, <2>8, KeepAndAdd
  <2>11. Carries(db, db', blocks, last)
    BY <2>7, <2>8, <2>9, <2>10 DEF Carries
  <2> QED BY <2>5, <2>11 DEF s, tx, base, blocks, last
<1>6. CASE ~ s.hot
  <2>1. TransactAsserts(db, FinalInfo(tx)) /\ db.status = base
    BY <1>3, <1>6, Zenon DEF TxFault
  <2> DEFINE info == [prevHead |-> base, nextHead |-> last, newBlocks |-> blocks]
  <2>2. FinalInfo(tx) = info
    BY DEF FinalInfo
  <2>3. db' = Transact(db, info)
    BY <1>1, <1>6, <2>2
  <2>4. blocks \in Deliveries(base)
    BY <1>3, <1>6
  <2>5. SubmitFinal(base, blocks)
    BY <1>1, <2>1, <2>2, <2>3 DEF SubmitFinal
  <2>6. [Next]_db
    BY <1>2, <2>4, <2>5 DEF Next
  <2>7. 0 \in Positions(db)
    BY SoundType DEF Positions
  <2>8. /\ db'.status = last /\ db'.nonce = db.nonce + 1
        /\ db'.applied = RollbackTo(db, 0).applied \o blocks
    BY <2>3 DEF Transact
  <2>9. Sound(db')
    BY <1>2, <2>1, <2>3, <2>4, TransactSound
  <2> HIDE DEF s, tx, base, blocks, last
  <2>10. FromBoth(db'.applied, db.applied, blocks)
    BY <1>0, <1>4, <2>7, <2>8, KeepAndAdd
  <2>11. Carries(db, db', blocks, last)
    BY <1>4, <2>8, <2>9, <2>10, AncestorReflexive DEF Carries
  <2> QED BY <2>6, <2>11 DEF s, tx, base, blocks, last
<1> QED BY <1>2, <1>5, <1>6

\* The commit of a transaction: what the process remembers afterwards is what it
\* has written, and everybody else has to read the tables again.
LEMMA CommitStep ==
    ASSUME Ungrouped, ProcessorInv, NEW p \in Processor, Commit(p)
    PROVE  ProcessorInv' /\ [Next]_db
<1> USE InvFacts
<1> DEFINE s    == proc[p]
           t    == AfterCommit(s)
           blocks == s.tx.blocks
           last == LastOf(s.tx.base, blocks)
<1>1. s.phase = "tx" /\ proc' = [proc EXCEPT ![p] = t] /\ UNCHANGED << source, used >>
  BY DEF Commit
<1>2. /\ s \in ProcessorState
      /\ MemoryIsChain(s, source) /\ StreamContinues(s, source) /\ TransactionFits(s, db)
  BY <1>1 DEF ProcessFits
<1>3. [Next]_db /\ Carries(db, db', blocks, last)
  BY CommitIsSubmit
<1>4. s.tx.base \in Ref /\ blocks \in Deliveries(s.tx.base) \cup {<< >>}
  BY <1>2 DEF TransactionFits, ProcessorState, TxState
<1>5. /\ last \in Ref
      /\ \A j \in 1..Len(blocks) : blocks[j] \in Ref /\ On(blocks[j], last)
  BY <1>4, DeliveryFacts
<1>6. Height(last) <= Height(source.tip) /\ Height(last) \in Int
  <2>1. BatchBase(s) = last
    BY <1>1 DEF BatchBase
  <2> QED BY <1>1, <1>5, <2>1, Received, HeightType
<1>7. t \in ProcessorState /\ ProcessFits(t, db', source)
  BY <1>1, <1>2, CommitFits
<1> HIDE DEF s, t, blocks, last
<1>8. /\ Sound(db') /\ db'.nonce = db.nonce + 1 /\ On(db'.status, last)
      /\ FromBoth(db'.applied, db.applied, blocks)
  BY <1>3 DEF Carries
<1>9. TablesBelowTip(db', source)
  <2>1. db'.status \in Ref /\ \A i \in 1..Len(db'.applied) : db'.applied[i] \in Ref
    BY <1>8, SoundType
  <2>2. Height(db'.status) <= Height(source.tip)
    BY <1>5, <1>6, <1>8, <2>1, AncestorHeight, HeightType
  <2>3. ASSUME NEW i \in 1..Len(db'.applied)
        PROVE  Height(db'.applied[i]) <= Height(source.tip)
    <3>1. CASE \E k \in 1..Len(db.applied) : db'.applied[i] = db.applied[k]
      BY <3>1 DEF TablesBelowTip
    <3>2. CASE \E j \in 1..Len(blocks) : db'.applied[i] = blocks[j]
      <4>1. PICK j \in 1..Len(blocks) : db'.applied[i] = blocks[j]
        BY <3>2
      <4>2. blocks[j] \in Ref /\ Height(blocks[j]) <= Height(last)
        BY <1>5, AncestorHeight
      <4>3. Height(blocks[j]) \in Int
        BY <4>2, HeightType
      <4> QED BY <1>6, <4>1, <4>2, <4>3
    <3> QED BY <1>8, <3>1, <3>2 DEF FromBoth
  <2> QED BY <2>2, <2>3 DEF TablesBelowTip
<1>10. db'.nonce > db.nonce
  BY <1>8
<1>11. ProcessorInv'
  BY <1>1, <1>7, <1>8, <1>9, <1>10, TablesStep
<1> QED BY <1>3, <1>11

\* The processes are down, the tables empty and the node knows no block.
LEMMA ProcessorInitSound == ProcessorInit => ProcessorInv
<1> SUFFICES ASSUME ProcessorInit
             PROVE  ProcessorInv
  OBVIOUS
<1>1. /\ Init
      /\ source = [tip |-> Origin, fin |-> Origin]
      /\ used = [reorgs |-> 0, crashes |-> 0, aborts |-> 0, idle |-> 0, headers |-> 0]
  BY DEF ProcessorInit
<1>2. PICK hot \in Modes : proc = [p \in Processor |-> Down("none", hot)]
  BY DEF ProcessorInit
<1>3. hot \in BOOLEAN /\ "none" \in Faults
  BY ProcessorAssumption DEF Faults
<1>4. proc \in [Processor -> ProcessorState]
      /\ \A p \in Processor : ProcessFits(proc[p], db, source)
  BY <1>2, <1>3, DownFits
<1>5. IndInv /\ db \in DatabaseState
  BY <1>1, InitSound DEF IndInv, Sound
<1>6. Origin \in Ref /\ On(Origin, Origin)
  BY DEF Ref, On
<1>7. TablesBelowTip(db, source)
  <2>1. db.status = Origin /\ Len(db.applied) = 0 /\ source.tip = Origin
    BY <1>1 DEF Init, EmptyDatabase
  <2>2. Height(Origin) \in Int
    BY <1>6, HeightType
  <2> QED BY <2>1, <2>2 DEF TablesBelowTip
<1>8. used \in [reorgs : 0..MaxReorgs, crashes : 0..MaxCrashes,
                aborts : 0..MaxAborts, idle : 0..MaxIdle, headers : 0..MaxHeaders]
  BY <1>1, ProcessorAssumption
<1>9. ProcessorTypeOK
  BY <1>1, <1>4, <1>5, <1>6, <1>8 DEF ProcessorTypeOK, TypeOK
<1> QED BY <1>1, <1>4, <1>5, <1>6, <1>7, <1>9 DEF ProcessorInv

\* Every step of the node, of the streams and of the processes.
LEMMA ProcessorNextSound ==
    ASSUME Ungrouped
    PROVE  ProcessorInv /\ [ProcessorNext]_vars => ProcessorInv' /\ [Next]_db
<1> SUFFICES ASSUME ProcessorInv, [ProcessorNext]_vars
             PROVE  ProcessorInv' /\ [Next]_db
  OBVIOUS
<1>1. CASE NewBlock \/ Reorg \/ Finalize
  BY <1>1, NodeStep
<1>2. ASSUME NEW p \in Processor,
             \/ \E r \in Reportable : ReceiveHeader(p, r)
             \/ \E r \in Reportable : ReceiveBlocks(p, r)
             \/ \E r \in Reportable : ReceiveNoData(p, r)
             \/ ReceiveFork(p)
      PROVE  ProcessorInv' /\ [Next]_db
  BY <1>2, ReceiveHeaderStep, ReceiveBlocksStep, ReceiveNoDataStep, ReceiveForkStep
<1>3. ASSUME NEW p \in Processor, Start(p) \/ Commit(p)
      PROVE  ProcessorInv' /\ [Next]_db
  BY <1>3, StartStep, CommitStep
<1>4. ASSUME NEW p \in Processor, Reconfigure(p) \/ TakeBatch(p) \/ HandleFork(p) \/ Crash(p)
      PROVE  ProcessorInv' /\ [Next]_db
  BY <1>4, ReconfigureStep, TakeBatchStep, HandleForkStep, CrashStep
<1>5. ASSUME NEW p \in Processor, NEW n \in 0..Len(proc[p].tx.blocks), Abort(p, n)
      PROVE  ProcessorInv' /\ [Next]_db
  <2>1. n \in Nat
    <3>1. proc[p].tx.blocks \in Seq(Block)
      BY InvFacts DEF ProcessorState, TxState
    <3> QED BY <3>1
  <2> QED BY <1>5, <2>1, AbortStep
<1>6. CASE UNCHANGED vars
  <2>1. db' = db /\ source' = source /\ proc' = proc /\ used' = used
    BY <1>6 DEF vars
  <2>2. \A p \in Processor : ProcessFits(proc'[p], db', source')
    BY <2>1, InvFacts
  <2> QED BY <2>1, <2>2 DEF ProcessorInv, ProcessorTypeOK, TypeOK, IndInv
<1> QED BY <1>1, <1>2, <1>3, <1>4, <1>5, <1>6 DEF ProcessorNext

------------------------------------------------------------------------------
(***************************************************************************)
(* Whatever the node, the stream, the crashes and the other processes on    *)
(* the same tables do: what a process remembers is one chain, its buffer    *)
(* continues it, and an open transaction is one the tables would admit.     *)
(***************************************************************************)
THEOREM ProcessorInvAlways ==
    ASSUME Ungrouped
    PROVE  ProcessorSpec => []ProcessorInv
<1>1. ProcessorInit => ProcessorInv
  BY ProcessorInitSound
<1>2. ProcessorInv /\ [ProcessorNext]_vars => ProcessorInv'
  BY ProcessorNextSound
<1> QED BY <1>1, <1>2, PTL DEF ProcessorSpec

(***************************************************************************)
(* The processor loop meets the database on its terms: every commit of      *)
(* processBatch() is a transaction the database component admits on its own. *)
(***************************************************************************)
THEOREM ProcessorImplementsDatabase ==
    ASSUME Ungrouped
    PROVE  ProcessorSpec => UsesDatabaseAsSpecified
<1>1. ProcessorInit => Init
  BY DEF ProcessorInit
<1>2. ProcessorInv /\ [ProcessorNext]_vars => [Next]_db
  BY ProcessorNextSound
<1> QED BY <1>1, <1>2, ProcessorInvAlways, PTL DEF ProcessorSpec, UsesDatabaseAsSpecified, Spec

(***************************************************************************)
(* So any number of processors on the same tables, through forks, crashes   *)
(* and aborted transactions, index one chain, and completely.               *)
(***************************************************************************)
THEOREM ProcessorIndexesChain ==
    ASSUME Ungrouped
    PROVE  ProcessorSpec => ImplementsIndexedChain
BY ProcessorImplementsDatabase, DatabaseImplementsIndexedChain, PTL DEF UsesDatabaseAsSpecified

(***************************************************************************)
(* ... never undo a finalized block, whichever of them reports it ...       *)
(***************************************************************************)
THEOREM ProcessorKeepsFinalized ==
    ASSUME Ungrouped
    PROVE  ProcessorSpec => FinalizedIsPermanent
BY ProcessorImplementsDatabase, FinalizedIsAlwaysPermanent, PTL DEF UsesDatabaseAsSpecified

(***************************************************************************)
(* ... and find in the tables, whenever they connect, a chain any block of  *)
(* which can be rolled back to.                                             *)
(***************************************************************************)
THEOREM ProcessorAddressable ==
    ASSUME Ungrouped
    PROVE  ProcessorSpec => [](Addressable /\ ConnectAssertsHold)
BY ProcessorImplementsDatabase, AddressableAlways, ConnectAssertsAlwaysHold, PTL
   DEF UsesDatabaseAsSpecified
=============================================================================
