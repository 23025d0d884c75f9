------------------------------ MODULE RpcProofs ------------------------------
(***************************************************************************)
(* Proofs about the parts of an RPC connection (MCRpc), for every value of   *)
(* their constants.                                                         *)
(***************************************************************************)
EXTENDS MCRpc, Integers, Sequences, FiniteSetTheorems, TLAPS

\* What a component does is a step of it, or it rests.
LEMMA StepOfOne ==
    ASSUME [Next]_vars
    PROVE  /\ [Client!Next]_clientVars /\ [Subscription!Next]_subscriptionVars
           /\ [Meter!Next]_meterVars
BY DEF Next, vars, clientVars, subscriptionVars, meterVars, loopVars

------------------------------------------------------------------------------
(***************************************************************************)
(* RpcClient: the first n calls of the queue are n calls.                    *)
(***************************************************************************)
Below(Q, x) == {q \in Q : q < x}

Lowest(Q, n) == {r \in Q : Cardinality(Below(Q, r)) < n}

\* A set of numbers has a least one.
LEMMA LeastNatural ==
    ASSUME NEW T, T \subseteq Nat, T # {}
    PROVE  \E x \in T : \A y \in T : x <= y
<1> DEFINE R == OpToRel(<, Nat)
<1>1. IsWellFoundedOn(R, Nat)
  BY NatLessThanWellFounded
<1>2. \A x, y \in Nat : <<y, x>> \in R <=> y < x
  BY DEF OpToRel
<1> HIDE DEF R
<1>3. PICK x \in T : \A y \in T : ~(<<y, x>> \in R)
  BY <1>1, WFMin
<1>4. \A y \in T : ~(y < x)
  BY <1>2, <1>3
<1>5. x \in Nat /\ \A y \in T : y \in Nat
  OBVIOUS
<1> QED BY <1>4, <1>5, SMT

\* The number of the elements below an element grows with it.
LEMMA BelowGrows ==
    ASSUME NEW Q, IsFiniteSet(Q), Q \subseteq Nat, NEW x \in Q, NEW y \in Q, x < y
    PROVE  /\ Cardinality(Below(Q, x)) \in Nat
           /\ Cardinality(Below(Q, y)) \in Nat
           /\ Cardinality(Below(Q, x)) < Cardinality(Below(Q, y))
<1> DEFINE bx == Below(Q, x)
           by == Below(Q, y)
<1>1. bx \in SUBSET Q /\ by \in SUBSET Q  BY DEF Below
<1>2. bx \in SUBSET by /\ x \in by /\ x \notin bx
  <2>1. x \in by  BY DEF Below
  <2>2. x \notin bx  BY DEF Below
  <2>3. ASSUME NEW q \in bx PROVE q \in by
    <3>1. q \in Q /\ q \in Nat /\ q < x  BY DEF Below
    <3>2. q < y  BY <3>1
    <3> QED BY <3>1, <3>2 DEF Below
  <2> HIDE DEF bx, by
  <2> QED BY <2>1, <2>2, <2>3
<1>3. IsFiniteSet(bx) /\ IsFiniteSet(by)  BY <1>1, FS_Subset
<1> HIDE DEF bx, by
<1>4. Cardinality(bx) <= Cardinality(by) /\ (Cardinality(by) = Cardinality(bx) => by = bx)
  BY <1>2, <1>3, FS_Subset
<1>5. Cardinality(bx) \in Nat /\ Cardinality(by) \in Nat  BY <1>3, FS_CardinalityType
<1>6. bx # by  BY <1>2
<1>7. Cardinality(bx) < Cardinality(by)  BY <1>4, <1>5, <1>6
<1> QED BY <1>5, <1>7 DEF bx, by

\* One more: the least of those that are left.
LEMMA LowestGrows ==
    ASSUME NEW Q, IsFiniteSet(Q), Q \subseteq Nat, NEW k \in Nat,
           Cardinality(Lowest(Q, k)) = k, k < Cardinality(Q)
    PROVE  Cardinality(Lowest(Q, k + 1)) = k + 1
<1> DEFINE low == Lowest(Q, k)
<1>1. low \in SUBSET Q  BY DEF Lowest
<1>2. IsFiniteSet(low)  BY <1>1, FS_Subset
<1>3. Q \ low # {}
  <2>1. low # Q  BY <1>2
  <2> QED BY <1>1, <2>1
<1>4. PICK x \in Q \ low : \A y \in Q \ low : x <= y
  BY <1>3, LeastNatural
<1>5. Cardinality(Below(Q, x)) = k
  <2>1. ASSUME NEW q \in Below(Q, x) PROVE q \in low
    <3>1. q \in Q /\ q < x  BY DEF Below
    <3> HIDE DEF low
    <3> QED BY <1>4, <3>1
  <2>2. ASSUME NEW q \in low PROVE q \in Below(Q, x)
    <3>1. q \in Q /\ Cardinality(Below(Q, q)) < k  BY DEF Lowest
    <3>2. ~ Cardinality(Below(Q, x)) < k  BY <1>4 DEF Lowest
    <3>3. CASE x < q
      <4>1. /\ Cardinality(Below(Q, x)) \in Nat /\ Cardinality(Below(Q, q)) \in Nat
            /\ Cardinality(Below(Q, x)) < Cardinality(Below(Q, q))
        BY <1>4, <3>1, <3>3, BelowGrows
      <4> QED BY <3>1, <3>2, <4>1
    <3>4. x # q  BY <1>4
    <3> QED BY <1>4, <3>1, <3>3, <3>4 DEF Below
  <2>3. Below(Q, x) = low
    <3> HIDE DEF low
    <3> QED BY <2>1, <2>2
  <2> QED BY <2>3
<1>6. Lowest(Q, k + 1) = low \cup {x}
  <2>1. x \in Lowest(Q, k + 1)  BY <1>5 DEF Lowest
  <2>2. ASSUME NEW q \in low PROVE q \in Lowest(Q, k + 1)
    <3>1. q \in Q /\ Cardinality(Below(Q, q)) < k  BY DEF Lowest
    <3>2. Below(Q, q) \in SUBSET Q  BY DEF Below
    <3>3. Cardinality(Below(Q, q)) \in Nat  BY <3>2, FS_Subset, FS_CardinalityType
    <3>4. Cardinality(Below(Q, q)) < k + 1  BY <3>1, <3>3
    <3> QED BY <3>1, <3>4 DEF Lowest
  <2>3. ASSUME NEW q \in Lowest(Q, k + 1), q \notin low PROVE q = x
    <3>1. q \in Q /\ Cardinality(Below(Q, q)) < k + 1  BY DEF Lowest
    <3>2. x <= q /\ q \in Nat /\ x \in Nat  BY <1>4, <2>3, <3>1
    <3>3. CASE x < q
      <4>1. /\ Cardinality(Below(Q, q)) \in Nat
            /\ Cardinality(Below(Q, x)) < Cardinality(Below(Q, q))
        BY <1>4, <3>1, <3>3, BelowGrows
      <4> QED BY <1>5, <3>1, <4>1
    <3> QED BY <3>2, <3>3
  <2> HIDE DEF low
  <2> QED BY <2>1, <2>2, <2>3
<1>7. Cardinality(low \cup {x}) = k + 1
  <2>1. x \notin low  BY <1>4
  <2> HIDE DEF low
  <2> QED BY <1>2, <2>1, FS_AddElement DEF low
<1> QED BY <1>6, <1>7

LEMMA LowestCount ==
    ASSUME NEW Q, IsFiniteSet(Q), Q \subseteq Nat, NEW n \in Nat, n <= Cardinality(Q)
    PROVE  Cardinality(Lowest(Q, n)) = n
<1> DEFINE Bad == {m \in Nat : m <= Cardinality(Q) /\ Cardinality(Lowest(Q, m)) # m}
<1> SUFFICES ASSUME Bad # {} PROVE FALSE
  OBVIOUS
<1>1. PICK m \in Bad : \A k \in Bad : m <= k
  <2>1. Bad \subseteq Nat  OBVIOUS
  <2> HIDE DEF Bad
  <2> QED BY <2>1, LeastNatural
<1>2. m \in Nat /\ m <= Cardinality(Q) /\ Cardinality(Lowest(Q, m)) # m  BY <1>1
<1>3. Cardinality(Q) \in Nat  BY FS_CardinalityType
<1>4. CASE m = 0
  <2>1. ASSUME NEW r \in Q PROVE ~ Cardinality(Below(Q, r)) < 0
    <3>1. Below(Q, r) \in SUBSET Q  BY DEF Below
    <3>2. Cardinality(Below(Q, r)) \in Nat  BY <3>1, FS_Subset, FS_CardinalityType
    <3> QED BY <3>2
  <2>2. Lowest(Q, 0) = {}  BY <2>1 DEF Lowest
  <2>3. Cardinality({}) = 0  BY FS_EmptySet
  <2> QED BY <1>2, <1>4, <2>2, <2>3
<1>5. CASE m # 0
  <2> DEFINE k == m - 1
  <2>1. k \in Nat /\ m = k + 1 /\ k < Cardinality(Q) /\ ~ m <= k  BY <1>2, <1>3, <1>5
  <2>2. k \notin Bad
    <3> HIDE DEF Bad, k
    <3> QED BY <1>1, <2>1
  <2> HIDE DEF k
  <2>3. Cardinality(Lowest(Q, k)) = k
    BY <1>3, <2>1, <2>2
  <2>4. Cardinality(Lowest(Q, k + 1)) = k + 1  BY <2>1, <2>3, LowestGrows
  <2> QED BY <1>2, <2>1, <2>4
<1> QED BY <1>4, <1>5
------------------------------------------------------------------------------
(***************************************************************************)
(* RpcClient: what send() and its handlers make of the client's record.      *)
(***************************************************************************)
States == {"new", "queued", "sent", "resolved", "rejected"}

Requests == [state : States, attempts : 0..RetryAttempts, epoch : Nat]

Clients == [req : [Calls -> Requests], capacity : Nat,
            sched : {"none", "task", "pause", "connect"},
            paused : BOOLEAN, epoch : Nat, closed : BOOLEAN]

\* The counting of RpcClient is that of the library.
LEMMA SameCounting ==
    /\ \A S : Client!Cardinality(S) = Cardinality(S)
    /\ \A S : Client!IsFiniteSet(S) = IsFiniteSet(S)
BY DEF Client!Cardinality, Cardinality, Client!IsFiniteSet, IsFiniteSet

LEMMA ClientFields ==
    ASSUME NEW c, c \in Clients
    PROVE  /\ c = [req |-> c.req, capacity |-> c.capacity, sched |-> c.sched,
                   paused |-> c.paused, epoch |-> c.epoch, closed |-> c.closed]
           /\ c.req \in [Calls -> Requests] /\ c.capacity \in Nat
           /\ c.sched \in {"none", "task", "pause", "connect"}
           /\ c.paused \in BOOLEAN /\ c.epoch \in Nat /\ c.closed \in BOOLEAN
BY DEF Clients

LEMMA ClientRecord ==
    ASSUME NEW req \in [Calls -> Requests], NEW capacity \in Nat,
           NEW sched \in {"none", "task", "pause", "connect"},
           NEW paused \in BOOLEAN, NEW epoch \in Nat, NEW closed \in BOOLEAN
    PROVE  [req |-> req, capacity |-> capacity, sched |-> sched, paused |-> paused,
            epoch |-> epoch, closed |-> closed] \in Clients
BY Zenon DEF Clients

\* A change of what is true or false of a client.
LEMMA ClosedRecord ==
    ASSUME NEW c \in Clients, NEW flag, NEW d, d = [c EXCEPT !.closed = flag]
    PROVE  d = [req |-> c.req, capacity |-> c.capacity, sched |-> c.sched,
                paused |-> c.paused, epoch |-> c.epoch, closed |-> flag]
BY ClientFields

LEMMA PausedRecord ==
    ASSUME NEW c \in Clients, NEW flag, NEW sched, NEW d,
           d = [c EXCEPT !.paused = flag, !.sched = sched]
    PROVE  d = [req |-> c.req, capacity |-> c.capacity, sched |-> sched,
                paused |-> flag, epoch |-> c.epoch, closed |-> c.closed]
<1>1. c = [req |-> c.req, capacity |-> c.capacity, sched |-> c.sched,
           paused |-> c.paused, epoch |-> c.epoch, closed |-> c.closed]
  BY ClientFields
<1> DEFINE e == [c EXCEPT !.paused = flag]
<1>2. d = [e EXCEPT !.sched = sched]  OBVIOUS
<1>3. e = [req |-> c.req, capacity |-> c.capacity, sched |-> c.sched,
           paused |-> flag, epoch |-> c.epoch, closed |-> c.closed]
  BY <1>1
<1> HIDE DEF e
<1> QED BY <1>2, <1>3

\* Everything but the requests, and everything but the schedule, is as it was.
KeepsRest(c, d) ==
    /\ d.capacity = c.capacity /\ d.sched = c.sched /\ d.paused = c.paused
    /\ d.epoch = c.epoch /\ d.closed = c.closed

KeepsCalls(c, d) == \A st \in States : Client!In(d, st) = Client!In(c, st)

\* The calls S are in the state st now, all others where they were.
Moves(c, d, S, st) ==
    /\ d \in Clients
    /\ KeepsRest(c, d)
    /\ Client!In(d, st) = Client!In(c, st) \cup S
    /\ \A other \in States \ {st} : Client!In(d, other) = Client!In(c, other) \ S

LEMMA RequestState ==
    ASSUME NEW q \in Requests, NEW st \in States, NEW p, p = [q EXCEPT !.state = st]
    PROVE  p \in Requests /\ p.state = st
<1>1. q = [state |-> q.state, attempts |-> q.attempts, epoch |-> q.epoch]
      /\ q.attempts \in 0..RetryAttempts /\ q.epoch \in Nat
  BY DEF Requests
<1>2. p = [state |-> st, attempts |-> q.attempts, epoch |-> q.epoch]
  BY <1>1
<1> QED BY <1>1, <1>2 DEF Requests

LEMMA PutMoves ==
    ASSUME NEW c \in Clients, NEW S \in SUBSET Calls, NEW st \in States,
           NEW d, d = Client!Put(c, S, st)
    PROVE  Moves(c, d, S, st)
<1> DEFINE to == [r \in Calls |-> IF r \in S THEN [c.req[r] EXCEPT !.state = st] ELSE c.req[r]]
<1>1. d = [c EXCEPT !.req = to]  BY Zenon DEF Client!Put
<1>2. ASSUME NEW r \in Calls
      PROVE  /\ to[r] \in Requests
             /\ to[r].state = IF r \in S THEN st ELSE c.req[r].state
  <2>1. c.req[r] \in Requests  BY ClientFields
  <2>2. CASE r \in S
    <3> DEFINE p == [c.req[r] EXCEPT !.state = st]
    <3>1. to[r] = p  BY <2>2
    <3>2. p \in Requests /\ p.state = st  BY <2>1, RequestState
    <3> QED BY <2>2, <3>1, <3>2
  <2>3. CASE r \notin S  BY <2>1, <2>3
  <2> QED BY <2>2, <2>3
<1>3. to \in [Calls -> Requests]
  <2>1. to = [r \in Calls |-> to[r]]  OBVIOUS
  <2> HIDE DEF to
  <2> QED BY <1>2, <2>1
<1> HIDE DEF to
<1>4. d = [req |-> to, capacity |-> c.capacity, sched |-> c.sched,
           paused |-> c.paused, epoch |-> c.epoch, closed |-> c.closed]
  BY <1>1, ClientFields
<1>5. d \in Clients  BY <1>3, <1>4, ClientFields, ClientRecord
<1>6. KeepsRest(c, d) /\ d.req = to  BY <1>4 DEF KeepsRest
<1>7. Client!In(d, st) = Client!In(c, st) \cup S
  BY <1>2, <1>6 DEF Client!In
<1>8. ASSUME NEW other \in States \ {st}
      PROVE  Client!In(d, other) = Client!In(c, other) \ S
  BY <1>2, <1>6 DEF Client!In
<1> QED BY <1>5, <1>6, <1>7, <1>8 DEF Moves

\* Whoever may send is told to.
Woken(c) ==
    (Client!In(c, "queued") # {} /\ c.capacity > 0 /\ ~ c.closed) => c.sched # "none"

LEMMA ScheduleWakes ==
    ASSUME NEW c \in Clients, NEW d, d = Client!Schedule(c)
    PROVE  /\ d \in Clients /\ KeepsCalls(c, d) /\ Woken(d)
           /\ d.capacity = c.capacity /\ d.epoch = c.epoch /\ d.closed = c.closed
<1>1. CASE c.sched = "none" /\ ~ c.closed /\ Client!In(c, "queued") # {} /\ c.capacity > 0
  <2>1. d = [c EXCEPT !.sched = "task"]  BY <1>1 DEF Client!Schedule
  <2>2. d = [req |-> c.req, capacity |-> c.capacity, sched |-> "task",
             paused |-> c.paused, epoch |-> c.epoch, closed |-> c.closed]
    BY <2>1, ClientFields
  <2>3. d \in Clients  BY <2>2, ClientFields, ClientRecord
  <2>4. d.req = c.req /\ d.sched = "task" /\ d.capacity = c.capacity /\ d.epoch = c.epoch
        /\ d.closed = c.closed
    BY <2>2
  <2> QED BY <2>3, <2>4 DEF KeepsCalls, Woken, Client!In
<1>2. CASE ~ (c.sched = "none" /\ ~ c.closed /\ Client!In(c, "queued") # {} /\ c.capacity > 0)
  <2>1. d = c  BY <1>2 DEF Client!Schedule
  <2> QED BY <1>2, <2>1 DEF KeepsCalls, Woken
<1> QED BY <1>1, <1>2

\* A unit of capacity is free, or of a call that is on its way.
Balanced(c) == c.capacity + Cardinality(Client!In(c, "sent")) = MaxCapacity

\* The calls S are no longer on their way.
Released(c, d, S) ==
    /\ d \in Clients /\ Balanced(d) /\ Woken(d)
    /\ Client!In(d, "sent") = Client!In(c, "sent") \ S
    /\ d.closed = c.closed
    /\ c.closed /\ Client!In(c, "queued") = {} => Client!In(d, "queued") = {}

\* What finally() frees was taken by send().
LEMMA FreedReleases ==
    ASSUME IsFiniteSet(Calls), NEW c \in Clients, Balanced(c),
           NEW S \in SUBSET Client!In(c, "sent"),
           NEW d \in Clients, d.capacity = c.capacity, d.closed = c.closed,
           Client!In(d, "sent") = Client!In(c, "sent") \ S,
           c.closed /\ Client!In(c, "queued") = {} => Client!In(d, "queued") = {},
           NEW e, e = Client!Freed(d, S)
    PROVE  Released(c, e, S) /\ e.epoch = d.epoch
<1> DEFINE k == Cardinality(S)
           more == [d EXCEPT !.capacity = @ + k]
<1>1. e = Client!Schedule(more)
  <2>1. k = Client!Cardinality(S)  BY SameCounting
  <2> HIDE DEF k
  <2> QED BY <2>1 DEF Client!Freed
<1>2. /\ Client!In(c, "sent") \in SUBSET Calls /\ IsFiniteSet(Client!In(c, "sent"))
      /\ Cardinality(Client!In(c, "sent")) \in Nat /\ k \in Nat
      /\ Cardinality(Client!In(c, "sent") \ S) = Cardinality(Client!In(c, "sent")) - k
  <2>1. Client!In(c, "sent") \in SUBSET Calls  BY DEF Client!In
  <2>2. IsFiniteSet(Client!In(c, "sent"))  BY <2>1, FS_Subset
  <2>3. IsFiniteSet(S)  BY <2>2, FS_Subset
  <2>4. Client!In(c, "sent") \cap S = S  OBVIOUS
  <2>5. Cardinality(Client!In(c, "sent") \ S)
            = Cardinality(Client!In(c, "sent")) - Cardinality(Client!In(c, "sent") \cap S)
    BY <2>2, FS_Difference
  <2>6. Cardinality(Client!In(c, "sent")) \in Nat /\ Cardinality(S) \in Nat
    BY <2>2, <2>3, FS_CardinalityType
  <2> QED BY <2>1, <2>2, <2>4, <2>5, <2>6
<1> HIDE DEF k
<1>3. d.capacity \in Nat /\ d.capacity + k \in Nat  BY <1>2, ClientFields
<1>4. more = [req |-> d.req, capacity |-> d.capacity + k, sched |-> d.sched,
              paused |-> d.paused, epoch |-> d.epoch, closed |-> d.closed]
  BY ClientFields
<1> HIDE DEF more
<1>5. more \in Clients  BY <1>3, <1>4, ClientFields, ClientRecord
<1>6. /\ more.req = d.req /\ more.capacity = d.capacity + k
      /\ more.epoch = d.epoch /\ more.closed = d.closed
  BY <1>4
<1>7. /\ e \in Clients /\ KeepsCalls(more, e) /\ Woken(e)
      /\ e.capacity = more.capacity /\ e.epoch = more.epoch /\ e.closed = more.closed
  BY <1>1, <1>5, ScheduleWakes
<1>8. KeepsCalls(d, e)  BY <1>6, <1>7 DEF KeepsCalls, Client!In
<1>9. /\ Client!In(e, "sent") = Client!In(c, "sent") \ S
      /\ Client!In(e, "queued") = Client!In(d, "queued")
  BY <1>8 DEF KeepsCalls, States
<1>10. Balanced(e)
  <2>1. c.capacity \in Nat /\ MaxCapacity = c.capacity + Cardinality(Client!In(c, "sent"))
    BY ClientFields DEF Balanced
  <2>2. e.capacity = c.capacity + k  BY <1>6, <1>7
  <2>3. Cardinality(Client!In(e, "sent")) = Cardinality(Client!In(c, "sent")) - k
    BY <1>2, <1>9
  <2> QED BY <1>2, <2>1, <2>2, <2>3 DEF Balanced
<1> QED BY <1>6, <1>7, <1>9, <1>10 DEF Released

\* A response, or an error that is not retried.
LEMMA SettledReleases ==
    ASSUME IsFiniteSet(Calls), NEW c \in Clients, Balanced(c),
           NEW S \in SUBSET Client!In(c, "sent"), NEW st \in {"resolved", "rejected"},
           NEW e, e = Client!Freed(Client!Put(c, S, st), S)
    PROVE  Released(c, e, S) /\ e.epoch = c.epoch
<1> DEFINE d == Client!Put(c, S, st)
<1>1. S \in SUBSET Calls  BY DEF Client!In
<1>2. Moves(c, d, S, st)  BY <1>1, PutMoves DEF States
<1> HIDE DEF d
<1>3. /\ d \in Clients /\ d.capacity = c.capacity /\ d.closed = c.closed /\ d.epoch = c.epoch
      /\ Client!In(d, "sent") = Client!In(c, "sent") \ S
      /\ Client!In(d, "queued") = Client!In(c, "queued") \ S
  BY <1>2 DEF Moves, KeepsRest, States
<1>4. e = Client!Freed(d, S)  BY DEF d
<1>5. c.closed /\ Client!In(c, "queued") = {} => Client!In(d, "queued") = {}  BY <1>3
<1> QED BY <1>3, <1>4, <1>5, FreedReleases

LEMMA RejectedReleases ==
    ASSUME IsFiniteSet(Calls), NEW c \in Clients, Balanced(c),
           NEW S \in SUBSET Client!In(c, "sent"), NEW e, e = Client!Rejected(c, S)
    PROVE  Released(c, e, S) /\ e.epoch = c.epoch
BY SettledReleases DEF Client!Rejected

LEMMA ResolvedReleases ==
    ASSUME IsFiniteSet(Calls), NEW c \in Clients, Balanced(c),
           NEW r \in Client!In(c, "sent"), NEW e, e = Client!Resolved(c, r)
    PROVE  Released(c, e, {r}) /\ e.epoch = c.epoch
BY SettledReleases DEF Client!Resolved

LEMMA BackoffKeeps ==
    ASSUME NEW c \in Clients, NEW d, d = Client!Backoff(c)
    PROVE  /\ d \in Clients /\ d.req = c.req /\ d.capacity = c.capacity /\ d.sched = c.sched
           /\ d.closed = c.closed /\ d.epoch = c.epoch + 1
<1>1. d = [req |-> c.req, capacity |-> c.capacity, sched |-> c.sched,
           paused |-> TRUE, epoch |-> c.epoch + 1, closed |-> c.closed]
  <2>1. d = [c EXCEPT !.epoch = c.epoch + 1, !.paused = TRUE]  BY DEF Client!Backoff
  <2> QED BY <2>1, ClientFields
<1>2. c.epoch + 1 \in Nat  BY ClientFields
<1>3. d \in Clients
  <2> DEFINE p == TRUE
             n == c.epoch + 1
  <2>1. p \in BOOLEAN /\ n \in Nat  BY <1>2
  <2>2. d = [req |-> c.req, capacity |-> c.capacity, sched |-> c.sched,
             paused |-> p, epoch |-> n, closed |-> c.closed]
    BY <1>1
  <2> HIDE DEF p, n
  <2> QED BY <2>1, <2>2, ClientFields, ClientRecord
<1> QED BY <1>1, <1>3

\* A connection error: what has an attempt left waits again, the rest is rejected.
LEMMA FailedReleases ==
    ASSUME IsFiniteSet(Calls), RetryAttempts \in Nat, NEW c \in Clients, Balanced(c),
           NEW S \in SUBSET Client!In(c, "sent"), NEW e, e = Client!Failed(c, S)
    PROVE  Released(c, e, S) /\ e.epoch \in c.epoch..(c.epoch + 1)
<1>1. CASE c.closed
  <2>1. e = Client!Rejected(c, S)  BY <1>1 DEF Client!Failed
  <2>2. Released(c, e, S) /\ e.epoch = c.epoch  BY <2>1, RejectedReleases
  <2> QED BY <2>2, ClientFields
<1>2. CASE ~ c.closed
  <2> DEFINE retried == {r \in S : c.req[r].attempts > 0}
             spent   == [r \in Calls |-> IF r \in retried
                                         THEN [c.req[r] EXCEPT !.attempts = @ - 1]
                                         ELSE c.req[r]]
             charged == [c EXCEPT !.req = spent]
             queued  == Client!Put(charged, retried, "queued")
             left    == Client!Put(queued, S \ retried, "rejected")
             freed   == Client!Freed(left, S)
             again   == \E r \in S : c.req[r].epoch = c.epoch
  <2>1. e = IF again THEN Client!Backoff(freed) ELSE freed
    BY <1>2, Zenon DEF Client!Failed
  <2>2. S \in SUBSET Calls /\ retried \in SUBSET Calls /\ S \ retried \in SUBSET Calls
        /\ retried \in SUBSET S
    BY DEF Client!In
  <2>3. ASSUME NEW r \in Calls PROVE spent[r] \in Requests /\ spent[r].state = c.req[r].state
    <3>1. c.req[r] \in Requests  BY ClientFields
    <3>2. /\ c.req[r] = [state |-> c.req[r].state, attempts |-> c.req[r].attempts,
                         epoch |-> c.req[r].epoch]
          /\ c.req[r].state \in States /\ c.req[r].epoch \in Nat
          /\ c.req[r].attempts \in 0..RetryAttempts
      BY <3>1 DEF Requests
    <3>3. CASE r \in retried
      <4> DEFINE q == c.req[r]
                 p == [q EXCEPT !.attempts = q.attempts - 1]
      <4>1. spent[r] = p  BY <3>3
      <4>2. q.attempts > 0 /\ q.attempts - 1 \in 0..RetryAttempts  BY <3>2, <3>3
      <4> HIDE DEF q
      <4>3. q = [state |-> q.state, attempts |-> q.attempts, epoch |-> q.epoch]
            /\ q.state \in States /\ q.epoch \in Nat
        BY <3>2 DEF q
      <4>4. p = [state |-> q.state, attempts |-> q.attempts - 1, epoch |-> q.epoch]
        BY <4>3
      <4>5. p \in Requests /\ p.state = q.state  BY <4>2, <4>3, <4>4 DEF Requests
      <4> HIDE DEF p
      <4> QED BY <4>1, <4>5 DEF q
    <3>4. CASE r \notin retried  BY <3>1, <3>4
    <3> QED BY <3>3, <3>4
  <2>4. spent \in [Calls -> Requests]
    <3>1. spent = [r \in Calls |-> spent[r]]  OBVIOUS
    <3> HIDE DEF spent
    <3> QED BY <2>3, <3>1
  <2> HIDE DEF retried, spent
  <2>5. charged = [req |-> spent, capacity |-> c.capacity, sched |-> c.sched,
                   paused |-> c.paused, epoch |-> c.epoch, closed |-> c.closed]
    BY ClientFields
  <2> HIDE DEF charged
  <2>6. charged \in Clients /\ KeepsRest(c, charged) /\ charged.req = spent
    <3>1. charged \in Clients  BY <2>4, <2>5, ClientFields, ClientRecord
    <3> QED BY <2>5, <3>1 DEF KeepsRest
  <2>7. KeepsCalls(c, charged)  BY <2>3, <2>6 DEF KeepsCalls, Client!In
  <2>8. Moves(charged, queued, retried, "queued")
    BY <2>2, <2>6, PutMoves DEF States
  <2> HIDE DEF queued
  <2>9. Moves(queued, left, S \ retried, "rejected")
    BY <2>2, <2>8, PutMoves DEF States, Moves
  <2> HIDE DEF left
  <2>10. /\ left \in Clients /\ left.capacity = c.capacity /\ left.closed = c.closed
         /\ left.epoch = c.epoch
    BY <2>6, <2>8, <2>9 DEF Moves, KeepsRest
  <2>11. Client!In(left, "sent") = Client!In(c, "sent") \ S
    <3>1. Client!In(charged, "sent") = Client!In(c, "sent")  BY <2>7 DEF KeepsCalls, States
    <3>2. Client!In(queued, "sent") = Client!In(charged, "sent") \ retried
      BY <2>8 DEF Moves, States
    <3>3. Client!In(left, "sent") = Client!In(queued, "sent") \ (S \ retried)
      BY <2>9 DEF Moves, States
    <3> QED BY <2>2, <3>1, <3>2, <3>3
  <2>12. Released(c, freed, S) /\ freed.epoch = left.epoch
    BY <1>2, <2>10, <2>11, FreedReleases
  <2> HIDE DEF freed, again
  <2>13. freed \in Clients /\ c.epoch \in Nat  BY <2>12, ClientFields DEF Released
  <2>14. CASE ~ again  BY <2>1, <2>10, <2>12, <2>13, <2>14
  <2>15. CASE again
    <3>1. e = Client!Backoff(freed)  BY <2>1, <2>15
    <3>2. /\ e \in Clients /\ e.req = freed.req /\ e.capacity = freed.capacity
          /\ e.sched = freed.sched /\ e.closed = freed.closed /\ e.epoch = freed.epoch + 1
      BY <2>13, <3>1, BackoffKeeps
    <3>3. Released(c, e, S)
      BY <2>12, <3>2 DEF Released, Balanced, Woken, Client!In
    <3> QED BY <2>10, <2>12, <2>13, <3>2, <3>3
  <2> QED BY <2>14, <2>15
<1> QED BY <1>1, <1>2

\* The calls S of the queue are sent: those with the lowest numbers, as many as there is
\* capacity for.
LEMMA SendQueuedSends ==
    ASSUME IsFiniteSet(Calls), Calls \subseteq Nat,
           NEW c \in Clients, Balanced(c), Client!SendQueued(c)
    PROVE  /\ client' \in Clients /\ Balanced(client') /\ Woken(client')
           /\ client'.closed = c.closed /\ client'.epoch = c.epoch
           /\ Client!In(c, "sent") \subseteq Client!In(client', "sent")
           /\ Client!In(client', "queued") \subseteq Client!In(c, "queued")
           /\ wire' \subseteq wire \cup [call : Client!In(client', "sent"), session : {session}]
<1> DEFINE Q == Client!In(c, "queued")
<1>1. Q \in SUBSET Calls /\ Client!In(c, "sent") \in SUBSET Calls  BY DEF Client!In
<1>2. /\ IsFiniteSet(Q) /\ IsFiniteSet(Client!In(c, "sent")) /\ Q \subseteq Nat
      /\ Cardinality(Q) \in Nat /\ Cardinality(Client!In(c, "sent")) \in Nat
  <2> HIDE DEF Q
  <2>1. IsFiniteSet(Q) /\ IsFiniteSet(Client!In(c, "sent"))  BY <1>1, FS_Subset
  <2> QED BY <1>1, <2>1, FS_CardinalityType
<1>3. PICK n \in 1..Client!Cardinality(Client!In(c, "queued")) :
        LET S    == Client!First(n, c)
            sent == [Client!Put(c, S, "sent") EXCEPT !.capacity = @ - n]
        IN  /\ n <= c.capacity
            /\ client' = [sent EXCEPT
                  !.req   = [r \in Calls |-> IF r \in S THEN [sent.req[r] EXCEPT !.epoch = c.epoch]
                                                        ELSE sent.req[r]],
                  !.sched = IF sent.capacity > 0 /\ Client!In(sent, "queued") # {}
                            THEN "task" ELSE "none"]
            /\ wire' = wire \cup [call : S, session : {session}]
  BY Zenon DEF Client!SendQueued
<1> DEFINE S    == Client!First(n, c)
           put  == Client!Put(c, S, "sent")
           sent == [put EXCEPT !.capacity = @ - n]
           req  == [r \in Calls |-> IF r \in S THEN [sent.req[r] EXCEPT !.epoch = c.epoch]
                                               ELSE sent.req[r]]
           sched == IF sent.capacity > 0 /\ Client!In(sent, "queued") # {}
                    THEN "task" ELSE "none"
<1>4. /\ n <= c.capacity
      /\ client' = [sent EXCEPT !.req = req, !.sched = sched]
      /\ wire' = wire \cup [call : S, session : {session}]
  BY <1>3, Zenon
<1>5. n \in Nat /\ n <= Cardinality(Q)  BY <1>2, <1>3, SameCounting
<1>6. S = Lowest(Q, n)
  BY SameCounting, Zenon DEF Client!First, Lowest, Below
<1>7. S \in SUBSET Q /\ S \in SUBSET Calls /\ Cardinality(S) = n
  <2>1. Cardinality(Lowest(Q, n)) = n
    <3> HIDE DEF Q
    <3> QED BY <1>2, <1>5, LowestCount
  <2>2. S \in SUBSET Q  BY <1>6 DEF Lowest
  <2> HIDE DEF S
  <2> QED BY <1>1, <1>6, <2>1, <2>2
<1> HIDE DEF S, Q
<1>8. Moves(c, put, S, "sent")  BY <1>7, PutMoves DEF States
<1> HIDE DEF put
<1>9. put \in Clients /\ KeepsRest(c, put)  BY <1>8 DEF Moves
<1>10. c.capacity \in Nat /\ put.capacity = c.capacity /\ c.capacity - n \in Nat
  BY <1>4, <1>5, <1>9, ClientFields DEF KeepsRest
<1>11. sent = [req |-> put.req, capacity |-> c.capacity - n, sched |-> put.sched,
               paused |-> put.paused, epoch |-> put.epoch, closed |-> put.closed]
  BY <1>9, <1>10, ClientFields
<1> HIDE DEF sent
<1>12. /\ sent.req = put.req /\ sent.capacity = c.capacity - n /\ sent.paused = put.paused
       /\ sent.epoch = c.epoch /\ sent.closed = c.closed
  BY <1>9, <1>11 DEF KeepsRest
<1>13. /\ put.req \in [Calls -> Requests] /\ put.paused \in BOOLEAN
       /\ c.epoch \in Nat /\ c.closed \in BOOLEAN
  BY <1>9, ClientFields
<1>14. ASSUME NEW r \in Calls
       PROVE  req[r] \in Requests /\ req[r].state = put.req[r].state
  <2>1. put.req[r] \in Requests  BY <1>13
  <2>2. /\ put.req[r] = [state |-> put.req[r].state, attempts |-> put.req[r].attempts,
                         epoch |-> put.req[r].epoch]
        /\ put.req[r].state \in States /\ put.req[r].attempts \in 0..RetryAttempts
    BY <2>1 DEF Requests
  <2>3. CASE r \in S
    <3> DEFINE q == put.req[r]
               p == [q EXCEPT !.epoch = c.epoch]
    <3>1. req[r] = p  BY <1>12, <2>3
    <3> HIDE DEF q
    <3>2. q = [state |-> q.state, attempts |-> q.attempts, epoch |-> q.epoch]
          /\ q.state \in States /\ q.attempts \in 0..RetryAttempts
      BY <2>2 DEF q
    <3>3. p = [state |-> q.state, attempts |-> q.attempts, epoch |-> c.epoch]  BY <3>2
    <3>4. p \in Requests /\ p.state = q.state  BY <1>13, <3>2, <3>3 DEF Requests
    <3> HIDE DEF p
    <3> QED BY <3>1, <3>4 DEF q
  <2>4. CASE r \notin S  BY <1>12, <2>1, <2>4
  <2> QED BY <2>3, <2>4
<1>15. req \in [Calls -> Requests]
  <2>1. req = [r \in Calls |-> req[r]]  OBVIOUS
  <2> HIDE DEF req
  <2> QED BY <1>14, <2>1
<1> HIDE DEF req
<1>16. sched \in {"none", "task", "pause", "connect"}  OBVIOUS
<1>17. (sent.capacity > 0 /\ Client!In(sent, "queued") # {}) => sched # "none"  OBVIOUS
<1> HIDE DEF sched
<1>18. client' = [req |-> req, capacity |-> c.capacity - n, sched |-> sched,
                  paused |-> put.paused, epoch |-> c.epoch, closed |-> c.closed]
  <2>1. sent.req = put.req /\ sent = [req |-> sent.req, capacity |-> sent.capacity,
            sched |-> sent.sched, paused |-> sent.paused, epoch |-> sent.epoch,
            closed |-> sent.closed]
    BY <1>11
  <2> QED BY <1>4, <1>12, <2>1
<1>19. client' \in Clients  BY <1>10, <1>13, <1>15, <1>16, <1>18, ClientRecord
<1>20. /\ client'.req = req /\ client'.capacity = c.capacity - n /\ client'.sched = sched
       /\ client'.epoch = c.epoch /\ client'.closed = c.closed
  BY <1>18
<1>21. \A st \in States : Client!In(client', st) = Client!In(put, st)
  BY <1>14, <1>20 DEF Client!In
<1>22. /\ Client!In(client', "sent") = Client!In(c, "sent") \cup S
       /\ Client!In(client', "queued") = Q \ S
  BY <1>8, <1>21 DEF Moves, States, Q
<1>23. Balanced(client')
  <2> DEFINE A == Client!In(c, "sent")
             k == Cardinality(A)
  <2>1. A \cap S = {}  BY <1>7 DEF Q, Client!In
  <2>2. IsFiniteSet(S) /\ IsFiniteSet(A) /\ k \in Nat  BY <1>2, <1>7, FS_Subset
  <2>3. c.capacity + k = MaxCapacity  BY DEF Balanced
  <2>4. Client!In(client', "sent") = A \cup S  BY <1>22
  <2> HIDE DEF A
  <2>5. Cardinality(A \cap S) = 0
    <3>1. Cardinality({}) = 0  BY FS_EmptySet
    <3> QED BY <2>1, <3>1
  <2>6. Cardinality(A \cup S) = Cardinality(A) + Cardinality(S) - Cardinality(A \cap S)
    BY <2>2, FS_Union
  <2>7. Cardinality(Client!In(client', "sent")) = k + n
    BY <1>5, <1>7, <2>2, <2>4, <2>5, <2>6
  <2> HIDE DEF k
  <2> QED BY <1>5, <1>10, <1>20, <2>2, <2>3, <2>7 DEF Balanced
<1>24. Woken(client')
  <2>1. Client!In(sent, "queued") = Client!In(client', "queued")
    BY <1>12, <1>21 DEF Client!In, States
  <2> QED BY <1>12, <1>17, <1>20, <2>1 DEF Woken
<1>25. wire' \subseteq wire \cup [call : Client!In(client', "sent"), session : {session}]
  BY <1>4, <1>22
<1> QED BY <1>19, <1>20, <1>22, <1>23, <1>24, <1>25 DEF Q
------------------------------------------------------------------------------
(***************************************************************************)
(* RpcClient: the invariant.  The client waits for an answer only where it   *)
(* would be right: whatever the server has still to answer, and the client   *)
(* listens to, belongs to a call that is on its way.                         *)
(***************************************************************************)
\* The client listens to the answer m.
Awaited(m) == transport = "http" \/ (con = "up" /\ m.session = session)

ClientTypes ==
    /\ client \in Clients
    /\ transport \in {"ws", "http"} /\ con \in {"up", "down", "connecting"}
    /\ session \in Nat /\ faults \in Nat /\ unknown = FALSE
    /\ wire \in SUBSET [call : Calls, session : 0..session]

WireFits ==
    /\ \A m \in wire : Awaited(m) => m.call \in Client!In(client, "sent")
    /\ con = "connecting" => \A m \in wire : m.session # session
    /\ transport = "http" => con = "down" /\ session = 0
    /\ transport = "ws" /\ con # "up" => Client!In(client, "sent") = {}

ClientInv ==
    /\ ClientTypes
    /\ WireFits
    /\ Balanced(client)
    /\ Woken(client)
    /\ client.epoch <= faults
    /\ client.closed => con = "down" /\ Client!In(client, "queued") = {}

\* What fails, is answered or given up: the calls S leave, and with them whatever the
\* client would have listened to for them.
LEMMA ReleaseKeeps ==
    ASSUME ClientInv, NEW S, Released(client, client', S),
           client'.epoch <= faults', faults' \in Nat,
           UNCHANGED << transport, session, unknown >>,
           con' \in {con, "down"}, wire' \subseteq wire,
           \A m \in wire' : Awaited(m)' => m.call \notin S,
           (transport = "ws" /\ con = "up" /\ con' # "up") => Client!In(client, "sent") \subseteq S
    PROVE  ClientInv'
<1>1. ClientTypes'  BY DEF ClientInv, ClientTypes, Released
<1>2. Client!In(client', "sent") = Client!In(client, "sent") \ S  BY DEF Released
<1>3. \A m \in wire' : Awaited(m)' => m.call \in Client!In(client', "sent")
  <2>1. ASSUME NEW m \in wire', Awaited(m)' PROVE m.call \in Client!In(client', "sent")
    <3>1. Awaited(m)
      BY <2>1 DEF Awaited, ClientInv, ClientTypes
    <3> QED BY <1>2, <2>1, <3>1 DEF ClientInv, WireFits
  <2> QED BY <2>1
<1>4. /\ con' = "connecting" => \A m \in wire' : m.session # session'
      /\ transport' = "http" => con' = "down" /\ session' = 0
      /\ transport' = "ws" /\ con' # "up" => Client!In(client', "sent") = {}
  BY <1>2 DEF ClientInv, WireFits
<1>5. Balanced(client') /\ Woken(client')  BY DEF Released
<1>6. client'.closed => con' = "down" /\ Client!In(client', "queued") = {}
  BY DEF ClientInv, Released
<1>7. WireFits'  BY <1>3, <1>4 DEF WireFits
<1> QED BY <1>1, <1>5, <1>6, <1>7 DEF ClientInv

\* What the constants are.
ClientConstants ==
    /\ IsFiniteSet(Calls) /\ Calls \subseteq Nat
    /\ MaxCapacity \in Nat \ {0} /\ RetryAttempts \in Nat /\ MaxFaults \in Nat

LEMMA ConstantsFit ==
    ASSUME Client!RpcAssumption PROVE ClientConstants
BY SameCounting DEF Client!RpcAssumption, ClientConstants

LEMMA ClientInit ==
    ASSUME ClientConstants, Client!Init
    PROVE  ClientInv
<1> DEFINE q == [state |-> "new", attempts |-> RetryAttempts, epoch |-> 0]
           req == [r \in Calls |-> q]
           f == FALSE
<1>1. q \in Requests /\ q.state = "new"
  BY DEF Requests, States, ClientConstants
<1> HIDE DEF q
<1>2. req \in [Calls -> Requests]  BY <1>1
<1>3. client = [req |-> req, capacity |-> MaxCapacity, sched |-> "none", paused |-> f,
                epoch |-> 0, closed |-> f]
  BY DEF Client!Init, q
<1>4. f \in BOOLEAN /\ MaxCapacity \in Nat /\ 0 \in Nat  BY DEF ClientConstants
<1>5. client \in Clients
  <2>1. "none" \in {"none", "task", "pause", "connect"}  OBVIOUS
  <2> HIDE DEF f, req
  <2> QED BY <1>2, <1>3, <1>4, <2>1, ClientRecord
<1>6. \A st \in States \ {"new"} : Client!In(client, st) = {}
  BY <1>1, <1>3 DEF Client!In, States
<1>7. Client!In(client, "sent") = {} /\ Client!In(client, "queued") = {}  BY <1>6 DEF States
<1>8. Balanced(client)
  <2>1. Cardinality({}) = 0  BY FS_EmptySet
  <2>2. client.capacity = MaxCapacity /\ MaxCapacity \in Nat  BY <1>3, <1>4
  <2>3. Cardinality(Client!In(client, "sent")) = 0  BY <1>7, <2>1
  <2> QED BY <2>2, <2>3 DEF Balanced
<1>9. client.epoch = 0 /\ client.closed = FALSE /\ Woken(client)
  BY <1>3, <1>7 DEF Woken
<1>10. ClientTypes
  BY <1>5 DEF ClientTypes, Client!Init
<1>11. WireFits
  BY <1>7 DEF WireFits, Client!Init
<1> QED BY <1>8, <1>9, <1>10, <1>11 DEF ClientInv, ClientTypes, Client!Init

\* call()
LEMMA CallKeeps ==
    ASSUME ClientConstants, ClientInv, NEW r \in Calls, Client!Call(r)
    PROVE  ClientInv'
<1> DEFINE d == Client!Put(client, {r}, "queued")
<1>1. /\ client.req[r].state = "new" /\ ~ client.closed /\ client' = Client!Schedule(d)
      /\ UNCHANGED << transport, con, session, wire, faults, unknown >>
  BY DEF Client!Call
<1>2. client \in Clients  BY DEF ClientInv, ClientTypes
<1>3. Moves(client, d, {r}, "queued")  BY <1>2, PutMoves DEF States
<1> HIDE DEF d
<1>4. d \in Clients /\ KeepsRest(client, d)  BY <1>3 DEF Moves
<1>5. /\ client' \in Clients /\ KeepsCalls(d, client') /\ Woken(client')
      /\ client'.capacity = d.capacity /\ client'.epoch = d.epoch /\ client'.closed = d.closed
  BY <1>1, <1>4, ScheduleWakes
<1>6. /\ client'.capacity = client.capacity /\ client'.epoch = client.epoch
      /\ client'.closed = FALSE
  BY <1>1, <1>2, <1>4, <1>5, ClientFields DEF KeepsRest
<1>7. Client!In(client', "sent") = Client!In(client, "sent")
  <2>1. r \notin Client!In(client, "sent")  BY <1>1 DEF Client!In
  <2>2. Client!In(d, "sent") = Client!In(client, "sent") \ {r}  BY <1>3 DEF Moves, States
  <2>3. Client!In(client', "sent") = Client!In(d, "sent")  BY <1>5 DEF KeepsCalls, States
  <2> QED BY <2>1, <2>2, <2>3
<1>8. ClientTypes'  BY <1>1, <1>5 DEF ClientInv, ClientTypes
<1>9. WireFits'  BY <1>1, <1>7 DEF ClientInv, WireFits, Awaited
<1>10. Balanced(client')  BY <1>6, <1>7 DEF ClientInv, Balanced
<1> QED BY <1>1, <1>5, <1>6, <1>8, <1>9, <1>10 DEF ClientInv

\* The calls stay where they are: a pause, a new socket, or one that does not open.
LEMMA RestKeeps ==
    ASSUME ClientInv, client' \in Clients, client'.req = client.req,
           client'.capacity = client.capacity, client'.closed = client.closed,
           Woken(client'), client'.epoch <= faults', faults' \in Nat,
           UNCHANGED << transport, wire, unknown >>,
           \/ con' = con /\ session' = session
           \/ /\ transport = "ws" /\ con # "up" /\ ~ client.closed
              /\ con' = "connecting" /\ session' = session + 1
           \/ con = "connecting" /\ con' = "down" /\ session' = session
    PROVE  ClientInv'
<1>1. \A st : Client!In(client', st) = Client!In(client, st)  BY DEF Client!In
<1>2. session \in Nat /\ wire \in SUBSET [call : Calls, session : 0..session]
      /\ transport \in {"ws", "http"}
  BY DEF ClientInv, ClientTypes
<1>3. ClientTypes'
  <2>1. session' \in Nat /\ session <= session'  BY <1>2
  <2>2. 0..session \subseteq 0..session'  BY <1>2, <2>1
  <2>3. wire' \in SUBSET [call : Calls, session : 0..session']  BY <1>2, <2>2
  <2>4. con' \in {"up", "down", "connecting"}  BY DEF ClientInv, ClientTypes
  <2> QED BY <2>1, <2>3, <2>4 DEF ClientInv, ClientTypes
<1>4. WireFits'
  <2>1. CASE con' = con /\ session' = session
    BY <1>1, <2>1 DEF ClientInv, WireFits, Awaited
  <2>2. CASE /\ transport = "ws" /\ con # "up" /\ ~ client.closed
             /\ con' = "connecting" /\ session' = session + 1
    <3>1. \A m \in wire : m.session # session + 1  BY <1>2
    <3>2. Client!In(client', "sent") = {}  BY <1>1, <2>2 DEF ClientInv, WireFits
    <3>3. \A m \in wire' : ~ Awaited(m)'  BY <2>2 DEF Awaited
    <3> QED BY <2>2, <3>1, <3>2, <3>3 DEF WireFits
  <2>3. CASE con = "connecting" /\ con' = "down" /\ session' = session
    <3>1. transport = "ws"  BY <1>2, <2>3 DEF ClientInv, WireFits
    <3>2. Client!In(client', "sent") = {}  BY <1>1, <2>3, <3>1 DEF ClientInv, WireFits
    <3>3. \A m \in wire' : ~ Awaited(m)'  BY <2>3, <3>1 DEF Awaited
    <3> QED BY <2>3, <3>1, <3>2, <3>3 DEF WireFits
  <2> QED BY <2>1, <2>2, <2>3
<1>5. Balanced(client')  BY <1>1 DEF ClientInv, Balanced
<1>6. client'.closed => con' = "down" /\ Client!In(client', "queued") = {}
  BY <1>1 DEF ClientInv
<1> QED BY <1>3, <1>4, <1>5, <1>6 DEF ClientInv

\* What is sent is what the client waits for.
LEMMA SendKeeps ==
    ASSUME ClientConstants, ClientInv, ~ client.closed, Client!SendQueued(client),
           UNCHANGED << transport, session, faults, unknown >>,
           \/ transport = "http" /\ con' = con
           \/ transport = "ws" /\ con # "down" /\ con' = "up"
    PROVE  ClientInv'
<1>1. client \in Clients /\ Balanced(client) /\ session \in Nat
      /\ wire \in SUBSET [call : Calls, session : 0..session]
  BY DEF ClientInv, ClientTypes
<1>2. /\ client' \in Clients /\ Balanced(client') /\ Woken(client')
      /\ client'.closed = client.closed /\ client'.epoch = client.epoch
      /\ Client!In(client, "sent") \subseteq Client!In(client', "sent")
      /\ wire' \subseteq wire \cup [call : Client!In(client', "sent"), session : {session}]
  BY <1>1, SendQueuedSends DEF ClientConstants
<1>3. Client!In(client', "sent") \subseteq Calls  BY DEF Client!In
<1>4. ClientTypes'
  <2>1. wire' \in SUBSET [call : Calls, session : 0..session']
    <3>1. session \in 0..session  BY <1>1
    <3>2. [call : Client!In(client', "sent"), session : {session}]
              \subseteq [call : Calls, session : 0..session]
      BY <1>3, <3>1
    <3> QED BY <1>1, <1>2, <3>2
  <2>2. con' \in {"up", "down", "connecting"}  BY DEF ClientInv, ClientTypes
  <2> QED BY <1>2, <2>1, <2>2 DEF ClientInv, ClientTypes
<1>5. ASSUME NEW m \in wire', Awaited(m)' PROVE m.call \in Client!In(client', "sent")
  <2>1. CASE m \in wire
    <3>1. Awaited(m)
      <4>1. con = "connecting" => m.session # session  BY <2>1 DEF ClientInv, WireFits
      <4>2. con \in {"up", "down", "connecting"}  BY DEF ClientInv, ClientTypes
      <4> QED BY <1>5, <4>1, <4>2 DEF Awaited
    <3> QED BY <1>2, <2>1, <3>1 DEF ClientInv, WireFits
  <2>2. CASE m \in [call : Client!In(client', "sent"), session : {session}]  BY <2>2
  <2> QED BY <1>2, <2>1, <2>2
<1>6. WireFits'
  <2>1. CASE transport = "http" /\ con' = con
    BY <1>5, <2>1 DEF WireFits, ClientInv
  <2>2. CASE transport = "ws" /\ con' = "up"
    BY <1>5, <2>2 DEF WireFits
  <2> QED BY <2>1, <2>2
<1> QED BY <1>2, <1>4, <1>6 DEF ClientInv

\* waitForConnection()
LEMMA ConnectKeeps ==
    ASSUME ClientConstants, ClientInv, ~ client.closed, Client!Connect(client),
           UNCHANGED << transport, faults, unknown >>
    PROVE  ClientInv'
<1>1. client \in Clients /\ transport \in {"ws", "http"}  BY DEF ClientInv, ClientTypes
<1>2. CASE transport = "http" \/ con = "up"
  <2>1. Client!SendQueued(client) /\ con' = con /\ session' = session
    BY <1>2 DEF Client!Connect
  <2> QED BY <1>1, <1>2, <2>1, SendKeeps
<1>3. CASE ~ (transport = "http" \/ con = "up")
  <2>1. /\ con' = "connecting" /\ session' = session + 1 /\ wire' = wire
        /\ client' = [client EXCEPT !.sched = "connect"]
    BY <1>3 DEF Client!Connect
  <2>2. client' = [req |-> client.req, capacity |-> client.capacity, sched |-> "connect",
                   paused |-> client.paused, epoch |-> client.epoch, closed |-> client.closed]
    BY <1>1, <2>1, ClientFields
  <2>3. client' \in Clients  BY <1>1, <2>2, ClientFields, ClientRecord
  <2>4. /\ client'.req = client.req /\ client'.capacity = client.capacity
        /\ client'.closed = client.closed /\ client'.epoch = client.epoch
        /\ client'.sched = "connect"
    BY <2>2
  <2>5. Woken(client')  BY <2>4 DEF Woken
  <2>6. client'.epoch <= faults' /\ faults' \in Nat
    BY <2>4 DEF ClientInv, ClientTypes
  <2> QED BY <1>1, <1>3, <2>1, <2>3, <2>4, <2>5, <2>6, RestKeeps
<1> QED BY <1>2, <1>3

LEMMA SchedulingKeeps ==
    ASSUME ClientConstants, ClientInv, Client!PerformScheduling \/ Client!PauseEnds
    PROVE  ClientInv'
<1>1. CASE Client!PauseEnds
  BY <1>1, ConnectKeeps DEF Client!PauseEnds
<1>2. CASE Client!PerformScheduling /\ ~ client.paused
  BY <1>2, ConnectKeeps DEF Client!PerformScheduling
<1>3. CASE Client!PerformScheduling /\ client.paused
  <2> DEFINE f == FALSE
             d == [client EXCEPT !.paused = FALSE, !.sched = "pause"]
  <2>1. client' = d /\ UNCHANGED << con, session, wire, transport, faults, unknown >>
    BY <1>3 DEF Client!PerformScheduling
  <2>2. f \in BOOLEAN  OBVIOUS
  <2>3. client \in Clients  BY DEF ClientInv, ClientTypes
  <2>4. client' = [req |-> client.req, capacity |-> client.capacity, sched |-> "pause",
                   paused |-> f, epoch |-> client.epoch, closed |-> client.closed]
    <3>1. d = [req |-> client.req, capacity |-> client.capacity, sched |-> "pause",
               paused |-> f, epoch |-> client.epoch, closed |-> client.closed]
      <4>1. d = [client EXCEPT !.paused = f, !.sched = "pause"]  OBVIOUS
      <4> HIDE DEF f, d
      <4> QED BY <2>3, <4>1, PausedRecord
    <3> HIDE DEF d
    <3> QED BY <2>1, <3>1
  <2> HIDE DEF f
  <2>5. client' \in Clients  BY <2>2, <2>3, <2>4, ClientFields, ClientRecord
  <2>6. /\ client'.req = client.req /\ client'.capacity = client.capacity
        /\ client'.closed = client.closed /\ client'.epoch = client.epoch
        /\ client'.sched = "pause"
    BY <2>4
  <2>7. Woken(client')  BY <2>6 DEF Woken
  <2>8. client'.epoch <= faults' /\ faults' \in Nat
    BY <2>1, <2>6 DEF ClientInv, ClientTypes
  <2> QED BY <2>1, <2>5, <2>6, <2>7, <2>8, RestKeeps
<1> QED BY <1>1, <1>2, <1>3

\* onopen
LEMMA OpenedKeeps ==
    ASSUME ClientConstants, ClientInv, Client!Opened
    PROVE  ClientInv'
<1>1. /\ con = "connecting" /\ con' = "up" /\ Client!SendQueued(client)
      /\ UNCHANGED << transport, session, faults, unknown >>
  BY DEF Client!Opened
<1>2. transport = "ws" /\ ~ client.closed
  BY <1>1 DEF ClientInv, ClientTypes, WireFits
<1> QED BY <1>1, <1>2, SendKeeps

\* What the records are, what fits between them, and that a failure is counted once.
LEMMA FailedKeeps ==
    ASSUME ClientConstants, ClientInv, NEW S \in SUBSET Client!In(client, "sent"),
           client' = Client!Failed(client, S), faults' = faults + 1,
           UNCHANGED << transport, session, unknown >>,
           con' \in {con, "down"}, wire' \subseteq wire,
           \A m \in wire' : Awaited(m)' => m.call \notin S,
           (transport = "ws" /\ con = "up" /\ con' # "up") => S = Client!In(client, "sent")
    PROVE  ClientInv'
<1>1. client \in Clients /\ Balanced(client) /\ faults \in Nat /\ client.epoch <= faults
  BY DEF ClientInv, ClientTypes
<1>2. Released(client, client', S) /\ client'.epoch \in client.epoch..(client.epoch + 1)
  BY <1>1, FailedReleases DEF ClientConstants
<1>3. client.epoch \in Nat  BY <1>1, ClientFields
<1>4. client'.epoch <= faults' /\ faults' \in Nat  BY <1>1, <1>2, <1>3
<1> QED BY <1>2, <1>4, ReleaseKeeps

LEMMA SettlesKeeps ==
    ASSUME ClientConstants, ClientInv, NEW S \in SUBSET Client!In(client, "sent"),
           Released(client, client', S) /\ client'.epoch = client.epoch,
           faults' \in {faults, faults + 1},
           UNCHANGED << transport, session, unknown >>,
           con' \in {con, "down"}, wire' \subseteq wire,
           \A m \in wire' : Awaited(m)' => m.call \notin S,
           (transport = "ws" /\ con = "up" /\ con' # "up") => S = Client!In(client, "sent")
    PROVE  ClientInv'
<1>1. client \in Clients /\ faults \in Nat /\ client.epoch <= faults
  BY DEF ClientInv, ClientTypes
<1>2. client.epoch \in Nat  BY <1>1, ClientFields
<1>3. client'.epoch <= faults' /\ faults' \in Nat  BY <1>1, <1>2
<1> QED BY <1>3, ReleaseKeeps

\* onclose, and a message that is no JSON.
LEMMA SocketKeeps ==
    ASSUME ClientConstants, ClientInv, Client!SocketLost \/ Client!Garbage
    PROVE  ClientInv'
<1> DEFINE S == Client!In(client, "sent")
<1>1. /\ con # "down" /\ ~ client.closed /\ faults' = faults + 1 /\ con' = "down"
      /\ UNCHANGED << transport, session, wire, unknown >>
  BY DEF Client!SocketLost, Client!Garbage
<1>2. client \in Clients /\ Balanced(client) /\ transport = "ws" /\ faults \in Nat
  BY <1>1 DEF ClientInv, ClientTypes, WireFits
<1>3. \A m \in wire' : ~ Awaited(m)'  BY <1>1, <1>2 DEF Awaited
<1>4. CASE Client!Garbage
  <2>1. client' = Client!Rejected(client, S)  BY <1>4 DEF Client!Garbage
  <2>2. Released(client, client', S) /\ client'.epoch = client.epoch
    BY <1>2, <2>1, RejectedReleases DEF ClientConstants
  <2> QED BY <1>1, <1>3, <2>2, SettlesKeeps
<1>5. CASE Client!SocketLost /\ con = "up"
  <2>1. client' = Client!Failed(client, S)  BY <1>5 DEF Client!SocketLost
  <2> QED BY <1>1, <1>3, <2>1, FailedKeeps
<1>6. CASE Client!SocketLost /\ con # "up"
  <2>1. con = "connecting" /\ client' = Client!ConnectRejected(client)
    BY <1>1, <1>6 DEF Client!SocketLost, ClientInv, ClientTypes
  <2>2. CASE client' = client
    <3>1. client'.epoch <= faults' /\ faults' \in Nat /\ Woken(client')
      <4>1. client.epoch \in Nat /\ client.epoch <= faults /\ Woken(client)
        BY <1>2, ClientFields DEF ClientInv
      <4> QED BY <1>1, <1>2, <2>2, <4>1
    <3> QED BY <1>1, <1>2, <2>1, <2>2, <3>1, RestKeeps
  <2>3. CASE client' = [Client!Backoff(client) EXCEPT !.sched = "pause"]
    <3> DEFINE d == Client!Backoff(client)
    <3>1. /\ d \in Clients /\ d.req = client.req /\ d.capacity = client.capacity
          /\ d.closed = client.closed /\ d.epoch = client.epoch + 1
      BY <1>2, BackoffKeeps
    <3>2. client' = [d EXCEPT !.sched = "pause"]  BY <2>3
    <3> HIDE DEF d
    <3>3. client' = [req |-> d.req, capacity |-> d.capacity, sched |-> "pause",
                     paused |-> d.paused, epoch |-> d.epoch, closed |-> d.closed]
      BY <3>1, <3>2, ClientFields
    <3>4. client' \in Clients  BY <3>1, <3>3, ClientFields, ClientRecord
    <3>5. /\ client'.req = client.req /\ client'.capacity = client.capacity
          /\ client'.closed = client.closed /\ client'.sched = "pause"
          /\ client'.epoch = client.epoch + 1
      BY <3>1, <3>3
    <3>6. client.epoch \in Nat /\ client.epoch <= faults  BY <1>2, ClientFields DEF ClientInv
    <3>7. client'.epoch <= faults' /\ faults' \in Nat  BY <1>1, <1>2, <3>5, <3>6
    <3>8. Woken(client')  BY <3>5 DEF Woken
    <3> QED BY <1>1, <2>1, <3>4, <3>5, <3>7, <3>8, RestKeeps
  <2> QED BY <2>1, <2>2, <2>3 DEF Client!ConnectRejected
<1> QED BY <1>4, <1>5, <1>6

\* addTimeout(), httpTimeout
LEMMA TimeoutKeeps ==
    ASSUME ClientConstants, ClientInv, NEW r \in Calls, Client!Timeout(r)
    PROVE  ClientInv'
<1>1. /\ r \in Client!In(client, "sent") /\ faults' = faults + 1
      /\ UNCHANGED << transport, session, unknown >>
      /\ transport \in {"ws", "http"}
  BY DEF Client!Timeout, Client!In, ClientInv, ClientTypes
<1>2. CASE transport = "ws"
  <2> DEFINE S == Client!In(client, "sent")
  <2>1. con' = "down" /\ client' = Client!Failed(client, S) /\ wire' = wire
    BY <1>2 DEF Client!Timeout
  <2>2. \A m \in wire' : ~ Awaited(m)'  BY <1>1, <1>2, <2>1 DEF Awaited
  <2> QED BY <1>1, <2>1, <2>2, FailedKeeps
<1>3. CASE transport = "http"
  <2> DEFINE S == {r}
  <2>1. con' = con /\ client' = Client!Failed(client, S) /\ wire' = {m \in wire : m.call # r}
    BY <1>3 DEF Client!Timeout
  <2>2. \A m \in wire' : m.call \notin S  BY <2>1
  <2>3. S \in SUBSET Client!In(client, "sent") /\ wire' \subseteq wire  BY <1>1, <2>1
  <2> HIDE DEF S
  <2> QED BY <1>1, <1>3, <2>1, <2>2, <2>3, FailedKeeps
<1> QED BY <1>1, <1>2, <1>3

\* An answer, to a call that waits for it or to nobody.
LEMMA AnswerKeeps ==
    ASSUME ClientConstants, ClientInv, NEW m \in wire, Client!Answer(m)
    PROVE  ClientInv'
<1>1. /\ wire' = wire \ {m} /\ UNCHANGED << transport, session >>
      /\ transport \in {"ws", "http"} /\ con \in {"up", "down", "connecting"}
  BY DEF Client!Answer, ClientInv, ClientTypes
<1>2. CASE transport = "ws" /\ (con # "up" \/ m.session # session)
  <2>1. UNCHANGED << client, con, faults, unknown >>  BY <1>2 DEF Client!Answer
  <2> QED
    BY <1>1, <2>1 DEF ClientInv, ClientTypes, WireFits, Awaited
<1>3. CASE ~ (transport = "ws" /\ (con # "up" \/ m.session # session))
  <2> DEFINE r == m.call
             S == {r}
  <2>1. Awaited(m)  BY <1>1, <1>3 DEF Awaited
  <2>2. r \in Client!In(client, "sent")  BY <2>1 DEF ClientInv, WireFits
  <2>3. client.req[r].state = "sent"  BY <2>2 DEF Client!In
  <2>4. Client!Settle(m) /\ UNCHANGED << con, unknown >>
    BY <1>3, <2>3 DEF Client!Answer
  <2>5. ASSUME NEW o \in wire', Awaited(o)' PROVE o.call \notin S
    <3>1. /\ wire \in SUBSET [call : Calls, session : 0..session]
          /\ (transport = "http" => session = 0) /\ session \in Nat
      BY DEF ClientInv, ClientTypes, WireFits
    <3>2. o \in wire /\ o # m  BY <1>1, <2>5
    <3>3. o.session = m.session
      <4>1. CASE transport = "http"
        <5>1. o.session \in 0..0 /\ m.session \in 0..0  BY <3>1, <3>2, <4>1
        <5> QED BY <5>1
      <4>2. CASE transport = "ws"
        BY <1>1, <1>3, <2>4, <2>5, <4>2 DEF Awaited
      <4> QED BY <1>1, <4>1, <4>2
    <3>4. o = [call |-> o.call, session |-> o.session]
          /\ m = [call |-> m.call, session |-> m.session]
      BY <3>1, <3>2
    <3>5. o.call # m.call  BY <3>2, <3>3, <3>4
    <3> QED BY <3>5
  <2>6. S \in SUBSET Client!In(client, "sent") /\ wire' \subseteq wire  BY <1>1, <2>2
  <2>7. client \in Clients /\ Balanced(client)  BY DEF ClientInv, ClientTypes
  <2>8. CASE client' = Client!Resolved(client, r) /\ UNCHANGED faults
    <3>1. Released(client, client', S) /\ client'.epoch = client.epoch
      BY <2>2, <2>7, <2>8, ResolvedReleases DEF ClientConstants
    <3> HIDE DEF S
    <3> QED BY <1>1, <2>4, <2>5, <2>6, <2>8, <3>1, SettlesKeeps
  <2>9. CASE client' = Client!Rejected(client, S) /\ UNCHANGED faults
    <3> HIDE DEF S
    <3>1. Released(client, client', S) /\ client'.epoch = client.epoch
      BY <2>6, <2>7, <2>9, RejectedReleases DEF ClientConstants
    <3> QED BY <1>1, <2>4, <2>5, <2>6, <2>9, <3>1, SettlesKeeps
  <2>10. CASE faults' = faults + 1 /\ client' = Client!Failed(client, S)
    <3> HIDE DEF S
    <3> QED BY <1>1, <2>4, <2>5, <2>6, <2>10, FailedKeeps
  <2> QED BY <2>4, <2>8, <2>9, <2>10 DEF Client!Settle
<1> QED BY <1>2, <1>3

\* close()
LEMMA CloseKeeps ==
    ASSUME ClientConstants, ClientInv, Client!Close
    PROVE  ClientInv'
<1> DEFINE t == TRUE
           shut == [client EXCEPT !.closed = TRUE]
           Q == Client!In(client, "queued")
           c == Client!Put(shut, Q, "rejected")
           S == Client!In(client, "sent")
<1>1. /\ con' = "down" /\ UNCHANGED << transport, session, wire, faults, unknown >>
      /\ client' = IF transport = "ws" THEN Client!Rejected(c, Client!In(c, "sent")) ELSE c
  BY DEF Client!Close
<1>2. client \in Clients /\ Balanced(client) /\ transport \in {"ws", "http"}
      /\ client.epoch <= faults
  BY DEF ClientInv, ClientTypes
<1>3. shut = [req |-> client.req, capacity |-> client.capacity, sched |-> client.sched,
              paused |-> client.paused, epoch |-> client.epoch, closed |-> t]
  <2>1. shut = [client EXCEPT !.closed = t]  OBVIOUS
  <2> HIDE DEF shut, t
  <2> QED BY <1>2, <2>1, ClosedRecord
<1> HIDE DEF shut
<1>4. t \in BOOLEAN /\ t  OBVIOUS
<1> HIDE DEF t
<1>5. shut \in Clients  BY <1>2, <1>3, <1>4, ClientFields, ClientRecord
<1>6. /\ shut.req = client.req /\ shut.capacity = client.capacity
      /\ shut.epoch = client.epoch /\ shut.closed = t
  BY <1>3
<1>7. \A st : Client!In(shut, st) = Client!In(client, st)  BY <1>6 DEF Client!In
<1>8. Q \in SUBSET Calls  BY DEF Client!In
<1>9. Moves(shut, c, Q, "rejected")  BY <1>5, <1>8, PutMoves DEF States
<1> HIDE DEF c
<1>10. /\ c \in Clients /\ c.capacity = client.capacity /\ c.closed = t
       /\ c.epoch = client.epoch
  BY <1>6, <1>9 DEF Moves, KeepsRest
<1>11. Client!In(c, "sent") = S /\ Client!In(c, "queued") = {}
  <2>1. Client!In(c, "sent") = Client!In(shut, "sent") \ Q
        /\ Client!In(c, "queued") = Client!In(shut, "queued") \ Q
    BY <1>9 DEF Moves, States
  <2>2. Client!In(shut, "sent") = S /\ Client!In(shut, "queued") = Q  BY <1>7
  <2>3. S \cap Q = {}  BY DEF Client!In
  <2> HIDE DEF S, Q
  <2> QED BY <2>1, <2>2, <2>3
<1> HIDE DEF S, Q
<1>12. Balanced(c)  BY <1>2, <1>10, <1>11 DEF Balanced, S
<1>13. /\ client' \in Clients /\ Balanced(client') /\ client'.closed = t
       /\ client'.epoch = client.epoch
       /\ Client!In(client', "queued") = {}
       /\ transport = "ws" => Client!In(client', "sent") = {}
       /\ transport = "http" => Client!In(client', "sent") = S
  <2>1. CASE transport = "ws"
    <3>1. client' = Client!Rejected(c, S)  BY <1>1, <1>11, <2>1
    <3>2. Released(c, client', S) /\ client'.epoch = c.epoch
      BY <1>10, <1>11, <1>12, <3>1, RejectedReleases DEF ClientConstants
    <3>3. Client!In(client', "sent") = S \ S /\ client'.closed = t
          /\ Client!In(client', "queued") = {}
      BY <1>4, <1>10, <1>11, <3>2 DEF Released
    <3> QED BY <1>10, <2>1, <3>2, <3>3 DEF Released
  <2>2. CASE transport = "http"
    <3>1. client' = c  BY <1>1, <2>2
    <3> QED BY <1>10, <1>11, <1>12, <2>2, <3>1
  <2> QED BY <1>2, <2>1, <2>2
<1>14. Woken(client')  BY <1>13 DEF Woken
<1>15. ClientTypes'  BY <1>1, <1>13 DEF ClientInv, ClientTypes
<1>16. WireFits'
  <2>1. CASE transport = "ws"
    <3>1. \A m \in wire' : ~ Awaited(m)'  BY <1>1, <2>1 DEF Awaited
    <3> QED BY <1>1, <1>13, <2>1, <3>1 DEF WireFits
  <2>2. CASE transport = "http"
    <3>1. \A m \in wire : m.call \in S  BY <2>2 DEF ClientInv, WireFits, Awaited, S
    <3> QED BY <1>1, <1>13, <2>2, <3>1 DEF ClientInv, WireFits
  <2> QED BY <1>2, <2>1, <2>2
<1> QED BY <1>1, <1>2, <1>13, <1>14, <1>15, <1>16 DEF ClientInv

LEMMA ClientStep ==
    ASSUME ClientConstants, ClientInv, [Client!Next]_clientVars
    PROVE  ClientInv'
<1>1. CASE UNCHANGED clientVars
  BY <1>1
  DEF clientVars, ClientInv, ClientTypes, WireFits, Awaited
<1>2. ASSUME NEW r \in Calls, Client!Call(r) PROVE ClientInv'  BY <1>2, CallKeeps
<1>3. ASSUME NEW r \in Calls, Client!Timeout(r) PROVE ClientInv'  BY <1>3, TimeoutKeeps
<1>4. CASE Client!PerformScheduling \/ Client!PauseEnds  BY <1>4, SchedulingKeeps
<1>5. CASE Client!Opened  BY <1>5, OpenedKeeps
<1>6. CASE Client!SocketLost \/ Client!Garbage  BY <1>6, SocketKeeps
<1>7. CASE Client!Close  BY <1>7, CloseKeeps
<1>8. ASSUME NEW m \in wire, Client!Answer(m) PROVE ClientInv'  BY <1>8, AnswerKeeps
<1> QED BY <1>1, <1>2, <1>3, <1>4, <1>5, <1>6, <1>7, <1>8 DEF Client!Next

LEMMA ClientImplies == ASSUME ClientConstants, ClientInv PROVE ClientIsSound
<1>1. client \in Clients /\ Balanced(client) /\ Woken(client)
  BY DEF ClientInv, ClientTypes
<1>2. /\ client.req \in [Calls -> Requests] /\ client.capacity \in Nat
      /\ client.sched \in {"none", "task", "pause", "connect"}
  BY <1>1, ClientFields
<1>3. Cardinality(Client!In(client, "sent")) \in Nat
  <2>1. Client!In(client, "sent") \in SUBSET Calls  BY DEF Client!In
  <2> QED BY <2>1, FS_Subset, FS_CardinalityType DEF ClientConstants
<1>4. client.capacity + Cardinality(Client!In(client, "sent")) = MaxCapacity
      /\ client.capacity \in 0..MaxCapacity
  BY <1>1, <1>2, <1>3 DEF Balanced, ClientConstants
<1>5. \A r \in Calls : client.req[r].attempts \in 0..RetryAttempts
  BY <1>2 DEF Requests
<1>6. Client!TypeOK
  BY <1>2, <1>4, <1>5, SameCounting DEF Client!TypeOK, ClientInv, ClientTypes
<1>7. Client!NoLostWakeup  BY <1>1 DEF Woken, Client!NoLostWakeup
<1>8. Client!LateAnswersIgnored /\ Client!OneBackoffPerFault
  BY DEF ClientInv, ClientTypes, Client!LateAnswersIgnored, Client!OneBackoffPerFault
<1>9. Client!CloseSettles
  BY DEF ClientInv, WireFits, Client!CloseSettles
<1> QED BY <1>6, <1>7, <1>8, <1>9 DEF ClientIsSound, Client!ClientIsSound

\* RpcClient: no call waits without anybody to send it, every unit of capacity is free or
\* of a call on its way, a fault causes one pause at most, close() leaves no call behind,
\* and no late answer is taken for one to an unknown request: for any number of calls,
\* capacity, attempts and faults.
THEOREM ClientIsSoundAlways == Spec => []ClientIsSound
<1>1. ClientConstants  BY ConnectionAssumption, ConstantsFit
<1>2. Init => ClientInv  BY <1>1, ClientInit DEF Init
<1>3. ClientInv /\ [Next]_vars => ClientInv'  BY <1>1, ClientStep, StepOfOne
<1>4. ClientInv => ClientIsSound  BY <1>1, ClientImplies
<1> QED BY <1>2, <1>3, <1>4, PTL DEF Spec

------------------------------------------------------------------------------
(***************************************************************************)
(* Subscriptions: how many elements of T a sequence has, as far as it        *)
(* matters: none, one or more than one.                                      *)
(***************************************************************************)
None(s, T) == \A i \in 1..Len(s) : s[i] \notin T

One(s, T) == \A i, j \in 1..Len(s) : s[i] \in T /\ s[j] \in T => i = j

Count(s, T) == IF None(s, T) THEN 0 ELSE IF One(s, T) THEN 1 ELSE 2

Is(P) == IF P THEN 1 ELSE 0

Among(s) == {s[i] : i \in 1..Len(s)}

LEMMA AmongTail ==
    ASSUME NEW X, NEW s \in Seq(X), s # << >>
    PROVE  /\ Tail(s) \in Seq(X) /\ Head(s) \in X /\ Head(s) \in Among(s)
           /\ Among(s) = Among(Tail(s)) \cup {Head(s)}
<1>1. /\ Len(s) \in Nat \ {0} /\ Len(Tail(s)) = Len(s) - 1 /\ Head(s) = s[1]
      /\ \A i \in 1..(Len(s) - 1) : Tail(s)[i] = s[i + 1]
  OBVIOUS
<1>2. 1 \in 1..Len(s) /\ Head(s) \in X /\ Tail(s) \in Seq(X)  BY <1>1
<1>3. ASSUME NEW i \in 1..Len(s), i # 1 PROVE s[i] \in Among(Tail(s))
  <2> DEFINE j == i - 1
  <2>1. j \in 1..Len(Tail(s)) /\ Tail(s)[j] = s[i]  BY <1>1, <1>3
  <2> HIDE DEF j
  <2> QED BY <2>1 DEF Among
<1>4. ASSUME NEW i \in 1..Len(Tail(s)) PROVE Tail(s)[i] \in Among(s)
  <2> DEFINE j == i + 1
  <2>1. j \in 1..Len(s) /\ Tail(s)[i] = s[j]  BY <1>1
  <2> HIDE DEF j
  <2> QED BY <2>1 DEF Among
<1>5. Head(s) \in Among(s)  BY <1>1, <1>2 DEF Among
<1>6. Among(s) \subseteq Among(Tail(s)) \cup {Head(s)}  BY <1>1, <1>3 DEF Among
<1>7. Among(Tail(s)) \subseteq Among(s)  BY <1>4 DEF Among
<1> QED BY <1>2, <1>5, <1>6, <1>7

LEMMA AmongAppend ==
    ASSUME NEW X, NEW s \in Seq(X), NEW c \in X
    PROVE  Append(s, c) \in Seq(X) /\ Among(Append(s, c)) = Among(s) \cup {c}
<1> DEFINE t == Append(s, c)
           n == Len(s)
<1>1. /\ t \in Seq(X) /\ n \in Nat /\ Len(t) = n + 1 /\ t[n + 1] = c
      /\ \A i \in 1..n : t[i] = s[i]
  OBVIOUS
<1> HIDE DEF t, n
<1>2. /\ \A i \in 1..Len(t) : i \in 1..n \/ i = n + 1
      /\ \A i \in 1..n : i \in 1..Len(t)
      /\ n + 1 \in 1..Len(t)
  BY <1>1
<1>3. Among(t) \subseteq Among(s) \cup {c}  BY <1>1, <1>2 DEF Among, n
<1>4. Among(s) \subseteq Among(t)  BY <1>1, <1>2 DEF Among, n
<1>5. c \in Among(t)  BY <1>1, <1>2 DEF Among
<1>6. Among(t) = Among(s) \cup {c}  BY <1>3, <1>4, <1>5
<1> QED BY <1>1, <1>6 DEF t

LEMMA AmongEmpty == Among(<< >>) = {}
BY DEF Among

LEMMA AmongTyped ==
    ASSUME NEW X, NEW s \in Seq(X) PROVE Among(s) \subseteq X
BY DEF Among

LEMMA CountType == ASSUME NEW s, NEW T PROVE Count(s, T) \in 0..2
BY DEF Count

LEMMA CountEmpty == ASSUME NEW T PROVE Count(<< >>, T) = 0
BY DEF Count, None

LEMMA CountPositive ==
    ASSUME NEW s, NEW T, NEW i \in 1..Len(s), s[i] \in T
    PROVE  Count(s, T) >= 1
BY DEF Count, None

LEMMA CountAppend ==
    ASSUME NEW X, NEW s \in Seq(X), NEW c \in X, NEW T
    PROVE  Count(Append(s, c), T) <= Count(s, T) + Is(c \in T)
<1> DEFINE t == Append(s, c)
           n == Len(s)
<1>1. /\ n \in Nat /\ Len(t) = n + 1 /\ t[n + 1] = c
      /\ \A i \in 1..n : t[i] = s[i]
  OBVIOUS
<1> HIDE DEF t
<1>2. \A i \in 1..Len(t) : i \in 1..n \/ i = n + 1  BY <1>1
<1>3. CASE c \notin T
  <2>1. None(s, T) => None(t, T)  BY <1>1, <1>2, <1>3 DEF None
  <2>2. One(s, T) => One(t, T)  BY <1>1, <1>2, <1>3 DEF One
  <2> QED BY <1>3, <2>1, <2>2 DEF Count, Is, t
<1>4. CASE c \in T
  <2>1. None(s, T) => One(t, T)  BY <1>1, <1>2 DEF None, One
  <2> QED BY <1>4, <2>1 DEF Count, Is, t
<1> QED BY <1>3, <1>4

LEMMA CountTail ==
    ASSUME NEW X, NEW s \in Seq(X), s # << >>, NEW T, Count(s, T) <= 1
    PROVE  Count(Tail(s), T) + Is(Head(s) \in T) <= Count(s, T)
<1> DEFINE t == Tail(s)
           n == Len(s)
<1>1. /\ n \in Nat \ {0} /\ Len(t) = n - 1 /\ Head(s) = s[1]
      /\ \A i \in 1..(n - 1) : t[i] = s[i + 1]
  OBVIOUS
<1> HIDE DEF t, n
<1>2. \A i \in 1..Len(t) : i \in 1..(n - 1) /\ i + 1 \in 1..n /\ i \in Int  BY <1>1
<1>3. 1 \in 1..n  BY <1>1
<1>4. None(s, T) => None(t, T) /\ Head(s) \notin T
  BY <1>1, <1>2, <1>3 DEF None, n
<1>5. One(s, T) => One(t, T)
  <2>1. ASSUME One(s, T), NEW i \in 1..Len(t), NEW j \in 1..Len(t), t[i] \in T, t[j] \in T
        PROVE  i = j
    <3>1. s[i + 1] \in T /\ s[j + 1] \in T  BY <1>1, <1>2, <2>1
    <3>2. i + 1 = j + 1  BY <1>2, <2>1, <3>1 DEF One, n
    <3> QED BY <1>2, <3>2
  <2> QED BY <2>1 DEF One
<1>6. One(s, T) /\ Head(s) \in T => None(t, T)
  <2>1. ASSUME One(s, T), Head(s) \in T, NEW i \in 1..Len(t), t[i] \in T
        PROVE  FALSE
    <3>1. s[i + 1] \in T /\ s[1] \in T  BY <1>1, <1>2, <2>1
    <3>2. i + 1 = 1  BY <1>2, <1>3, <2>1, <3>1 DEF One, n
    <3>3. i \in Nat \ {0}  BY <1>1, <1>2
    <3> QED BY <3>2, <3>3
  <2> QED BY <2>1 DEF None
<1>7. None(s, T) \/ One(s, T)  BY DEF Count
<1> QED BY <1>4, <1>5, <1>6, <1>7 DEF Count, Is, t

LEMMA CountConcat ==
    ASSUME NEW X, NEW a \in Seq(X), NEW b \in Seq(X), NEW T
    PROVE  Count(a \o b, T) <= Count(a, T) + Count(b, T)
<1> DEFINE t == a \o b
           n == Len(a)
           m == Len(b)
<1>1. /\ n \in Nat /\ m \in Nat /\ Len(t) = n + m
      /\ \A i \in 1..n : t[i] = a[i]
      /\ \A i \in (n + 1)..(n + m) : t[i] = b[i - n]
  OBVIOUS
<1> HIDE DEF t, n, m
<1>2. ASSUME NEW i \in 1..Len(t)
      PROVE  \/ i \in 1..n /\ t[i] = a[i]
             \/ i - n \in 1..m /\ t[i] = b[i - n] /\ i \notin 1..n
  <2>1. i \in Nat \ {0} /\ i <= n + m  BY <1>1
  <2>2. CASE i <= n  BY <1>1, <2>1, <2>2
  <2>3. CASE ~ i <= n
    <3>1. i \in (n + 1)..(n + m) /\ i - n \in 1..m /\ i \notin 1..n  BY <1>1, <2>1, <2>3
    <3> QED BY <1>1, <3>1
  <2> QED BY <2>2, <2>3
<1>3. None(a, T) /\ None(b, T) => None(t, T)
  BY <1>2 DEF None, n, m
<1>4. None(a, T) /\ One(b, T) => One(t, T)
  <2>1. ASSUME None(a, T), One(b, T), NEW i \in 1..Len(t), NEW j \in 1..Len(t),
               t[i] \in T, t[j] \in T
        PROVE  i = j
    <3>1. i - n \in 1..m /\ j - n \in 1..m /\ b[i - n] \in T /\ b[j - n] \in T
      BY <1>2, <2>1 DEF None, n
    <3>2. i - n = j - n  BY <2>1, <3>1 DEF One, m
    <3>3. i \in Int /\ j \in Int  OBVIOUS
    <3> QED BY <1>1, <3>2, <3>3
  <2> QED BY <2>1 DEF One
<1>5. One(a, T) /\ None(b, T) => One(t, T)
  <2>1. ASSUME One(a, T), None(b, T), NEW i \in 1..Len(t), NEW j \in 1..Len(t),
               t[i] \in T, t[j] \in T
        PROVE  i = j
    <3>1. i \in 1..n /\ j \in 1..n /\ a[i] \in T /\ a[j] \in T
      BY <1>2, <2>1 DEF None, m
    <3> QED BY <2>1, <3>1 DEF One, n
  <2> QED BY <2>1 DEF One
<1> QED BY <1>3, <1>4, <1>5 DEF Count, t

\* The elements of a set come once each.
LEMMA CountSet ==
    ASSUME NEW S, IsFiniteSet(S), NEW T, NEW q, q = Subscription!SetToSeq(S),
           NEW x, S \cap T \subseteq {x}
    PROVE  q \in Seq(S) /\ Count(q, T) <= Is(x \in S)
<1>1. Subscription!Cardinality(S) = Cardinality(S)
  BY DEF Subscription!Cardinality, Cardinality
<1> DEFINE n == Cardinality(S)
           Good(f) == f \in [1..n -> S] /\ \A a, b \in 1..n : f[a] = f[b] => a = b
<1>2. n \in Nat /\ ExistsBijection(1..n, S)  BY FS_CardinalityType
<1>3. \E f : Good(f)
  BY <1>2 DEF ExistsBijection, Bijection, Injection, IsInjective
<1>4. q = CHOOSE f : f \in [1..n -> S] /\ Subscription!IsInjective(f)
  BY <1>1 DEF Subscription!SetToSeq
<1>5. \A f : Good(f) <=> f \in [1..n -> S] /\ Subscription!IsInjective(f)
  BY DEF Subscription!IsInjective
<1> HIDE DEF n
<1>6. q \in [1..n -> S] /\ Subscription!IsInjective(q)
  <2>1. \E f : f \in [1..n -> S] /\ Subscription!IsInjective(f)  BY <1>3, <1>5
  <2> QED BY <1>4, <2>1, Zenon
<1>7. Good(q)  BY <1>5, <1>6
<1>8. q \in Seq(S) /\ Len(q) = n  BY <1>2, <1>7
<1>9. \A i \in 1..Len(q) : q[i] \in T => q[i] = x /\ x \in S  BY <1>7, <1>8
<1>10. One(q, T)  BY <1>7, <1>8, <1>9 DEF One
<1>11. x \notin S => None(q, T)  BY <1>9 DEF None
<1> QED BY <1>8, <1>10, <1>11 DEF Count, Is

------------------------------------------------------------------------------
(***************************************************************************)
(* Subscriptions: the invariant.  A handle has one subscription at most: the *)
(* call that asks for it, the call to cancel the last one after which        *)
(* reset() asks for it, the answer to either, or the id it is filed under;   *)
(* and never two of them.                                                   *)
(***************************************************************************)
AllCalls == [h : Handles, kind : {"sub", "unsub"}, id : Nat, again : BOOLEAN]

\* The calls about the subscriptions up to n, and what the server says of them.
CallsTo(n) ==
    {c \in AllCalls : c.id <= n /\ (c.kind = "sub" => c = Subscription!SubCall(c.h))}

AllTypes == {"subscribed", "refused", "note", "unsubscribed", "unknown"}

AllMessages == [type : AllTypes, call : AllCalls, id : Nat]

MessagesTo(n) ==
    {m \in AllMessages :
        /\ m.call \in CallsTo(n) /\ m.id <= n
        /\ m.type \in {"unsubscribed", "unknown"} <=> m.call.kind = "unsub"}

\* What is under way to a subscription of h.
Token(h) == {c \in AllCalls : c.h = h /\ (c.kind = "sub" \/ c.again)}

TokenAnswer(h) == {m \in AllMessages : m.type # "note" /\ m.call \in Token(h)}

Load(h) ==
    Count(calls, Token(h)) + Count(requests, Token(h)) + Count(inbox, TokenAnswer(h))
        + Is(handle[h].id # 0)

HandleStates == [closed : BOOLEAN, id : Nat]

SubTypes ==
    /\ nextId \in Nat
    /\ handle \in [Handles -> HandleStates]
    /\ \A h \in Handles : handle[h].id <= nextId
    /\ calls \in Seq(CallsTo(nextId))
    /\ requests \in Seq(CallsTo(nextId))
    /\ inbox \in Seq(MessagesTo(nextId))
    /\ socket \in {"up", "down"}
    /\ \A s \in server : s.id \in 1..nextId /\ s.owner \in Handles

\* An answer is about the subscription of its call, and what was cancelled is gone.
AnswersFit ==
    \A m \in Among(inbox) : \A s \in server :
        /\ m.type = "subscribed" /\ m.id = s.id => m.call.h = s.owner
        /\ m.call.kind = "unsub" => m.call.id # s.id

\* Somebody wants the subscription s.
Wanted(s) ==
    \/ handle[s.owner].id = s.id
    \/ \E m \in Among(inbox) : m.type = "subscribed" /\ m.id = s.id
    \/ \E c \in Among(calls) \cup Among(requests) : c.kind = "unsub" /\ c.id = s.id

SubInv ==
    /\ SubTypes
    /\ \A h \in Handles : Load(h) <= 1
    /\ AnswersFit
    /\ \A s \in server : Wanted(s)

LEMMA IsType == ASSUME NEW P PROVE Is(P) \in 0..1
BY DEF Is

LEMMA SubCallIs ==
    ASSUME NEW h \in Handles, NEW n \in Nat, NEW c, c = Subscription!SubCall(h)
    PROVE  /\ c \in CallsTo(n) /\ c \in AllCalls
           /\ c.h = h /\ c.kind = "sub" /\ c.id = 0
           /\ \A g \in Handles : c \in Token(g) <=> g = h
<1>1. c = [h |-> h, kind |-> "sub", id |-> 0, again |-> FALSE]
  BY DEF Subscription!SubCall
<1>2. c \in AllCalls  BY <1>1 DEF AllCalls
<1>3. c.h = h /\ c.kind = "sub" /\ c.id = 0  BY <1>1
<1> QED BY <1>2, <1>3 DEF CallsTo, Token

LEMMA UnsubCallIs ==
    ASSUME NEW h \in Handles, NEW n \in Nat, NEW id \in 0..n, NEW again \in BOOLEAN,
           NEW c, c = Subscription!UnsubCall(h, id, again)
    PROVE  /\ c \in CallsTo(n)
           /\ c.h = h /\ c.kind = "unsub" /\ c.id = id
           /\ \A g \in Handles : c \in Token(g) <=> (g = h /\ again)
<1>1. c = [h |-> h, kind |-> "unsub", id |-> id, again |-> again]
  BY DEF Subscription!UnsubCall
<1>2. c \in AllCalls  BY <1>1 DEF AllCalls
<1>3. c.h = h /\ c.kind = "unsub" /\ c.id = id /\ (c.again <=> again)  BY <1>1
<1> QED BY <1>2, <1>3 DEF CallsTo, Token

LEMMA MessageIs ==
    ASSUME NEW n \in Nat, NEW type \in AllTypes, NEW c \in CallsTo(n), NEW id \in 0..n,
           type \in {"unsubscribed", "unknown"} <=> c.kind = "unsub",
           NEW m, m = Subscription!Message(type, c, id)
    PROVE  /\ m \in MessagesTo(n)
           /\ m.type = type /\ m.call = c /\ m.id = id
           /\ \A g \in Handles : m \in TokenAnswer(g) <=> (type # "note" /\ c \in Token(g))
<1>1. m = [type |-> type, call |-> c, id |-> id]
  BY DEF Subscription!Message
<1>2. c \in AllCalls  BY DEF CallsTo
<1>3. m \in AllMessages  BY <1>1, <1>2 DEF AllMessages
<1>4. m.type = type /\ m.call = c /\ m.id = id  BY <1>1
<1> QED BY <1>3, <1>4 DEF MessagesTo, TokenAnswer

\* The bounds only grow.
LEMMA BoundsGrow ==
    ASSUME NEW n \in Nat, NEW k \in Nat, n <= k
    PROVE  CallsTo(n) \subseteq CallsTo(k) /\ MessagesTo(n) \subseteq MessagesTo(k)
<1>1. CallsTo(n) \subseteq CallsTo(k)
  BY DEF CallsTo, AllCalls
<1>2. \A m \in AllMessages : m.id \in Nat  BY DEF AllMessages
<1> QED BY <1>1, <1>2 DEF MessagesTo

\* What the client repeats, or asks for again.
LEMMA SubsInTurn ==
    ASSUME IsFiniteSet(Handles), NEW n \in Nat,
           NEW S, S \subseteq {Subscription!SubCall(h) : h \in Handles},
           NEW q, q = Subscription!SetToSeq(S)
    PROVE  /\ q \in Seq(CallsTo(n))
           /\ \A h \in Handles : Count(q, Token(h)) <= Is(Subscription!SubCall(h) \in S)
<1> DEFINE All == {Subscription!SubCall(h) : h \in Handles}
           f == [h \in Handles |-> Subscription!SubCall(h)]
<1>1. f \in Surjection(Handles, All)  BY DEF Surjection
<1>2. IsFiniteSet(All)
  <2> HIDE DEF f, All
  <2> QED BY <1>1, FS_Surjection
<1>3. IsFiniteSet(S)
  <2>1. S \in SUBSET All  OBVIOUS
  <2> HIDE DEF All
  <2> QED BY <1>2, <2>1, FS_Subset
<1>4. ASSUME NEW h \in Handles
      PROVE  q \in Seq(S) /\ Count(q, Token(h)) <= Is(Subscription!SubCall(h) \in S)
  <2>1. S \cap Token(h) \subseteq {Subscription!SubCall(h)}
    BY SubCallIs
  <2> QED BY <1>3, <2>1, CountSet
<1>5. q \in Seq(S)
  <2>1. S \cap {} \subseteq {0}  OBVIOUS
  <2> QED BY <1>3, <2>1, CountSet
<1>6. S \subseteq CallsTo(n)  BY SubCallIs
<1>7. q \in Seq(CallsTo(n))  BY <1>5, <1>6
<1> QED BY <1>4, <1>7

LEMMA SubscribingInTurn ==
    ASSUME IsFiniteSet(Handles), NEW n \in Nat, NEW S, S \subseteq Handles,
           NEW q, q = Subscription!Subscribing(S)
    PROVE  /\ q \in Seq(CallsTo(n))
           /\ \A h \in Handles : Count(q, Token(h)) <= Is(h \in S)
<1> DEFINE C == {Subscription!SubCall(h) : h \in S}
<1>1. C \subseteq {Subscription!SubCall(h) : h \in Handles}  OBVIOUS
<1>2. q = Subscription!SetToSeq(C)  BY DEF Subscription!Subscribing
<1>3. \A h \in Handles : Subscription!SubCall(h) \in C => h \in S
  BY SubCallIs
<1> HIDE DEF C
<1>4. /\ q \in Seq(CallsTo(n))
      /\ \A h \in Handles : Count(q, Token(h)) <= Is(Subscription!SubCall(h) \in C)
  BY <1>1, <1>2, SubsInTurn
<1>5. ASSUME NEW h \in Handles PROVE Count(q, Token(h)) <= Is(h \in S)
  BY <1>3, <1>4, CountType DEF Is
<1> QED BY <1>4, <1>5

\* A call that is in flight counts.
LEMMA InFlightCounts ==
    ASSUME SubTypes, NEW c \in Subscription!InFlight
    PROVE  /\ c \in CallsTo(nextId)
           /\ \A h \in Handles : c \in Token(h) =>
                Count(requests, Token(h)) >= 1 \/ Count(inbox, TokenAnswer(h)) >= 1
<1>1. CASE \E i \in 1..Len(requests) : c = requests[i]
  <2>1. PICK i \in 1..Len(requests) : c = requests[i]  BY <1>1
  <2>2. c \in CallsTo(nextId)  BY <2>1 DEF SubTypes
  <2> QED BY <2>1, <2>2, CountPositive
<1>2. CASE \E i \in 1..Len(inbox) : c = inbox[i].call /\ inbox[i].type # "note"
  <2>1. PICK i \in 1..Len(inbox) : c = inbox[i].call /\ inbox[i].type # "note"  BY <1>2
  <2>2. inbox[i] \in MessagesTo(nextId)  BY <2>1 DEF SubTypes
  <2>3. c \in CallsTo(nextId) /\ inbox[i] \in AllMessages  BY <2>1, <2>2 DEF MessagesTo
  <2>4. ASSUME NEW h \in Handles, c \in Token(h) PROVE inbox[i] \in TokenAnswer(h)
    BY <2>1, <2>3, <2>4 DEF TokenAnswer
  <2> QED BY <2>1, <2>3, <2>4, CountPositive
<1>3. DOMAIN requests = 1..Len(requests) /\ DOMAIN inbox = 1..Len(inbox)  BY DEF SubTypes
<1> QED
  BY <1>1, <1>2, <1>3 DEF Subscription!InFlight, Subscription!Answers, Subscription!ToSet

LEMMA LoadIs ==
    ASSUME NEW h, NEW a, a = Count(calls, Token(h)), NEW b, b = Count(requests, Token(h)),
           NEW c, c = Count(inbox, TokenAnswer(h)), NEW d, d = Is(handle[h].id # 0),
           Load(h) <= 1
    PROVE  /\ a \in 0..1 /\ b \in 0..1 /\ c \in 0..1 /\ d \in 0..1 /\ a + b + c + d <= 1
<1>1. a \in 0..2 /\ b \in 0..2 /\ c \in 0..2 /\ d \in 0..1  BY CountType, IsType
<1>2. a + b + c + d <= 1  BY DEF Load
<1> QED BY <1>1, <1>2

LEMMA CountSame ==
    ASSUME NEW h, UNCHANGED << calls, requests, inbox >>
    PROVE  /\ Count(calls, Token(h))' = Count(calls, Token(h))
           /\ Count(requests, Token(h))' = Count(requests, Token(h))
           /\ Count(inbox, TokenAnswer(h))' = Count(inbox, TokenAnswer(h))
BY DEF Count, None, One, Token, TokenAnswer

\* The connection is gone, and with it everything that was under way on it.
LEMMA DropKeeps ==
    ASSUME SubInv, nextId' = nextId,
           handle' \in [Handles -> HandleStates], \A h \in Handles : handle'[h].id = 0,
           calls' \in Seq(CallsTo(nextId)),
           \A h \in Handles : Count(calls', Token(h)) <= 1,
           socket' = "down", requests' = << >>, inbox' = << >>, server' = {}
    PROVE  SubInv'
<1>1. SubTypes'  BY DEF SubInv, SubTypes
<1>2. ASSUME NEW h \in Handles PROVE Load(h)' <= 1
  <2>1. Count(requests', Token(h)) = 0 /\ Count(inbox', TokenAnswer(h)) = 0
    BY CountEmpty
  <2>2. Is(handle'[h].id # 0) = 0  BY DEF Is
  <2>3. Count(calls', Token(h)) <= 1 /\ Count(calls', Token(h)) \in 0..2  BY CountType
  <2>4. Load(h)' = Count(calls', Token(h)) + Count(requests', Token(h))
                       + Count(inbox', TokenAnswer(h)) + Is(handle'[h].id # 0)
    BY DEF Load
  <2> QED BY <2>1, <2>2, <2>3, <2>4
<1>3. AnswersFit' /\ \A s \in server' : Wanted(s)'
  BY DEF AnswersFit
<1> QED BY <1>1, <1>2, <1>3 DEF SubInv

\* Whoever subscribes again had a call in flight or an id.
LEMMA LostKeeps ==
    ASSUME IsFiniteSet(Handles), SubInv, Subscription!Lost, nextId' = nextId
    PROVE  SubInv'
<1> DEFINE subs == {c \in Subscription!InFlight : c.kind = "sub"}
           again(retry) == {h \in Subscription!Resubscribers :
                                ~ (retry /\ Subscription!SubCall(h) \in subs)}
           first(retry) == IF retry THEN Subscription!SetToSeq(subs) ELSE << >>
<1>1. PICK retry \in BOOLEAN :
        /\ calls' = first(retry) \o calls \o Subscription!Subscribing(again(retry))
        /\ handle' = [h \in Handles |-> [handle[h] EXCEPT !.id = 0]]
        /\ socket' = "down" /\ requests' = << >> /\ inbox' = << >> /\ server' = {}
  BY DEF Subscription!Lost
<1> DEFINE A == again(retry)
           R == first(retry)
           B == Subscription!Subscribing(A)
<1>2. SubTypes /\ nextId \in Nat /\ calls \in Seq(CallsTo(nextId))  BY DEF SubInv, SubTypes
<1>3. subs \subseteq {Subscription!SubCall(h) : h \in Handles}
  <2>1. ASSUME NEW c \in subs PROVE \E h \in Handles : c = Subscription!SubCall(h)
    <3>1. c \in CallsTo(nextId) /\ c.kind = "sub"  BY <1>2, InFlightCounts
    <3>2. c.h \in Handles /\ c = Subscription!SubCall(c.h)  BY <3>1 DEF CallsTo, AllCalls
    <3> QED BY <3>2
  <2> HIDE DEF subs
  <2> QED BY <2>1
<1>4. A \subseteq Handles /\ A \subseteq Subscription!Resubscribers
  BY DEF Subscription!Resubscribers
<1>5. /\ R \in Seq(CallsTo(nextId))
      /\ \A h \in Handles : Count(R, Token(h)) <= Is(retry /\ Subscription!SubCall(h) \in subs)
  <2>1. CASE retry
    <3>1. R = Subscription!SetToSeq(subs)  BY <2>1
    <3> HIDE DEF subs, R
    <3>2. /\ R \in Seq(CallsTo(nextId))
          /\ \A h \in Handles : Count(R, Token(h)) <= Is(Subscription!SubCall(h) \in subs)
      BY <1>2, <1>3, <3>1, SubsInTurn
    <3> QED BY <2>1, <3>2 DEF Is
  <2>2. CASE ~ retry
    <3>1. R = << >>  BY <2>2
    <3> HIDE DEF R, subs
    <3> QED BY <2>2, <3>1, CountEmpty DEF Is
  <2> QED BY <2>1, <2>2
<1>6. \A h \in Handles : ~ (h \in A /\ retry /\ Subscription!SubCall(h) \in subs)
  OBVIOUS
<1>7. B \in Seq(CallsTo(nextId)) /\ \A h \in Handles : Count(B, Token(h)) <= Is(h \in A)
  <2> HIDE DEF A
  <2> QED BY <1>2, <1>4, SubscribingInTurn
<1>8. ASSUME NEW h \in Handles, h \in A \/ (retry /\ Subscription!SubCall(h) \in subs)
      PROVE  \/ Count(requests, Token(h)) >= 1 \/ Count(inbox, TokenAnswer(h)) >= 1
             \/ handle[h].id # 0
  <2>1. CASE \E c \in Subscription!InFlight : c.h = h /\ (c.kind = "sub" \/ c.again)
    <3>1. PICK c \in Subscription!InFlight : c.h = h /\ (c.kind = "sub" \/ c.again)
      BY <2>1
    <3>2. c \in AllCalls  BY <1>2, InFlightCounts DEF CallsTo
    <3>3. c \in Token(h)  BY <3>1, <3>2 DEF Token
    <3> QED BY <1>2, <3>3, InFlightCounts
  <2>2. CASE Subscription!SubCall(h) \in subs
    <3>1. Subscription!SubCall(h).h = h /\ Subscription!SubCall(h).kind = "sub"
      BY <1>2, SubCallIs
    <3> QED BY <2>1, <2>2, <3>1
  <2>3. CASE h \in Subscription!Resubscribers
    BY <2>1, <2>3 DEF Subscription!Resubscribers
  <2> HIDE DEF subs, A
  <2> QED BY <1>4, <1>8, <2>2, <2>3
<1>9. calls' = (R \o calls) \o B  BY <1>1
<1> HIDE DEF R, B, A, subs
<1>10. calls' \in Seq(CallsTo(nextId))  BY <1>2, <1>5, <1>7, <1>9
<1>11. ASSUME NEW h \in Handles PROVE Count(calls', Token(h)) <= 1
  <2> DEFINE r == Count(R, Token(h))
             b == Count(B, Token(h))
             a == Count(calls, Token(h))
             q == Count(requests, Token(h))
             i == Count(inbox, TokenAnswer(h))
             d == Is(handle[h].id # 0)
  <2>1. /\ a \in 0..1 /\ q \in 0..1 /\ i \in 0..1 /\ d \in 0..1 /\ a + q + i + d <= 1
    <3>1. Load(h) <= 1  BY DEF SubInv
    <3> QED BY <3>1, LoadIs
  <2>2. r \in 0..2 /\ b \in 0..2  BY CountType
  <2>3. r <= Is(retry /\ Subscription!SubCall(h) \in subs) /\ b <= Is(h \in A)
    BY <1>5, <1>7
  <2>4. r + b <= 1
    BY <1>6, <2>2, <2>3 DEF Is
  <2>5. r + b >= 1 => q + i + d >= 1
    <3>1. r + b >= 1 => h \in A \/ (retry /\ Subscription!SubCall(h) \in subs)
      BY <2>2, <2>3 DEF Is
    <3>2. handle[h].id # 0 => d = 1  BY DEF Is
    <3>3. h \in A \/ (retry /\ Subscription!SubCall(h) \in subs)
            => q >= 1 \/ i >= 1 \/ handle[h].id # 0
      BY <1>8
    <3> HIDE DEF r, b, q, i, d
    <3> QED BY <2>1, <3>1, <3>2, <3>3
  <2>6. Count(R \o calls, Token(h)) <= r + a  BY <1>2, <1>5, CountConcat
  <2>7. Count(calls', Token(h)) <= Count(R \o calls, Token(h)) + b
    <3>1. R \o calls \in Seq(CallsTo(nextId))  BY <1>2, <1>5
    <3> QED BY <1>7, <1>9, <3>1, CountConcat
  <2>8. Count(calls', Token(h)) \in 0..2 /\ Count(R \o calls, Token(h)) \in 0..2
    BY CountType
  <2> HIDE DEF r, b, a, q, i, d
  <2> QED BY <2>1, <2>2, <2>4, <2>5, <2>6, <2>7, <2>8
<1>12. handle' \in [Handles -> HandleStates] /\ \A h \in Handles : handle'[h].id = 0
  <2>1. ASSUME NEW h \in Handles
        PROVE  [handle[h] EXCEPT !.id = 0] \in HandleStates
               /\ [handle[h] EXCEPT !.id = 0].id = 0
    <3>1. handle[h] \in HandleStates  BY <1>2 DEF SubTypes
    <3> QED BY <3>1 DEF HandleStates
  <2> QED BY <1>1, <2>1
<1> QED BY <1>1, <1>10, <1>11, <1>12, DropKeeps

\* Another error: who was between the two calls of reset() subscribes again.
LEMMA ProtocolErrorKeeps ==
    ASSUME IsFiniteSet(Handles), SubInv, Subscription!ProtocolError
    PROVE  SubInv'
<1> DEFINE between == {h \in Handles : Subscription!Open(h) /\
                          \E c \in Subscription!InFlight : c.h = h /\ c.again}
           asked == {c.h : c \in {d \in Subscription!InFlight : d.kind = "sub"}}
           B == Subscription!Subscribing(between)
           st(h) == [closed |-> handle[h].closed \/ handle[h].id # 0 \/ h \in asked, id |-> 0]
<1>1. /\ calls' = calls \o B
      /\ handle' = [h \in Handles |-> st(h)]
      /\ socket' = "down" /\ requests' = << >> /\ inbox' = << >> /\ server' = {}
      /\ nextId' = nextId
  BY DEF Subscription!ProtocolError
<1>2. SubTypes /\ nextId \in Nat /\ calls \in Seq(CallsTo(nextId))  BY DEF SubInv, SubTypes
<1>3. between \subseteq Handles  OBVIOUS
<1>4. B \in Seq(CallsTo(nextId)) /\ \A h \in Handles : Count(B, Token(h)) <= Is(h \in between)
  <2> HIDE DEF between
  <2> QED BY <1>2, <1>3, SubscribingInTurn
<1>5. ASSUME NEW h \in between
      PROVE  Count(requests, Token(h)) >= 1 \/ Count(inbox, TokenAnswer(h)) >= 1
  <2>1. PICK c \in Subscription!InFlight : c.h = h /\ c.again  OBVIOUS
  <2>2. c \in AllCalls  BY <1>2, InFlightCounts DEF CallsTo
  <2>3. c \in Token(h) /\ h \in Handles  BY <2>1, <2>2 DEF Token
  <2> QED BY <1>2, <2>3, InFlightCounts
<1>6. handle' \in [Handles -> HandleStates] /\ \A h \in Handles : handle'[h].id = 0
  <2>1. ASSUME NEW h \in Handles PROVE st(h) \in HandleStates /\ st(h).id = 0
    BY DEF HandleStates
  <2> HIDE DEF st
  <2> QED BY <1>1, <2>1
<1> HIDE DEF between, B, st
<1>7. calls' \in Seq(CallsTo(nextId))  BY <1>1, <1>2, <1>4
<1>8. ASSUME NEW h \in Handles PROVE Count(calls', Token(h)) <= 1
  <2> DEFINE b == Count(B, Token(h))
             a == Count(calls, Token(h))
             q == Count(requests, Token(h))
             i == Count(inbox, TokenAnswer(h))
             d == Is(handle[h].id # 0)
  <2>1. /\ a \in 0..1 /\ q \in 0..1 /\ i \in 0..1 /\ d \in 0..1 /\ a + q + i + d <= 1
    <3>1. Load(h) <= 1  BY DEF SubInv
    <3> QED BY <3>1, LoadIs
  <2>2. b \in 0..2 /\ b <= Is(h \in between)  BY <1>4, CountType
  <2>3. h \in between => q >= 1 \/ i >= 1  BY <1>5
  <2>4. Count(calls', Token(h)) <= a + b  BY <1>1, <1>2, <1>4, CountConcat
  <2>5. Count(calls', Token(h)) \in 0..2  BY CountType
  <2> HIDE DEF b, a, q, i, d
  <2> QED BY <2>1, <2>2, <2>3, <2>4, <2>5 DEF Is
<1> QED BY <1>1, <1>6, <1>7, <1>8, DropKeeps

\* close() of a handle without a subscription, and a new connection.
LEMMA FlagsKeep ==
    ASSUME SubInv, handle' \in [Handles -> HandleStates],
           \A h \in Handles : handle'[h].id = handle[h].id,
           socket' \in {"up", "down"}, UNCHANGED << calls, requests, server, inbox, nextId >>
    PROVE  SubInv'
<1>1. SubTypes'  BY DEF SubInv, SubTypes
<1>2. ASSUME NEW h \in Handles PROVE Load(h)' <= 1
  <2>1. Load(h) <= 1  BY DEF SubInv
  <2>2. Load(h)' = Load(h)  BY DEF Load
  <2> QED BY <2>1, <2>2
<1>3. AnswersFit'  BY DEF SubInv, AnswersFit
<1>4. ASSUME NEW s \in server PROVE Wanted(s)'
  <2>1. s.owner \in Handles /\ Wanted(s)  BY DEF SubInv, SubTypes
  <2> QED BY <2>1 DEF Wanted
<1> QED BY <1>1, <1>2, <1>3, <1>4 DEF SubInv

\* doUnsubscribe()
LEMMA UnfiledKeeps ==
    ASSUME SubInv, NEW h \in Handles, handle[h].id # 0, NEW again \in BOOLEAN,
           calls' = Append(calls, Subscription!UnsubCall(h, handle[h].id, again)),
           handle' \in [Handles -> HandleStates], handle'[h].id = 0,
           \A g \in Handles \ {h} : handle'[g].id = handle[g].id,
           UNCHANGED << socket, requests, server, inbox, nextId >>
    PROVE  SubInv'
<1> DEFINE u == Subscription!UnsubCall(h, handle[h].id, again)
<1>1. SubTypes /\ nextId \in Nat /\ calls \in Seq(CallsTo(nextId))
      /\ handle[h].id \in 0..nextId
  BY DEF SubInv, SubTypes, HandleStates
<1>2. /\ u \in CallsTo(nextId) /\ u.kind = "unsub" /\ u.id = handle[h].id
      /\ \A g \in Handles : u \in Token(g) <=> (g = h /\ again)
  BY <1>1, UnsubCallIs
<1>3. calls' = Append(calls, u)  OBVIOUS
<1> HIDE DEF u
<1>4. calls' \in Seq(CallsTo(nextId)) /\ Among(calls') = Among(calls) \cup {u}
  BY <1>1, <1>2, <1>3, AmongAppend
<1>5. SubTypes'
  <2>1. \A g \in Handles : handle'[g].id <= nextId'
    BY <1>1 DEF SubTypes
  <2> QED BY <1>1, <1>4, <2>1 DEF SubTypes
<1>6. ASSUME NEW g \in Handles PROVE Load(g)' <= 1
  <2> DEFINE a == Count(calls, Token(g))
             q == Count(requests, Token(g))
             i == Count(inbox, TokenAnswer(g))
             d == Is(handle[g].id # 0)
             e == Count(calls', Token(g))
             f == Is(handle'[g].id # 0)
  <2>1. /\ a \in 0..1 /\ q \in 0..1 /\ i \in 0..1 /\ d \in 0..1 /\ a + q + i + d <= 1
    <3>1. Load(g) <= 1  BY DEF SubInv
    <3> QED BY <3>1, LoadIs
  <2>2. e <= a + Is(u \in Token(g)) /\ e \in 0..2
    BY <1>1, <1>2, <1>3, CountAppend, CountType
  <2>3. g = h => d = 1 /\ f = 0  BY DEF Is
  <2>4. g # h => d = f /\ Is(u \in Token(g)) = 0  BY <1>2 DEF Is
  <2>5. Is(u \in Token(g)) \in 0..1  BY IsType
  <2>6. Load(g)' = e + q + i + f  BY DEF Load
  <2> HIDE DEF a, q, i, d, e, f
  <2> QED BY <2>1, <2>2, <2>3, <2>4, <2>5, <2>6
<1>7. AnswersFit'  BY DEF SubInv, AnswersFit
<1>8. ASSUME NEW s \in server PROVE Wanted(s)'
  <2>1. s.owner \in Handles /\ s.id # 0 /\ Wanted(s)  BY <1>1 DEF SubInv, SubTypes
  <2>2. CASE s.owner = h /\ handle[h].id = s.id
    <3>1. u \in Among(calls') /\ u.kind = "unsub" /\ u.id = s.id  BY <1>2, <1>4, <2>2
    <3> QED BY <3>1 DEF Wanted
  <2>3. CASE s.owner # h /\ handle[s.owner].id = s.id  BY <2>1, <2>3 DEF Wanted
  <2>4. CASE \E m \in Among(inbox) : m.type = "subscribed" /\ m.id = s.id
    BY <2>4 DEF Wanted
  <2>5. CASE \E c \in Among(calls) \cup Among(requests) : c.kind = "unsub" /\ c.id = s.id
    BY <1>4, <2>5 DEF Wanted
  <2> QED BY <2>1, <2>2, <2>3, <2>4, <2>5 DEF Wanted
<1> QED BY <1>5, <1>6, <1>7, <1>8 DEF SubInv

LEMMA FieldsAreSet ==
    ASSUME NEW r \in HandleStates, NEW id \in Nat
    PROVE  /\ [r EXCEPT !.id = id] \in HandleStates /\ [r EXCEPT !.id = id].id = id
           /\ [r EXCEPT !.id = 0] \in HandleStates /\ [r EXCEPT !.id = 0].id = 0
           /\ [r EXCEPT !.closed = TRUE] \in HandleStates
           /\ [r EXCEPT !.closed = TRUE].id = r.id
BY DEF HandleStates

\* What is written to one handle.
LEMMA HandleIsSet ==
    ASSUME SubTypes, NEW h \in Handles, NEW st \in HandleStates, st.id = 0,
           handle' = [handle EXCEPT ![h] = st]
    PROVE  /\ handle' \in [Handles -> HandleStates] /\ handle'[h].id = 0
           /\ \A k \in Handles \ {h} : handle'[k].id = handle[k].id
BY DEF SubTypes

\* Handle.close() and Handle.reset()
LEMMA HandlesKeep ==
    ASSUME SubInv, NEW h \in Handles, Subscription!Close(h) \/ Subscription!ResetHandle(h)
    PROVE  SubInv'
<1>1. SubTypes /\ handle[h] \in HandleStates  BY DEF SubInv, SubTypes
<1>2. CASE Subscription!Close(h)
  <2> DEFINE r == [handle[h] EXCEPT !.closed = TRUE]
             st == [r EXCEPT !.id = 0]
  <2>1. handle' = [handle EXCEPT ![h].closed = TRUE, ![h].id = 0]
        /\ UNCHANGED << socket, requests, server, inbox, nextId >>
    BY <1>2 DEF Subscription!Close
  <2>2. handle' = [handle EXCEPT ![h] = st]
    <3>1. handle \in [Handles -> HandleStates]  BY <1>1 DEF SubTypes
    <3> QED BY <2>1, <3>1
  <2>3. st \in HandleStates /\ st.id = 0
    <3>1. r \in HandleStates  BY <1>1, FieldsAreSet
    <3> HIDE DEF r
    <3> QED BY <3>1, FieldsAreSet
  <2> HIDE DEF st
  <2>4. /\ handle' \in [Handles -> HandleStates] /\ handle'[h].id = 0
        /\ \A k \in Handles \ {h} : handle'[k].id = handle[k].id
    BY <1>1, <2>2, <2>3, HandleIsSet
  <2>5. CASE handle[h].id = 0
    <3>1. calls' = calls  BY <1>2, <2>5 DEF Subscription!Close
    <3>2. socket' \in {"up", "down"}  BY <1>1, <2>1 DEF SubTypes
    <3> QED BY <2>1, <2>4, <2>5, <3>1, <3>2, FlagsKeep
  <2>6. CASE handle[h].id # 0
    <3> DEFINE again == FALSE
    <3>1. calls' = Append(calls, Subscription!UnsubCall(h, handle[h].id, again))
      BY <1>2, <2>6 DEF Subscription!Close
    <3>2. again \in BOOLEAN  OBVIOUS
    <3> HIDE DEF again
    <3> QED BY <2>1, <2>4, <2>6, <3>1, <3>2, UnfiledKeeps
  <2> QED BY <2>5, <2>6
<1>3. CASE Subscription!ResetHandle(h)
  <2> DEFINE st == [handle[h] EXCEPT !.id = 0]
             again == TRUE
  <2>1. /\ handle' = [handle EXCEPT ![h].id = 0] /\ handle[h].id # 0
        /\ calls' = Append(calls, Subscription!UnsubCall(h, handle[h].id, again))
        /\ UNCHANGED << socket, requests, server, inbox, nextId >>
    BY <1>3 DEF Subscription!ResetHandle, Subscription!Forget
  <2>2. handle' = [handle EXCEPT ![h] = st]
    <3>1. handle \in [Handles -> HandleStates]  BY <1>1 DEF SubTypes
    <3> QED BY <2>1, <3>1
  <2>3. st \in HandleStates /\ st.id = 0  BY <1>1, FieldsAreSet
  <2>4. again \in BOOLEAN  OBVIOUS
  <2> HIDE DEF again, st
  <2>5. /\ handle' \in [Handles -> HandleStates] /\ handle'[h].id = 0
        /\ \A k \in Handles \ {h} : handle'[k].id = handle[k].id
    BY <1>1, <2>2, <2>3, HandleIsSet
  <2> QED BY <2>1, <2>4, <2>5, UnfiledKeeps
<1> QED BY <1>2, <1>3

LEMMA ReconnectKeeps ==
    ASSUME SubInv, Subscription!Reconnect
    PROVE  SubInv'
<1>1. socket' = "up" /\ UNCHANGED << handle, calls, requests, server, inbox, nextId >>
  BY DEF Subscription!Reconnect
<1>2. handle' \in [Handles -> HandleStates]  BY <1>1 DEF SubInv, SubTypes
<1> QED BY <1>1, <1>2, FlagsKeep

\* A call goes to the server.
LEMMA SendCallKeeps ==
    ASSUME SubInv, Subscription!SendCall
    PROVE  SubInv'
<1> DEFINE c == Head(calls)
<1>1. /\ calls # << >> /\ requests' = Append(requests, c) /\ calls' = Tail(calls)
      /\ UNCHANGED << handle, socket, server, inbox, nextId >>
  BY DEF Subscription!SendCall
<1>2. SubTypes /\ nextId \in Nat /\ calls \in Seq(CallsTo(nextId))
      /\ requests \in Seq(CallsTo(nextId))
  BY DEF SubInv, SubTypes
<1>3. /\ calls' \in Seq(CallsTo(nextId)) /\ c \in CallsTo(nextId)
      /\ Among(calls) = Among(calls') \cup {c}
  BY <1>1, <1>2, AmongTail
<1> HIDE DEF c
<1>4. requests' \in Seq(CallsTo(nextId)) /\ Among(requests') = Among(requests) \cup {c}
  BY <1>1, <1>2, <1>3, AmongAppend
<1>5. SubTypes'  BY <1>1, <1>2, <1>3, <1>4 DEF SubTypes
<1>6. ASSUME NEW h \in Handles PROVE Load(h)' <= 1
  <2> DEFINE a == Count(calls, Token(h))
             q == Count(requests, Token(h))
             i == Count(inbox, TokenAnswer(h))
             d == Is(handle[h].id # 0)
             e == Count(calls', Token(h))
             f == Count(requests', Token(h))
             t == Is(c \in Token(h))
  <2>1. /\ a \in 0..1 /\ q \in 0..1 /\ i \in 0..1 /\ d \in 0..1 /\ a + q + i + d <= 1
    <3>1. Load(h) <= 1  BY DEF SubInv
    <3> QED BY <3>1, LoadIs
  <2>2. e + t <= a
    <3>1. a <= 1  BY <2>1
    <3> QED BY <1>1, <1>2, <3>1, CountTail DEF c
  <2>3. f <= q + t  BY <1>1, <1>2, <1>3, CountAppend
  <2>4. e \in 0..2 /\ f \in 0..2 /\ t \in 0..1  BY CountType, IsType
  <2>5. Load(h)' = e + f + i + d  BY <1>1 DEF Load
  <2> HIDE DEF a, q, i, d, e, f, t
  <2> QED BY <2>1, <2>2, <2>3, <2>4, <2>5
<1>7. AnswersFit'  BY <1>1 DEF SubInv, AnswersFit
<1>8. ASSUME NEW s \in server PROVE Wanted(s)'
  <2>1. Wanted(s)  BY DEF SubInv
  <2>2. Among(calls') \cup Among(requests') = Among(calls) \cup Among(requests)
    BY <1>3, <1>4
  <2> QED BY <1>1, <2>1, <2>2 DEF Wanted
<1> QED BY <1>1, <1>5, <1>6, <1>7, <1>8 DEF SubInv

\* A message is taken from the inbox: what it said is now with the handle or queued.
LEMMA ConsumedKeeps ==
    ASSUME SubInv, inbox # << >>, NEW m, m = Head(inbox), inbox' = Tail(inbox),
           handle' \in [Handles -> HandleStates],
           \A h \in Handles : handle'[h].id <= nextId,
           calls' \in Seq(CallsTo(nextId)), Among(calls) \subseteq Among(calls'),
           \A h \in Handles :
               Count(calls', Token(h)) + Is(handle'[h].id # 0)
                 <= Count(calls, Token(h)) + Is(handle[h].id # 0) + Is(m \in TokenAnswer(h)),
           \A s \in server : handle[s.owner].id = s.id => handle'[s.owner].id = s.id,
           \A s \in server : m.type = "subscribed" /\ m.id = s.id =>
               \/ handle'[s.owner].id = s.id
               \/ \E c \in Among(calls') : c.kind = "unsub" /\ c.id = s.id,
           UNCHANGED << socket, requests, server, nextId >>
    PROVE  SubInv'
<1>1. SubTypes /\ nextId \in Nat /\ inbox \in Seq(MessagesTo(nextId))
  BY DEF SubInv, SubTypes
<1>2. inbox' \in Seq(MessagesTo(nextId)) /\ Among(inbox) = Among(inbox') \cup {m}
  BY <1>1, AmongTail
<1>3. SubTypes'  BY <1>1, <1>2 DEF SubTypes
<1>4. ASSUME NEW h \in Handles PROVE Load(h)' <= 1
  <2> DEFINE a == Count(calls, Token(h))
             q == Count(requests, Token(h))
             i == Count(inbox, TokenAnswer(h))
             d == Is(handle[h].id # 0)
             e == Count(calls', Token(h))
             f == Is(handle'[h].id # 0)
             j == Count(inbox', TokenAnswer(h))
             t == Is(m \in TokenAnswer(h))
  <2>1. /\ a \in 0..1 /\ q \in 0..1 /\ i \in 0..1 /\ d \in 0..1 /\ a + q + i + d <= 1
    <3>1. Load(h) <= 1  BY DEF SubInv
    <3> QED BY <3>1, LoadIs
  <2>2. j + t <= i
    <3>1. i <= 1  BY <2>1
    <3> QED BY <1>1, <3>1, CountTail
  <2>3. e + f <= a + d + t  OBVIOUS
  <2>4. e \in 0..2 /\ j \in 0..2 /\ f \in 0..1 /\ t \in 0..1  BY CountType, IsType
  <2>5. Load(h)' = e + q + j + f  BY DEF Load
  <2> HIDE DEF a, q, i, d, e, f, j, t
  <2> QED BY <2>1, <2>2, <2>3, <2>4, <2>5
<1>5. AnswersFit'  BY <1>2 DEF SubInv, AnswersFit
<1>6. ASSUME NEW s \in server PROVE Wanted(s)'
  <2>1. Wanted(s)  BY DEF SubInv
  <2>2. CASE handle[s.owner].id = s.id  BY <2>2 DEF Wanted
  <2>3. CASE \E k \in Among(inbox') : k.type = "subscribed" /\ k.id = s.id
    BY <2>3 DEF Wanted
  <2>4. CASE m.type = "subscribed" /\ m.id = s.id  BY <2>4 DEF Wanted
  <2>5. CASE \E c \in Among(calls) \cup Among(requests) : c.kind = "unsub" /\ c.id = s.id
    BY <2>5 DEF Wanted
  <2> QED BY <1>2, <2>1, <2>2, <2>3, <2>4, <2>5 DEF Wanted
<1> QED BY <1>3, <1>4, <1>5, <1>6 DEF SubInv

LEMMA HeadIs ==
    ASSUME SubTypes, inbox # << >>, NEW m, m = Head(inbox)
    PROVE  /\ m \in AllMessages /\ m \in Among(inbox)
           /\ m.type \in AllTypes /\ m.id \in 0..nextId
           /\ m.call \in CallsTo(nextId) /\ m.call \in AllCalls
           /\ m.call.h \in Handles /\ m.call.again \in BOOLEAN
           /\ m.call.kind = "unsub" <=> m.type \in {"unsubscribed", "unknown"}
           /\ m.call.kind \in {"sub", "unsub"}
<1>1. inbox \in Seq(MessagesTo(nextId)) /\ nextId \in Nat  BY DEF SubTypes
<1>2. m \in MessagesTo(nextId) /\ m \in Among(inbox)  BY <1>1, AmongTail
<1>3. /\ m \in AllMessages /\ m.call \in CallsTo(nextId) /\ m.id <= nextId
      /\ m.type \in {"unsubscribed", "unknown"} <=> m.call.kind = "unsub"
  BY <1>2 DEF MessagesTo
<1>4. m.type \in AllTypes /\ m.id \in Nat  BY <1>3 DEF AllMessages
<1>5. m.call \in AllCalls  BY <1>3 DEF CallsTo
<1>6. m.call.h \in Handles /\ m.call.again \in BOOLEAN /\ m.call.kind \in {"sub", "unsub"}
  BY <1>5 DEF AllCalls
<1> QED BY <1>1, <1>2, <1>3, <1>4, <1>5, <1>6

\* A notification, a refusal and the answer to a call that cancels.
LEMMA NoteKeeps ==
    ASSUME SubInv, inbox # << >>, inbox' = Tail(inbox), Head(inbox).type # "subscribed",
           UNCHANGED << calls, socket, requests, server, nextId >>,
           handle' \in [Handles -> HandleStates],
           \A h \in Handles : handle'[h].id = handle[h].id
    PROVE  SubInv'
<1> DEFINE m == Head(inbox)
<1>1. /\ SubTypes /\ nextId \in Nat /\ calls \in Seq(CallsTo(nextId))
      /\ \A h \in Handles : handle[h].id <= nextId
      /\ \A s \in server : s.owner \in Handles
  BY DEF SubInv, SubTypes
<1>2. m.type # "subscribed"  OBVIOUS
<1>3. ASSUME NEW h \in Handles
      PROVE  Count(calls', Token(h)) + Is(handle'[h].id # 0)
               <= Count(calls, Token(h)) + Is(handle[h].id # 0) + Is(m \in TokenAnswer(h))
  <2> DEFINE a == Count(calls, Token(h))
             d == Is(handle[h].id # 0)
             t == Is(m \in TokenAnswer(h))
             e == Count(calls', Token(h))
             f == Is(handle'[h].id # 0)
  <2>1. a \in 0..2 /\ d \in 0..1 /\ t \in 0..1  BY CountType, IsType
  <2>2. e = a /\ f = d  OBVIOUS
  <2>3. e + f <= a + d + t
    <3> HIDE DEF a, d, t, e, f
    <3> QED BY <2>1, <2>2
  <2> QED BY <2>3
<1>4. m = Head(inbox)  OBVIOUS
<1>5. ASSUME NEW s \in server, handle[s.owner].id = s.id PROVE handle'[s.owner].id = s.id
  <2>1. s.owner \in Handles  BY <1>1
  <2>2. handle'[s.owner].id = handle[s.owner].id  BY <2>1, Zenon
  <2> QED BY <1>5, <2>2
<1>6. Among(calls) \subseteq Among(calls') /\ calls' \in Seq(CallsTo(nextId))
      /\ \A h \in Handles : handle'[h].id <= nextId
  BY <1>1
<1> HIDE DEF m
<1> QED BY <1>2, <1>3, <1>4, <1>5, <1>6, ConsumedKeeps

\* The answer to subscribe().
LEMMA SubscribedKeeps ==
    ASSUME SubInv, inbox # << >>, NEW m, m = Head(inbox), inbox' = Tail(inbox),
           m.type = "subscribed", Subscription!Subscribed(m),
           UNCHANGED << socket, requests, server, nextId >>
    PROVE  SubInv'
<1> DEFINE h == m.call.h
<1>1. /\ SubTypes /\ nextId \in Nat /\ calls \in Seq(CallsTo(nextId))
      /\ inbox \in Seq(MessagesTo(nextId))
      /\ handle \in [Handles -> HandleStates]
      /\ \A g \in Handles : handle[g].id <= nextId
      /\ \A s \in server : s.id \in 1..nextId /\ s.owner \in Handles
  BY DEF SubInv, SubTypes
<1>2. /\ m \in AllMessages /\ m \in Among(inbox) /\ m.id \in 0..nextId /\ h \in Handles
      /\ m.call \in AllCalls /\ m.call.kind = "sub"
  BY <1>1, HeadIs
<1>3. m \in TokenAnswer(h)  BY <1>2 DEF TokenAnswer, Token
<1>4. handle[h].id = 0
  <2> DEFINE i == Count(inbox, TokenAnswer(h))
             d == Is(handle[h].id # 0)
  <2>1. i \in 0..1 /\ d \in 0..1 /\ i + d <= 1
    <3>1. Load(h) <= 1  BY <1>2 DEF SubInv
    <3> DEFINE a == Count(calls, Token(h))
               q == Count(requests, Token(h))
    <3>2. a \in 0..1 /\ q \in 0..1 /\ i \in 0..1 /\ d \in 0..1 /\ a + q + i + d <= 1
      BY <3>1, LoadIs
    <3> HIDE DEF a, q, i, d
    <3> QED BY <3>2
  <2>2. i + d >= i /\ Count(Tail(inbox), TokenAnswer(h)) + Is(m \in TokenAnswer(h)) <= i
    <3>1. i <= 1  BY <2>1
    <3>2. Count(Tail(inbox), TokenAnswer(h)) + Is(m \in TokenAnswer(h)) <= i
      BY <1>1, <3>1, CountTail
    <3> HIDE DEF i, d
    <3> QED BY <2>1, <3>2
  <2>3. Is(m \in TokenAnswer(h)) = 1 /\ Count(Tail(inbox), TokenAnswer(h)) \in 0..2
    BY <1>3, CountType DEF Is
  <2>4. d = 0
    <3> HIDE DEF i, d
    <3> QED BY <2>1, <2>2, <2>3
  <2> QED BY <2>4 DEF Is
<1>5. \A s \in server : m.id = s.id => h = s.owner
  BY <1>2 DEF SubInv, AnswersFit
<1>6. CASE Subscription!Open(h)
  <2> DEFINE st == [handle[h] EXCEPT !.id = m.id]
  <2>1. handle' = [handle EXCEPT ![h].id = m.id] /\ calls' = calls
    BY <1>6 DEF Subscription!Subscribed
  <2>2. handle' = [handle EXCEPT ![h] = st]  BY <1>1, <2>1
  <2>3. st \in HandleStates /\ st.id = m.id
    <3>1. handle[h] \in HandleStates /\ m.id \in Nat  BY <1>1, <1>2
    <3> QED BY <3>1, FieldsAreSet
  <2> HIDE DEF st, h
  <2>4. /\ handle' \in [Handles -> HandleStates] /\ handle'[h].id = m.id
        /\ \A g \in Handles \ {h} : handle'[g].id = handle[g].id
    BY <1>1, <1>2, <2>2, <2>3
  <2>5. \A g \in Handles : handle'[g].id <= nextId  BY <1>1, <1>2, <2>4
  <2>6. ASSUME NEW g \in Handles
        PROVE  Count(calls', Token(g)) + Is(handle'[g].id # 0)
                 <= Count(calls, Token(g)) + Is(handle[g].id # 0) + Is(m \in TokenAnswer(g))
    <3> DEFINE a == Count(calls, Token(g))
               d == Is(handle[g].id # 0)
               t == Is(m \in TokenAnswer(g))
               e == Count(calls', Token(g))
               f == Is(handle'[g].id # 0)
    <3>1. a \in 0..2 /\ d \in 0..1 /\ t \in 0..1 /\ f \in 0..1  BY CountType, IsType
    <3>2. e = a  BY <2>1
    <3>3. g = h => t = 1  BY <1>3 DEF Is
    <3>4. g # h => f = d  BY <2>4
    <3>5. e + f <= a + d + t
      <4> HIDE DEF a, d, t, e, f
      <4> QED BY <3>1, <3>2, <3>3, <3>4
    <3> QED BY <3>5
  <2>7. ASSUME NEW s \in server, handle[s.owner].id = s.id PROVE handle'[s.owner].id = s.id
    <3>1. s.owner \in Handles \ {h}  BY <1>1, <1>4, <2>7
    <3> QED BY <2>4, <2>7, <3>1
  <2>8. \A s \in server : m.id = s.id => handle'[s.owner].id = s.id  BY <1>5, <2>4
  <2>9. Among(calls) \subseteq Among(calls') /\ calls' \in Seq(CallsTo(nextId))
    BY <1>1, <2>1
  <2> QED BY <2>4, <2>5, <2>6, <2>7, <2>8, <2>9, ConsumedKeeps
<1>7. CASE ~ Subscription!Open(h)
  <2> DEFINE again == FALSE
             u == Subscription!UnsubCall(h, m.id, again)
  <2>1. handle' = handle /\ calls' = Append(calls, u)
    BY <1>7 DEF Subscription!Subscribed
  <2>2. again \in BOOLEAN /\ ~ again  OBVIOUS
  <2> HIDE DEF again, h
  <2>3. /\ u \in CallsTo(nextId) /\ u.kind = "unsub" /\ u.id = m.id
        /\ \A g \in Handles : u \notin Token(g)
    BY <1>1, <1>2, <2>2, UnsubCallIs
  <2> HIDE DEF u
  <2>4. calls' \in Seq(CallsTo(nextId)) /\ Among(calls') = Among(calls) \cup {u}
    BY <1>1, <2>1, <2>3, AmongAppend
  <2>5. ASSUME NEW g \in Handles
        PROVE  Count(calls', Token(g)) + Is(handle'[g].id # 0)
                 <= Count(calls, Token(g)) + Is(handle[g].id # 0) + Is(m \in TokenAnswer(g))
    <3> DEFINE a == Count(calls, Token(g))
               d == Is(handle[g].id # 0)
               t == Is(m \in TokenAnswer(g))
               e == Count(calls', Token(g))
               f == Is(handle'[g].id # 0)
    <3>1. a \in 0..2 /\ d \in 0..1 /\ t \in 0..1 /\ e \in 0..2  BY CountType, IsType
    <3>2. e <= a + Is(u \in Token(g))  BY <1>1, <2>1, <2>3, CountAppend
    <3>3. Is(u \in Token(g)) = 0  BY <2>3 DEF Is
    <3>4. f = d  BY <2>1
    <3>5. e + f <= a + d + t
      <4> HIDE DEF a, d, t, e, f
      <4> QED BY <3>1, <3>2, <3>3, <3>4
    <3> QED BY <3>5
  <2>6. \A s \in server : m.id = s.id => \E c \in Among(calls') : c.kind = "unsub" /\ c.id = s.id
    BY <2>3, <2>4
  <2>7. /\ handle' \in [Handles -> HandleStates] /\ \A g \in Handles : handle'[g].id <= nextId
        /\ \A s \in server : handle[s.owner].id = s.id => handle'[s.owner].id = s.id
        /\ Among(calls) \subseteq Among(calls')
    BY <1>1, <2>1, <2>4
  <2> QED BY <2>4, <2>5, <2>6, <2>7, ConsumedKeeps
<1> QED BY <1>6, <1>7

\* The answer to a call that cancels: reset() subscribes.
LEMMA UnsubscribedKeeps ==
    ASSUME SubInv, inbox # << >>, NEW m, m = Head(inbox), inbox' = Tail(inbox),
           m.type = "unsubscribed", m.call.again,
           calls' = Append(calls, Subscription!SubCall(m.call.h)),
           UNCHANGED << handle, socket, requests, server, nextId >>
    PROVE  SubInv'
<1> DEFINE h == m.call.h
           u == Subscription!SubCall(h)
<1>1. /\ SubTypes /\ nextId \in Nat /\ calls \in Seq(CallsTo(nextId))
      /\ handle \in [Handles -> HandleStates]
      /\ \A g \in Handles : handle[g].id <= nextId
  BY DEF SubInv, SubTypes
<1>2. m \in AllMessages /\ h \in Handles /\ m.call \in AllCalls  BY <1>1, HeadIs
<1>3. m \in TokenAnswer(h)  BY <1>2 DEF TokenAnswer, Token
<1>4. u \in CallsTo(nextId) /\ \A g \in Handles : u \in Token(g) <=> g = h
  BY <1>1, <1>2, SubCallIs
<1>5. calls' = Append(calls, u)  OBVIOUS
<1> HIDE DEF u, h
<1>6. calls' \in Seq(CallsTo(nextId)) /\ Among(calls') = Among(calls) \cup {u}
  BY <1>1, <1>4, <1>5, AmongAppend
<1>7. ASSUME NEW g \in Handles
      PROVE  Count(calls', Token(g)) + Is(handle'[g].id # 0)
               <= Count(calls, Token(g)) + Is(handle[g].id # 0) + Is(m \in TokenAnswer(g))
  <2> DEFINE a == Count(calls, Token(g))
             d == Is(handle[g].id # 0)
             t == Is(m \in TokenAnswer(g))
             e == Count(calls', Token(g))
             f == Is(handle'[g].id # 0)
  <2>1. a \in 0..2 /\ d \in 0..1 /\ t \in 0..1 /\ e \in 0..2  BY CountType, IsType
  <2>2. e <= a + Is(u \in Token(g))  BY <1>1, <1>4, <1>5, CountAppend
  <2>3. Is(u \in Token(g)) <= t /\ Is(u \in Token(g)) \in 0..1  BY <1>3, <1>4 DEF Is
  <2>4. f = d  OBVIOUS
  <2>5. e + f <= a + d + t
    <3> HIDE DEF a, d, t, e, f
    <3> QED BY <2>1, <2>2, <2>3, <2>4
  <2> QED BY <2>5
<1>8. /\ handle' \in [Handles -> HandleStates] /\ \A g \in Handles : handle'[g].id <= nextId
      /\ \A s \in server : handle[s.owner].id = s.id => handle'[s.owner].id = s.id
      /\ Among(calls) \subseteq Among(calls')
  BY <1>1, <1>6
<1>9. m.type # "subscribed"  OBVIOUS
<1> QED BY <1>6, <1>7, <1>8, <1>9, ConsumedKeeps

LEMMA ReceiveKeeps ==
    ASSUME IsFiniteSet(Handles), SubInv, Subscription!Receive
    PROVE  SubInv'
<1> DEFINE m == Head(inbox)
<1>1. inbox # << >> /\ nextId' = nextId  BY DEF Subscription!Receive
<1>2. /\ SubTypes /\ handle \in [Handles -> HandleStates]
      /\ m.type \in AllTypes /\ m.call.h \in Handles
  BY <1>1, HeadIs DEF SubInv, SubTypes
<1>3. m = Head(inbox)  OBVIOUS
<1>4. CASE m.type = "note"
  <2>1. inbox' = Tail(inbox) /\ UNCHANGED << handle, calls, socket, requests, server >>
    BY <1>4 DEF Subscription!Receive
  <2>2. Head(inbox).type # "subscribed"  BY <1>4
  <2> QED BY <1>1, <1>2, <2>1, <2>2, NoteKeeps
<1>5. CASE m.type = "subscribed"
  <2>1. /\ inbox' = Tail(inbox) /\ Subscription!Subscribed(m)
        /\ UNCHANGED << socket, requests, server >>
    BY <1>5 DEF Subscription!Receive
  <2> HIDE DEF m
  <2> QED BY <1>1, <1>3, <1>5, <2>1, SubscribedKeeps
<1>6. CASE m.type = "refused"
  <2> DEFINE h == m.call.h
             st == [handle[h] EXCEPT !.closed = TRUE]
  <2>1. /\ inbox' = Tail(inbox) /\ handle' = [handle EXCEPT ![h].closed = TRUE]
        /\ UNCHANGED << calls, socket, requests, server >>
    BY <1>6 DEF Subscription!Receive
  <2>2. Head(inbox).type # "subscribed"  BY <1>6
  <2>3. handle' = [handle EXCEPT ![h] = st]  BY <1>2, <2>1
  <2>4. st \in HandleStates /\ st.id = handle[h].id
    <3>1. handle[h] \in HandleStates /\ 0 \in Nat  BY <1>2
    <3> HIDE DEF h
    <3> QED BY <3>1, FieldsAreSet
  <2>5. h \in Handles  BY <1>2
  <2> HIDE DEF st, h
  <2>6. /\ handle' \in [Handles -> HandleStates]
        /\ \A g \in Handles : handle'[g].id = handle[g].id
    BY <1>2, <2>3, <2>4, <2>5
  <2> QED BY <1>1, <2>1, <2>2, <2>6, NoteKeeps
<1>7. CASE m.type = "unsubscribed"
  <2>1. /\ inbox' = Tail(inbox) /\ UNCHANGED << handle, socket, requests, server >>
        /\ calls' = IF m.call.again /\ Subscription!Open(m.call.h)
                    THEN Append(calls, Subscription!SubCall(m.call.h)) ELSE calls
    BY <1>7 DEF Subscription!Receive
  <2>2. CASE m.call.again /\ Subscription!Open(m.call.h)
    <3>1. calls' = Append(calls, Subscription!SubCall(m.call.h))  BY <2>1, <2>2
    <3> HIDE DEF m
    <3> QED BY <1>1, <1>3, <1>7, <2>1, <2>2, <3>1, UnsubscribedKeeps
  <2>3. CASE ~ (m.call.again /\ Subscription!Open(m.call.h))
    <3>1. calls' = calls  BY <2>1, <2>3
    <3>2. Head(inbox).type # "subscribed"  BY <1>7
    <3> QED BY <1>1, <1>2, <2>1, <3>1, <3>2, NoteKeeps
  <2> QED BY <2>2, <2>3
<1>8. CASE m.type = "unknown"
  <2>1. Subscription!Lost  BY <1>8 DEF Subscription!Receive
  <2> QED BY <1>1, <2>1, LostKeeps
<1> HIDE DEF m
<1> QED BY <1>2, <1>4, <1>5, <1>6, <1>7, <1>8 DEF AllTypes

\* The server answers a call.
LEMMA ServedKeeps ==
    ASSUME SubInv, requests # << >>, NEW c, c = Head(requests), requests' = Tail(requests),
           NEW k \in Nat, nextId <= k, nextId' = k,
           NEW m \in MessagesTo(k), m.call = c, inbox' = Append(inbox, m),
           \A s \in server' : s.id \in 1..k /\ s.owner \in Handles,
           \A s \in server' : s \in server \/ (m.type = "subscribed" /\ m.id = s.id),
           \A s \in server' : c.kind = "unsub" => c.id # s.id,
           AnswersFit', UNCHANGED << handle, calls, socket >>
    PROVE  SubInv'
<1>1. /\ SubTypes /\ nextId \in Nat /\ calls \in Seq(CallsTo(nextId))
      /\ requests \in Seq(CallsTo(nextId)) /\ inbox \in Seq(MessagesTo(nextId))
      /\ handle \in [Handles -> HandleStates]
      /\ \A h \in Handles : handle[h].id <= nextId
      /\ socket \in {"up", "down"}
  BY DEF SubInv, SubTypes
<1>2. /\ requests' \in Seq(CallsTo(nextId)) /\ c \in CallsTo(nextId)
      /\ Among(requests) = Among(requests') \cup {c}
  BY <1>1, AmongTail
<1>3. CallsTo(nextId) \subseteq CallsTo(k) /\ MessagesTo(nextId) \subseteq MessagesTo(k)
  BY <1>1, BoundsGrow
<1>4. inbox \in Seq(MessagesTo(k))  BY <1>1, <1>3
<1>5. inbox' \in Seq(MessagesTo(k)) /\ Among(inbox') = Among(inbox) \cup {m}
  BY <1>4, AmongAppend
<1>6. calls' \in Seq(CallsTo(k)) /\ requests' \in Seq(CallsTo(k))
  BY <1>1, <1>2, <1>3
<1>7. \A h \in Handles : handle'[h].id <= k
  <2>1. \A h \in Handles : handle[h].id \in Nat  BY <1>1 DEF HandleStates
  <2> QED BY <1>1, <2>1
<1>8. SubTypes'  BY <1>1, <1>5, <1>6, <1>7 DEF SubTypes
<1>9. ASSUME NEW h \in Handles PROVE Load(h)' <= 1
  <2> DEFINE a == Count(calls, Token(h))
             q == Count(requests, Token(h))
             i == Count(inbox, TokenAnswer(h))
             d == Is(handle[h].id # 0)
             e == Count(requests', Token(h))
             f == Count(inbox', TokenAnswer(h))
             t == Is(c \in Token(h))
             u == Is(m \in TokenAnswer(h))
  <2>1. /\ a \in 0..1 /\ q \in 0..1 /\ i \in 0..1 /\ d \in 0..1 /\ a + q + i + d <= 1
    <3>1. Load(h) <= 1  BY DEF SubInv
    <3> QED BY <3>1, LoadIs
  <2>2. e + t <= q
    <3>1. q <= 1  BY <2>1
    <3> QED BY <1>1, <3>1, CountTail
  <2>3. f <= i + u  BY <1>4, CountAppend
  <2>4. u <= t  BY DEF Is, TokenAnswer
  <2>5. e \in 0..2 /\ f \in 0..2 /\ t \in 0..1 /\ u \in 0..1  BY CountType, IsType
  <2>6. Load(h)' = a + e + f + d  BY DEF Load
  <2> HIDE DEF a, q, i, d, e, f, t, u
  <2> QED BY <2>1, <2>2, <2>3, <2>4, <2>5, <2>6
<1>10. ASSUME NEW s \in server' PROVE Wanted(s)'
  <2>1. CASE m.type = "subscribed" /\ m.id = s.id  BY <1>5, <2>1 DEF Wanted
  <2>2. CASE s \in server
    <3>1. Wanted(s)  BY <2>2 DEF SubInv
    <3>2. CASE handle[s.owner].id = s.id  BY <3>2 DEF Wanted
    <3>3. CASE \E n \in Among(inbox) : n.type = "subscribed" /\ n.id = s.id
      BY <1>5, <3>3 DEF Wanted
    <3>4. CASE \E n \in Among(calls) \cup Among(requests) : n.kind = "unsub" /\ n.id = s.id
      BY <1>2, <3>4 DEF Wanted
    <3> QED BY <3>1, <3>2, <3>3, <3>4 DEF Wanted
  <2> QED BY <2>1, <2>2
<1> QED BY <1>8, <1>9, <1>10 DEF SubInv

LEMMA ServeSubKeeps ==
    ASSUME SubInv, Subscription!ServeSub
    PROVE  SubInv'
<1> DEFINE c == Head(requests)
           k == nextId + 1
<1>1. /\ requests # << >> /\ c.kind = "sub" /\ requests' = Tail(requests)
      /\ UNCHANGED << handle, calls, socket >>
  BY DEF Subscription!ServeSub
<1>2. /\ SubTypes /\ nextId \in Nat /\ requests \in Seq(CallsTo(nextId))
      /\ inbox \in Seq(MessagesTo(nextId))
      /\ \A s \in server : s.id \in 1..nextId /\ s.owner \in Handles
  BY DEF SubInv, SubTypes
<1>3. c \in CallsTo(nextId)  BY <1>1, <1>2, AmongTail
<1>4. c.h \in Handles  BY <1>3 DEF CallsTo, AllCalls
<1>5. k \in Nat /\ nextId <= k /\ k # 0  BY <1>2
<1>6. c \in CallsTo(k)  BY <1>2, <1>3, <1>5, BoundsGrow
<1>7. c = Head(requests)  OBVIOUS
<1> HIDE DEF c
<1>8. CASE /\ nextId' = k
           /\ server' = server \cup {[id |-> k, owner |-> c.h]}
           /\ inbox' = Append(inbox, Subscription!Message("subscribed", c, k))
  <2> DEFINE m == Subscription!Message("subscribed", c, k)
             new == [id |-> k, owner |-> c.h]
  <2>1. m \in MessagesTo(k) /\ m.type = "subscribed" /\ m.call = c /\ m.id = k
    <3>1. "subscribed" \in AllTypes /\ k \in 0..k
          /\ ("subscribed" \in {"unsubscribed", "unknown"} <=> c.kind = "unsub")
      BY <1>1, <1>5 DEF AllTypes
    <3> DEFINE type == "subscribed"
    <3>2. type \in AllTypes /\ (type \in {"unsubscribed", "unknown"} <=> c.kind = "unsub")
      BY <3>1
    <3>3. m = Subscription!Message(type, c, k)  OBVIOUS
    <3>4. type = "subscribed"  OBVIOUS
    <3> HIDE DEF m, type, k
    <3> QED BY <1>5, <1>6, <3>1, <3>2, <3>3, <3>4, MessageIs
  <2>2. new.id = k /\ new.owner = c.h  OBVIOUS
  <2>3. server' = server \cup {new} /\ inbox' = Append(inbox, m) /\ nextId' = k  BY <1>8
  <2>4. \A s \in server : s.id \in 1..k /\ s.id # k /\ s.id <= nextId  BY <1>2
  <2> HIDE DEF m, new
  <2>5. Among(inbox') = Among(inbox) \cup {m}
    <3>1. MessagesTo(nextId) \subseteq MessagesTo(k)  BY <1>2, <1>5, BoundsGrow
    <3>2. inbox \in Seq(MessagesTo(k))  BY <1>2, <3>1
    <3> QED BY <2>1, <2>3, <3>2, AmongAppend
  <2>6. \A n \in Among(inbox) : n.id # k /\ n.call.id # k
    <3>1. Among(inbox) \subseteq MessagesTo(nextId)  BY <1>2, AmongTyped
    <3>2. \A n \in MessagesTo(nextId) : n.id <= nextId /\ n.call.id <= nextId
      BY DEF MessagesTo, CallsTo
    <3>3. ~ k <= nextId  BY <1>2
    <3> QED BY <3>1, <3>2, <3>3
  <2>7. ASSUME NEW n \in Among(inbox'), NEW s \in server'
        PROVE  /\ n.type = "subscribed" /\ n.id = s.id => n.call.h = s.owner
               /\ n.call.kind = "unsub" => n.call.id # s.id
    <3>1. CASE n \in Among(inbox) /\ s \in server  BY <3>1 DEF SubInv, AnswersFit
    <3>2. CASE n \in Among(inbox) /\ s = new  BY <2>2, <2>6, <3>2
    <3>3. CASE n = m /\ s \in server  BY <1>1, <2>1, <2>4, <3>3
    <3>4. CASE n = m /\ s = new  BY <1>1, <2>1, <2>2, <3>4
    <3> QED BY <2>3, <2>5, <3>1, <3>2, <3>3, <3>4
  <2>8. AnswersFit'  BY <2>7 DEF AnswersFit
  <2>9. \A s \in server' : s.id \in 1..k /\ s.owner \in Handles
    BY <1>2, <1>4, <1>5, <2>2, <2>3
  <2>10. \A s \in server' : s \in server \/ (m.type = "subscribed" /\ m.id = s.id)
    BY <2>1, <2>2, <2>3
  <2>11. \A s \in server' : c.kind = "unsub" => c.id # s.id  BY <1>1
  <2> HIDE DEF k
  <2> QED BY <1>1, <1>5, <1>7, <2>1, <2>3, <2>8, <2>9, <2>10, <2>11, ServedKeeps
<1>9. CASE /\ inbox' = Append(inbox, Subscription!Message("refused", c, 0))
           /\ UNCHANGED << nextId, server >>
  <2> DEFINE type == "refused"
             m == Subscription!Message(type, c, 0)
  <2>1. type \in AllTypes /\ (type \in {"unsubscribed", "unknown"} <=> c.kind = "unsub")
        /\ 0 \in 0..nextId /\ type # "subscribed"
    BY <1>1, <1>2 DEF AllTypes
  <2>2. inbox' = Append(inbox, m)  BY <1>9
  <2> HIDE DEF type
  <2>3. m \in MessagesTo(nextId) /\ m.type = type /\ m.call = c
    BY <1>2, <1>3, <2>1, MessageIs
  <2> HIDE DEF m
  <2>4. Among(inbox') = Among(inbox) \cup {m}  BY <1>2, <2>2, <2>3, AmongAppend
  <2>5. AnswersFit'
    BY <1>1, <1>9, <2>1, <2>3, <2>4 DEF SubInv, AnswersFit
  <2>6. \A s \in server' : s.id \in 1..nextId /\ s.owner \in Handles /\ s \in server
    BY <1>2, <1>9
  <2>7. \A s \in server' : c.kind = "unsub" => c.id # s.id  BY <1>1
  <2>8. nextId <= nextId  BY <1>2
  <2> QED BY <1>1, <1>2, <1>7, <1>9, <2>2, <2>3, <2>5, <2>6, <2>7, <2>8, ServedKeeps
<1> QED BY <1>8, <1>9 DEF Subscription!ServeSub, c

LEMMA ServeUnsubKeeps ==
    ASSUME SubInv, Subscription!ServeUnsub
    PROVE  SubInv'
<1> DEFINE c == Head(requests)
           mine == {s \in server : s.id = c.id}
           type == IF mine = {} THEN "unknown" ELSE "unsubscribed"
           m == Subscription!Message(type, c, 0)
<1>1. /\ requests # << >> /\ c.kind = "unsub" /\ requests' = Tail(requests)
      /\ server' = server \ mine /\ inbox' = Append(inbox, m)
      /\ UNCHANGED << handle, calls, socket, nextId >>
  BY DEF Subscription!ServeUnsub
<1>2. /\ SubTypes /\ nextId \in Nat /\ requests \in Seq(CallsTo(nextId))
      /\ inbox \in Seq(MessagesTo(nextId))
      /\ \A s \in server : s.id \in 1..nextId /\ s.owner \in Handles
  BY DEF SubInv, SubTypes
<1>3. c \in CallsTo(nextId)  BY <1>1, <1>2, AmongTail
<1>4. \A s \in server' : s \in server /\ c.id # s.id  BY <1>1
<1>5. type \in AllTypes /\ (type \in {"unsubscribed", "unknown"} <=> c.kind = "unsub")
      /\ 0 \in 0..nextId /\ type # "subscribed"
  BY <1>1, <1>2 DEF AllTypes
<1>6. c = Head(requests)  OBVIOUS
<1> HIDE DEF c, mine, type
<1>7. m \in MessagesTo(nextId) /\ m.type = type /\ m.call = c
  BY <1>2, <1>3, <1>5, MessageIs
<1> HIDE DEF m
<1>8. Among(inbox') = Among(inbox) \cup {m}  BY <1>1, <1>2, <1>7, AmongAppend
<1>9. AnswersFit'
  BY <1>4, <1>5, <1>7, <1>8 DEF SubInv, AnswersFit
<1>10. \A s \in server' : s.id \in 1..nextId /\ s.owner \in Handles  BY <1>2, <1>4
<1>11. nextId <= nextId  BY <1>2
<1> QED BY <1>1, <1>2, <1>4, <1>6, <1>7, <1>9, <1>10, <1>11, ServedKeeps

\* A notification is no answer.
LEMMA NotifyKeeps ==
    ASSUME SubInv, Subscription!Notify
    PROVE  SubInv'
<1>1. PICK s \in server :
        inbox' = Append(inbox, Subscription!Message("note", Subscription!SubCall(s.owner), s.id))
  BY DEF Subscription!Notify
<1>2. UNCHANGED << handle, calls, socket, requests, server, nextId >>
  BY DEF Subscription!Notify
<1>3. /\ SubTypes /\ nextId \in Nat /\ inbox \in Seq(MessagesTo(nextId))
      /\ s.id \in 1..nextId /\ s.owner \in Handles
  BY DEF SubInv, SubTypes
<1> DEFINE type == "note"
           c == Subscription!SubCall(s.owner)
           m == Subscription!Message(type, c, s.id)
<1>4. c \in CallsTo(nextId) /\ c.kind = "sub"  BY <1>3, SubCallIs
<1>5. type \in AllTypes /\ type = "note" /\ s.id \in 0..nextId
      /\ (type \in {"unsubscribed", "unknown"} <=> c.kind = "unsub")
  BY <1>3, <1>4 DEF AllTypes
<1>6. inbox' = Append(inbox, m)  BY <1>1
<1> HIDE DEF type, c
<1>7. m \in MessagesTo(nextId) /\ m.type = type /\ m.call = c
  BY <1>3, <1>4, <1>5, MessageIs
<1> HIDE DEF m
<1>8. inbox' \in Seq(MessagesTo(nextId)) /\ Among(inbox') = Among(inbox) \cup {m}
  BY <1>3, <1>6, <1>7, AmongAppend
<1>9. SubTypes'  BY <1>2, <1>3, <1>8 DEF SubTypes
<1>10. ASSUME NEW h \in Handles PROVE Load(h)' <= 1
  <2> DEFINE a == Count(calls, Token(h))
             q == Count(requests, Token(h))
             i == Count(inbox, TokenAnswer(h))
             d == Is(handle[h].id # 0)
             f == Count(inbox', TokenAnswer(h))
  <2>1. /\ a \in 0..1 /\ q \in 0..1 /\ i \in 0..1 /\ d \in 0..1 /\ a + q + i + d <= 1
    <3>1. Load(h) <= 1  BY DEF SubInv
    <3> QED BY <3>1, LoadIs
  <2>2. f <= i + Is(m \in TokenAnswer(h))  BY <1>3, <1>6, <1>7, CountAppend
  <2>3. Is(m \in TokenAnswer(h)) = 0  BY <1>5, <1>7 DEF Is, TokenAnswer
  <2>4. f \in 0..2  BY CountType
  <2>5. Load(h)' = a + q + f + d  BY <1>2 DEF Load
  <2> HIDE DEF a, q, i, d, f
  <2> QED BY <2>1, <2>2, <2>3, <2>4, <2>5
<1>11. AnswersFit'
  BY <1>2, <1>4, <1>5, <1>7, <1>8 DEF SubInv, AnswersFit
<1>12. ASSUME NEW r \in server PROVE Wanted(r)'
  <2>1. Wanted(r)  BY DEF SubInv
  <2> QED BY <1>2, <1>8, <2>1 DEF Wanted
<1> QED BY <1>2, <1>9, <1>10, <1>11, <1>12 DEF SubInv

LEMMA SubInit ==
    ASSUME IsFiniteSet(Handles), Subscription!Init
    PROVE  SubInv
<1>1. /\ handle = [h \in Handles |-> [closed |-> FALSE, id |-> 0]]
      /\ calls = Subscription!Subscribing(Handles)
      /\ socket = "down" /\ requests = << >> /\ server = {} /\ inbox = << >> /\ nextId = 0
  BY DEF Subscription!Init
<1>2. nextId \in Nat /\ Handles \subseteq Handles  BY <1>1
<1>3. /\ calls \in Seq(CallsTo(nextId))
      /\ \A h \in Handles : Count(calls, Token(h)) <= Is(h \in Handles)
  BY <1>1, <1>2, SubscribingInTurn
<1>4. handle \in [Handles -> HandleStates] /\ \A h \in Handles : handle[h].id = 0
  <2> DEFINE st == [closed |-> FALSE, id |-> 0]
  <2>1. st \in HandleStates /\ st.id = 0  BY DEF HandleStates
  <2>2. handle = [h \in Handles |-> st]  BY <1>1
  <2> HIDE DEF st
  <2> QED BY <2>1, <2>2
<1>5. SubTypes  BY <1>1, <1>2, <1>3, <1>4 DEF SubTypes
<1>6. ASSUME NEW h \in Handles PROVE Load(h) <= 1
  <2> DEFINE a == Count(calls, Token(h))
             q == Count(requests, Token(h))
             i == Count(inbox, TokenAnswer(h))
             d == Is(handle[h].id # 0)
  <2>1. a <= 1 /\ a \in 0..2  BY <1>3, CountType DEF Is
  <2>2. q = 0 /\ i = 0  BY <1>1, CountEmpty
  <2>3. d = 0  BY <1>4 DEF Is
  <2>4. Load(h) = a + q + i + d  BY DEF Load
  <2> HIDE DEF a, q, i, d
  <2> QED BY <2>1, <2>2, <2>3, <2>4
<1> QED BY <1>1, <1>5, <1>6 DEF SubInv, AnswersFit

LEMMA SubStep ==
    ASSUME IsFiniteSet(Handles), SubInv, [Subscription!Next]_subscriptionVars
    PROVE  SubInv'
<1>1. CASE UNCHANGED subscriptionVars
  <2>1. UNCHANGED << handle, calls, socket, requests, server, inbox, nextId >>
    BY <1>1 DEF subscriptionVars
  <2>2. /\ handle' \in [Handles -> HandleStates] /\ socket' \in {"up", "down"}
        /\ \A h \in Handles : handle'[h].id = handle[h].id
    BY <2>1 DEF SubInv, SubTypes
  <2> QED BY <2>1, <2>2, FlagsKeep
<1>2. CASE \E h \in Handles : Subscription!Close(h) \/ Subscription!ResetHandle(h)
  BY <1>2, HandlesKeep
<1>3. CASE Subscription!ConnectionLost
  <2>1. Subscription!Lost /\ nextId' = nextId  BY <1>3 DEF Subscription!ConnectionLost
  <2> QED BY <2>1, LostKeeps
<1>4. CASE Subscription!ProtocolError  BY <1>4, ProtocolErrorKeeps
<1>5. CASE Subscription!Reconnect  BY <1>5, ReconnectKeeps
<1>6. CASE Subscription!SendCall  BY <1>6, SendCallKeeps
<1>7. CASE Subscription!Receive  BY <1>7, ReceiveKeeps
<1>8. CASE Subscription!ServeSub  BY <1>8, ServeSubKeeps
<1>9. CASE Subscription!ServeUnsub  BY <1>9, ServeUnsubKeeps
<1>10. CASE Subscription!Notify  BY <1>10, NotifyKeeps
<1> QED
  BY <1>1, <1>2, <1>3, <1>4, <1>5, <1>6, <1>7, <1>8, <1>9, <1>10 DEF Subscription!Next

LEMMA SubImplies ==
    ASSUME SubInv
    PROVE  SubscriptionsMatch
<1>1. /\ SubTypes /\ nextId \in Nat /\ calls \in Seq(CallsTo(nextId))
      /\ requests \in Seq(CallsTo(nextId)) /\ inbox \in Seq(MessagesTo(nextId))
      /\ handle \in [Handles -> HandleStates]
      /\ \A h \in Handles : handle[h].id <= nextId
      /\ socket \in {"up", "down"}
  BY DEF SubInv, SubTypes
<1>2. \A h \in Handles : handle[h].id \in 0..nextId
  <2>1. \A h \in Handles : handle[h].id \in Nat  BY <1>1 DEF HandleStates
  <2> QED BY <1>1, <2>1
<1> DEFINE all == calls \o requests
<1>3. all \in Seq(CallsTo(nextId)) /\ DOMAIN all = 1..Len(all)  BY <1>1
<1>4. \A h \in Handles : Count(all, Token(h)) <= Count(calls, Token(h)) + Count(requests, Token(h))
  BY <1>1, CountConcat
<1> HIDE DEF all
<1>5. ASSUME NEW i \in DOMAIN all, NEW j \in DOMAIN all, all[i].kind = "sub", all[i] = all[j]
      PROVE  i = j
  <2> DEFINE h == all[i].h
  <2>1. all[i] \in AllCalls  BY <1>3 DEF CallsTo
  <2>2. h \in Handles /\ all[i] \in Token(h) /\ all[j] \in Token(h)
    BY <1>5, <2>1 DEF Token, AllCalls
  <2> HIDE DEF h
  <2>3. Count(all, Token(h)) <= 1
    <3> DEFINE a == Count(calls, Token(h))
               q == Count(requests, Token(h))
               i0 == Count(inbox, TokenAnswer(h))
               d == Is(handle[h].id # 0)
               n == Count(all, Token(h))
    <3>1. Load(h) <= 1  BY <2>2 DEF SubInv
    <3>2. /\ a \in 0..1 /\ q \in 0..1 /\ i0 \in 0..1 /\ d \in 0..1 /\ a + q + i0 + d <= 1
      BY <3>1, LoadIs
    <3>3. n <= a + q /\ n \in 0..2  BY <1>4, <2>2, CountType
    <3>4. n <= 1
      <4> HIDE DEF a, q, i0, d, n
      <4> QED BY <3>2, <3>3
    <3> QED BY <3>4
  <2>4. One(all, Token(h))  BY <2>3 DEF Count, None, One
  <2> QED BY <1>3, <2>2, <2>4 DEF One
<1>6. ASSUME NEW s \in server
      PROVE  \/ handle[s.owner].id = s.id
             \/ \E i \in DOMAIN inbox : inbox[i].type = "subscribed" /\ inbox[i].id = s.id
             \/ \E c \in Subscription!Queued : c.kind = "unsub" /\ c.id = s.id
  <2>1. Wanted(s)  BY DEF SubInv
  <2>2. CASE \E m \in Among(inbox) : m.type = "subscribed" /\ m.id = s.id
    <3>1. DOMAIN inbox = 1..Len(inbox)  BY <1>1
    <3> QED BY <2>2, <3>1 DEF Among
  <2>3. CASE \E c \in Among(calls) \cup Among(requests) : c.kind = "unsub" /\ c.id = s.id
    <3>1. DOMAIN calls = 1..Len(calls) /\ DOMAIN requests = 1..Len(requests)  BY <1>1
    <3>2. Among(calls) \cup Among(requests) \subseteq Subscription!Queued
      BY <3>1 DEF Among, Subscription!Queued, Subscription!InFlight, Subscription!ToSet
    <3> QED BY <2>3, <3>2
  <2> QED BY <2>1, <2>2, <2>3 DEF Wanted
<1>7. Subscription!TypeOK  BY <1>1, <1>2, <1>5 DEF Subscription!TypeOK, all
<1>8. Subscription!NoOrphans  BY <1>6 DEF Subscription!NoOrphans
<1> QED BY <1>7, <1>8 DEF SubscriptionsMatch, Subscription!SubscriptionsMatch

\* Subscriptions: a handle never has two calls to subscribe under way, and the server keeps
\* no subscription that nobody wants, whatever order close(), reset(), answers and
\* connection losses come in: for any finite number of handles, losses and notifications.
THEOREM SubscriptionsMatchAlways == Spec => []SubscriptionsMatch
<1>1. IsFiniteSet(Handles)
  BY ConnectionAssumption
     DEF Subscription!SubscriptionsAssumption, Subscription!IsFiniteSet, IsFiniteSet
<1>2. Init => SubInv  BY <1>1, SubInit DEF Init
<1>3. SubInv /\ [Next]_vars => SubInv'  BY <1>1, SubStep, StepOfOne
<1>4. SubInv => SubscriptionsMatch  BY SubImplies
<1> QED BY <1>2, <1>3, <1>4, PTL DEF Spec

------------------------------------------------------------------------------
(***************************************************************************)
(* RateMeter: what the ring holds is what was sent in the slots it stands    *)
(* for.                                                                     *)
(***************************************************************************)
L == WindowSize + 1

RateInv ==
    /\ window \in [0..(L - 1) -> Nat]
    /\ time \in 0..MaxTime
    /\ now \in (L + 1)..MaxTime
    /\ counted \in [0..MaxTime -> Nat]
    /\ \A t \in 0..MaxTime : t > time => counted[t] = 0
    /\ \A s \in 0..time : s > time - L => window[s % L] = counted[s]
    /\ Meter!RateBounded

RateConstants ==
    /\ L \in Nat \ {0} /\ RateLimit \in Nat \ {0} /\ MaxBatch \in Nat \ {0}
    /\ MaxTime \in Nat /\ L < MaxTime /\ Meter!Length = L

LEMMA RateConstantsFit == RateConstants
BY ConnectionAssumption DEF Meter!RateAssumption, RateConstants, Meter!Length, L

LEMMA Multiples ==
    ASSUME NEW n \in Nat \ {0}, NEW q \in Int, NEW p \in Int, n * q - n * p > 0
    PROVE  n * q - n * p >= n
<1>1. n * q - n * p = n * (q - p)  OBVIOUS
<1>2. CASE q - p <= 0
  <2>1. n * (q - p) <= 0  BY <1>2
  <2> QED BY <1>1, <2>1
<1>3. CASE q - p >= 1
  <2>1. n * (q - p) >= n  BY <1>3
  <2> QED BY <1>1, <2>1
<1> QED BY <1>2, <1>3

\* Slots less than a round apart are at different places of the ring.
LEMMA PlacesDiffer ==
    ASSUME NEW n \in Nat \ {0}, NEW s \in Nat, NEW t \in Nat, s < t, t - s < n
    PROVE  s % n # t % n
<1> DEFINE a == n * (s \div n)
           b == n * (t \div n)
<1>1. s % n = s - a /\ t % n = t - b  OBVIOUS
<1>2. s \div n \in Int /\ t \div n \in Int  OBVIOUS
<1>3. a \in Int /\ b \in Int  BY <1>2
<1>4. b - a > 0 => b - a >= n  BY <1>2, Multiples
<1> HIDE DEF a, b
<1> QED BY <1>1, <1>3, <1>4

LEMMA PlaceIs == ASSUME NEW n \in Nat \ {0}, NEW s \in Nat PROVE s % n \in 0..(n - 1)
OBVIOUS

LEMMA SameCountingOfMeter == \A S : Meter!Cardinality(S) = Cardinality(S)
BY DEF Meter!Cardinality, Cardinality

\* The requests of a range of slots are finitely many.
LEMMA RequestsFinite ==
    ASSUME NEW a \in Int, NEW b \in Int, NEW f, \A s \in a..b : f[s] \in Nat
    PROVE  IsFiniteSet(Meter!Requests(f, a..b))
<1> DEFINE part(s) == {s} \X (1..f[s])
           Parts == {part(s) : s \in a..b}
           g == [s \in a..b |-> part(s)]
<1>1. ASSUME NEW s \in a..b PROVE IsFiniteSet(part(s))
  <2> DEFINE n == f[s]
  <2>1. 1 \in Int /\ n \in Int  OBVIOUS
  <2> HIDE DEF n
  <2>2. IsFiniteSet(1..n) /\ IsFiniteSet({s})  BY <2>1, FS_Interval, FS_Singleton
  <2>3. IsFiniteSet({s} \X (1..n))  BY <2>2, FS_Product
  <2> QED BY <2>3 DEF n
<1> HIDE DEF part
<1>2. g \in Surjection(a..b, Parts)  BY DEF Surjection
<1>3. IsFiniteSet(a..b)  BY FS_Interval
<1>4. \A T \in Parts : IsFiniteSet(T)  BY <1>1
<1> HIDE DEF g, Parts
<1>5. IsFiniteSet(Parts)  BY <1>2, <1>3, FS_Surjection
<1>6. IsFiniteSet(UNION Parts)  BY <1>4, <1>5, FS_UNION
<1> QED BY <1>6 DEF Meter!Requests, Parts, part

LEMMA InRequests ==
    ASSUME NEW f, NEW S, NEW x
    PROVE  x \in Meter!Requests(f, S) <=> \E s \in S : \E k \in 1..f[s] : x = << s, k >>
BY DEF Meter!Requests

\* getRate() sees what was sent in the slots of its window.
LEMMA MeterIs ==
    ASSUME RateConstants, RateInv, NEW at, at = Meter!Later(now)
    PROVE  /\ at \in (L + 1)..MaxTime /\ at >= time
           /\ Meter!GetRate(now) = Cardinality(Meter!Requests(counted, (at - L + 1)..at))
<1>1. /\ L \in Nat \ {0} /\ MaxTime \in Nat /\ Meter!Length = L
      /\ time \in 0..MaxTime /\ now \in (L + 1)..MaxTime
  BY DEF RateConstants, RateInv
<1>2. at = IF now > time THEN now ELSE time  BY DEF Meter!Later
<1> DEFINE l == L
<1>3. l \in Nat \ {0} /\ now \in (l + 1)..MaxTime  BY <1>1
<1> HIDE DEF l
<1>4. at \in (l + 1)..MaxTime /\ at >= time /\ at \in Nat /\ at - l + 1 >= 2
  BY <1>1, <1>2, <1>3
<1> DEFINE whole == (at - l + 1)..at
           slots == (at - l + 1)..time
           ring == [s \in slots |-> window[s % l]]
           A == Meter!Requests(ring, slots)
           B == Meter!Requests(counted, whole)
<1>5. Meter!GetRate(now) = Cardinality(A)
  BY <1>1, SameCountingOfMeter DEF Meter!GetRate, l
<1>6. ASSUME NEW s \in slots PROVE ring[s] = counted[s] /\ s \in whole
  <2>1. s \in 0..time /\ s > time - l /\ s \in (at - l + 1)..at  BY <1>1, <1>3, <1>4
  <2>2. window[s % l] = counted[s]  BY <2>1 DEF RateInv, l
  <2> QED BY <2>1, <2>2
<1>7. ASSUME NEW s \in whole, NEW k \in 1..counted[s] PROVE s \in slots
  <2>1. s \in 0..MaxTime  BY <1>1, <1>3, <1>4
  <2>2. counted[s] # 0
    <3>1. counted[s] \in Nat  BY <2>1 DEF RateInv
    <3> QED BY <3>1
  <2>3. ~ s > time  BY <2>1, <2>2 DEF RateInv
  <2> QED BY <1>1, <1>3, <1>4, <2>1, <2>3
<1> HIDE DEF slots, ring, whole
<1>8. A \subseteq B
  <2>1. ASSUME NEW x \in A PROVE x \in B
    <3>1. PICK s \in slots : \E k \in 1..ring[s] : x = << s, k >>  BY InRequests
    <3> QED BY <1>6, <3>1, InRequests
  <2> QED BY <2>1
<1>9. B \subseteq A
  <2>1. ASSUME NEW x \in B PROVE x \in A
    <3>1. PICK s \in whole : \E k \in 1..counted[s] : x = << s, k >>
      BY InRequests
    <3>2. s \in slots /\ ring[s] = counted[s]  BY <1>6, <1>7, <3>1
    <3> QED BY <3>1, <3>2, InRequests
  <2> QED BY <2>1
<1>10. A = B  BY <1>8, <1>9
<1> QED BY <1>4, <1>5, <1>10 DEF l, whole

LEMMA RateInit ==
    ASSUME RateConstants, Meter!Init
    PROVE  RateInv
<1>1. /\ L \in Nat \ {0} /\ MaxTime \in Nat /\ L < MaxTime /\ Meter!Length = L
      /\ RateLimit \in Nat \ {0} /\ MaxBatch \in Nat \ {0}
  BY DEF RateConstants
<1>2. /\ window = [i \in 0..(L - 1) |-> 0] /\ time = 0 /\ now = L + 1
      /\ counted = [t \in 0..MaxTime |-> 0]
  BY <1>1 DEF Meter!Init
<1> DEFINE l == L
<1>3. \A s \in 0..time : window[s % l] = 0
  <2>1. l \in Nat \ {0}  BY <1>1
  <2>2. window = [i \in 0..(l - 1) |-> 0]  BY <1>2
  <2> HIDE DEF l
  <2>3. ASSUME NEW s \in 0..time PROVE window[s % l] = 0
    <3>1. s \in Nat  BY <1>2
    <3>2. s % l \in 0..(l - 1)  BY <2>1, <3>1, PlaceIs
    <3> QED BY <2>2, <3>2
  <2> QED BY <2>3
<1>4. ASSUME NEW t \in L..MaxTime
      PROVE  Meter!SentIn((t - L + 1)..t) = 0
  <2>1. \A s \in (t - L + 1)..t : s \in 0..MaxTime  BY <1>1
  <2>2. Meter!Requests(counted, (t - L + 1)..t) = {}
    BY <1>2, <2>1 DEF Meter!Requests
  <2> QED BY <2>2, FS_EmptySet, SameCountingOfMeter DEF Meter!SentIn
<1>5. Meter!RateBounded
  BY <1>1, <1>4 DEF Meter!RateBounded
<1>6. /\ window \in [0..(L - 1) -> Nat] /\ time \in 0..MaxTime
      /\ now \in (L + 1)..MaxTime /\ counted \in [0..MaxTime -> Nat]
  BY <1>1, <1>2
<1>7. \A s \in 0..time : s > time - L => window[s % L] = counted[s]
  BY <1>1, <1>2, <1>3
<1> QED BY <1>2, <1>5, <1>6, <1>7 DEF RateInv

\* inc()
LEMMA IncKeeps ==
    ASSUME RateConstants, RateInv, NEW size \in Nat, NEW at, at = Meter!Later(now),
           Meter!Inc(size, now), counted' = [counted EXCEPT ![at] = @ + size]
    PROVE  /\ window' \in [0..(L - 1) -> Nat] /\ time' = at
           /\ counted' \in [0..MaxTime -> Nat]
           /\ \A t \in 0..MaxTime : t > time' => counted'[t] = 0
           /\ \A s \in 0..time' : s > time' - L => window'[s % L] = counted'[s]
<1> DEFINE l == L
           stale == IF time > at - l THEN {s % l : s \in (time + 1)..at} ELSE 0..(l - 1)
<1>1. /\ l \in Nat \ {0} /\ Meter!Length = l /\ MaxTime \in Nat
      /\ window \in [0..(l - 1) -> Nat] /\ time \in 0..MaxTime
      /\ counted \in [0..MaxTime -> Nat]
      /\ \A t \in 0..MaxTime : t > time => counted[t] = 0
      /\ \A s \in 0..time : s > time - l => window[s % l] = counted[s]
  BY DEF RateConstants, RateInv
<1>2. at \in (l + 1)..MaxTime /\ at >= time  BY MeterIs
<1>3. /\ window' = [i \in 0..(l - 1) |->
                        (IF i \in stale THEN 0 ELSE window[i])
                            + (IF i = at % l THEN size ELSE 0)]
      /\ time' = at
  BY <1>1 DEF Meter!Inc
<1> HIDE DEF l, stale
<1>4. window' \in [0..(l - 1) -> Nat]
  <2>1. ASSUME NEW i \in 0..(l - 1)
        PROVE  (IF i \in stale THEN 0 ELSE window[i]) + (IF i = at % l THEN size ELSE 0) \in Nat
    BY <1>1
  <2> QED BY <1>3, <2>1
<1>5. at \in 0..MaxTime /\ at \in Nat  BY <1>1, <1>2
<1>6. /\ counted' \in [0..MaxTime -> Nat] /\ counted'[at] = counted[at] + size
      /\ \A t \in 0..MaxTime : t # at => counted'[t] = counted[t]
  BY <1>1, <1>5
<1>7. ASSUME NEW t \in 0..MaxTime, t > at PROVE counted'[t] = 0
  <2>1. t # at /\ t > time  BY <1>1, <1>2, <1>7
  <2> QED BY <1>1, <1>6, <2>1
<1>8. ASSUME NEW s \in 0..at, s > at - l PROVE window'[s % l] = counted'[s]
  <2>1. s \in Nat /\ s \in 0..MaxTime /\ s % l \in 0..(l - 1)
    BY <1>1, <1>5, <1>8, PlaceIs
  <2>2. s % l = at % l <=> s = at
    <3>1. s # at => s < at /\ at - s < l  BY <1>1, <1>5, <1>8
    <3> QED BY <1>1, <1>5, <2>1, <3>1, PlacesDiffer
  <2> DEFINE old == IF s % l \in stale THEN 0 ELSE window[s % l]
  <2>3. window'[s % l] = old + (IF s = at THEN size ELSE 0)
    BY <1>3, <2>1, <2>2
  <2>4. old = counted[s]
    <3>1. CASE s > time
      <4>1. counted[s] = 0  BY <1>1, <2>1, <3>1
      <4>2. s \in (time + 1)..at  BY <1>1, <1>5, <1>8, <2>1, <3>1
      <4>3. s % l \in stale  BY <2>1, <4>2 DEF stale
      <4> QED BY <4>1, <4>3
    <3>2. CASE ~ s > time
      <4>1. s \in 0..time /\ s > time - l /\ time > at - l
        <5>1. l \in Nat /\ time \in Nat /\ at >= time  BY <1>1, <1>2
        <5> QED BY <1>5, <1>8, <2>1, <3>2, <5>1
      <4>2. s % l \notin stale
        <5>1. ASSUME NEW r \in (time + 1)..at, r % l = s % l PROVE FALSE
          <6>1. r \in Nat /\ s < r /\ r - s < l  BY <1>1, <1>5, <1>8, <2>1, <3>2
          <6> QED BY <1>1, <2>1, <5>1, <6>1, PlacesDiffer
        <5> QED BY <4>1, <5>1 DEF stale
      <4> QED BY <1>1, <4>1, <4>2
    <3> QED BY <3>1, <3>2
  <2>5. counted[s] \in Nat  BY <1>1, <2>1
  <2> HIDE DEF old
  <2>6. CASE s = at  BY <1>6, <2>3, <2>4, <2>6
  <2>7. CASE s # at
    <3>1. counted'[s] = counted[s]  BY <1>6, <2>1, <2>7
    <3> QED BY <2>3, <2>4, <2>5, <2>7, <3>1
  <2> QED BY <2>6, <2>7
<1> QED BY <1>3, <1>4, <1>6, <1>7, <1>8 DEF l

\* The slots a round around the current one.
LEMMA SlotsAround ==
    ASSUME NEW l \in Nat \ {0}, NEW max \in Nat, NEW at \in (l + 1)..max, NEW t \in l..max,
           at \in (t - l + 1)..t
    PROVE  /\ \A s \in (t - l + 1)..t : s \in 0..max /\ (s > at \/ s \in (at - l + 1)..at)
           /\ \A s \in (at - l + 1)..at : s \in 0..max
           /\ at \in (at - l + 1)..at /\ at \in 0..max /\ at - l + 1 \in Int
OBVIOUS

\* A range of slots that holds the current one holds at most what the meter counted, and
\* what is sent now.
LEMMA SentBounded ==
    ASSUME RateConstants, RateInv, NEW size \in 1..MaxBatch, NEW at, at = Meter!Later(now),
           counted' = [counted EXCEPT ![at] = @ + size],
           Meter!GetRate(now) < RateLimit,
           NEW t \in L..MaxTime, at \in (t - L + 1)..t
    PROVE  Meter!SentIn((t - L + 1)..t)' <= RateLimit + MaxBatch - 1
<1>1. /\ L \in Nat \ {0} /\ MaxTime \in Nat /\ RateLimit \in Nat /\ MaxBatch \in Nat
      /\ time \in 0..MaxTime /\ counted \in [0..MaxTime -> Nat]
      /\ \A s \in 0..MaxTime : s > time => counted[s] = 0
  BY DEF RateConstants, RateInv
<1>2. /\ at \in (L + 1)..MaxTime /\ at >= time
      /\ Meter!GetRate(now) = Cardinality(Meter!Requests(counted, (at - L + 1)..at))
  BY MeterIs
<1> DEFINE past == (at - L + 1)..at
           slots == (t - L + 1)..t
           c == counted[at]
           old == Meter!Requests(counted, past)
           new == {at} \X ((c + 1)..(c + size))
           all == Meter!Requests(counted', slots)
<1>3. /\ \A s \in slots : s \in 0..MaxTime /\ (s > at \/ s \in past)
      /\ \A s \in past : s \in 0..MaxTime
      /\ at \in past /\ at \in 0..MaxTime /\ at - L + 1 \in Int
  <2>1. L \in Nat \ {0} /\ MaxTime \in Nat /\ at \in (L + 1)..MaxTime  BY <1>1, <1>2
  <2> HIDE DEF past, slots
  <2>2. /\ \A s \in (t - L + 1)..t : s \in 0..MaxTime /\ (s > at \/ s \in (at - L + 1)..at)
        /\ \A s \in (at - L + 1)..at : s \in 0..MaxTime
        /\ at \in (at - L + 1)..at /\ at \in 0..MaxTime /\ at - L + 1 \in Int
    BY <2>1, SlotsAround, Zenon
  <2> QED BY <2>2 DEF past, slots
<1>4. at \in Int /\ c \in Nat /\ size \in Nat \ {0} /\ size <= MaxBatch  BY <1>1, <1>2, <1>3
<1>5. /\ counted'[at] = c + size
      /\ \A s \in 0..MaxTime : s # at => counted'[s] = counted[s]
      /\ \A s \in 0..MaxTime : s > at => counted[s] = 0
  <2>1. /\ counted'[at] = c + size
        /\ \A s \in 0..MaxTime : s # at => counted'[s] = counted[s]
    BY <1>1, <1>3
  <2>2. \A s \in 0..MaxTime : s > at => s > time  BY <1>1, <1>2, <1>4
  <2> QED BY <1>1, <2>1, <2>2
<1>6. IsFiniteSet(old)
  <2> DEFINE a == at - L + 1
  <2>1. a \in Int /\ past = a..at /\ \A s \in past : counted[s] \in Nat  BY <1>1, <1>3
  <2> HIDE DEF a, past
  <2> QED BY <1>4, <2>1, RequestsFinite
<1> HIDE DEF past, slots, c
<1>7. IsFiniteSet(new) /\ Cardinality(new) = size
  <2> DEFINE a == c + 1
             b == c + size
             S == a..b
  <2>1. a \in Int /\ b \in Int /\ b - a + 1 = size /\ ~ a > b  BY <1>4
  <2> HIDE DEF a, b
  <2>2. IsFiniteSet(S) /\ Cardinality(S) = size  BY <2>1, FS_Interval
  <2> HIDE DEF S
  <2>3. IsFiniteSet({at}) /\ Cardinality({at}) = 1  BY FS_Singleton
  <2>4. IsFiniteSet({at} \X S) /\ Cardinality({at} \X S) = 1 * size
    BY <2>2, <2>3, FS_Product
  <2>5. 1 * size = size  BY <1>4
  <2> QED BY <2>4, <2>5 DEF S, a, b
<1>8. all \subseteq old \cup new
  <2>1. ASSUME NEW x \in all PROVE x \in old \cup new
    <3>1. PICK s \in slots : \E k \in 1..counted'[s] : x = << s, k >>
      <4> DEFINE f == counted'
      <4>1. x \in Meter!Requests(f, slots)  BY <2>1
      <4> HIDE DEF f
      <4>2. \E s \in slots : \E k \in 1..f[s] : x = << s, k >>  BY <4>1, InRequests
      <4> QED BY <4>2 DEF f
    <3>2. PICK k \in 1..counted'[s] : x = << s, k >>  BY <3>1
    <3>3. CASE s = at
      <4>1. k \in 1..(c + size)  BY <1>5, <3>2, <3>3
      <4>2. k \in 1..c \/ k \in (c + 1)..(c + size)  BY <1>4, <4>1
      <4>3. CASE k \in 1..c
        <5>1. k \in 1..counted[at]  BY <4>3 DEF c
        <5> QED BY <1>3, <3>2, <3>3, <5>1, InRequests
      <4>4. CASE k \in (c + 1)..(c + size)  BY <3>2, <3>3, <4>4
      <4> QED BY <4>2, <4>3, <4>4
    <3>4. CASE s # at
      <4>1. counted'[s] = counted[s]  BY <1>3, <1>5, <3>4
      <4>2. CASE s > at
        <5>1. counted'[s] = 0  BY <1>3, <1>5, <4>1, <4>2
        <5>2. k \in 1..0  BY <3>2, <5>1
        <5> QED BY <5>2
      <4>3. CASE s \in past
        <5>1. k \in 1..counted[s]  BY <3>2, <4>1
        <5> QED BY <3>2, <4>3, <5>1, InRequests
      <4> QED BY <1>3, <4>2, <4>3
    <3> QED BY <3>3, <3>4
  <2> QED BY <2>1
<1>9. Cardinality(all) <= Cardinality(old) + size /\ Cardinality(all) \in Nat
  <2> HIDE DEF all, old, new
  <2>1. IsFiniteSet(old \cup new)
        /\ Cardinality(old \cup new) = Cardinality(old) + Cardinality(new)
                                         - Cardinality(old \cap new)
    BY <1>6, <1>7, FS_Union
  <2>2. all \in SUBSET (old \cup new)  BY <1>8
  <2>3. IsFiniteSet(all) /\ Cardinality(all) <= Cardinality(old \cup new)
    BY <2>1, <2>2, FS_Subset
  <2>4. old \cap new \in SUBSET old  OBVIOUS
  <2>5. IsFiniteSet(old \cap new)  BY <1>6, <2>4, FS_Subset
  <2>6. /\ Cardinality(old) \in Nat /\ Cardinality(old \cap new) \in Nat
        /\ Cardinality(all) \in Nat /\ Cardinality(old \cup new) \in Nat
    BY <1>6, <2>1, <2>3, <2>5, FS_CardinalityType
  <2> QED BY <1>7, <2>1, <2>3, <2>6
<1>10. Cardinality(old) < RateLimit /\ Cardinality(old) \in Nat
  <2>1. Cardinality(old) < RateLimit  BY <1>2 DEF past
  <2> QED BY <1>6, <2>1, FS_CardinalityType
<1>11. Meter!SentIn((t - L + 1)..t)' = Cardinality(all)
  BY SameCountingOfMeter DEF Meter!SentIn, slots
<1> HIDE DEF all, old
<1> QED BY <1>1, <1>4, <1>9, <1>10, <1>11

LEMMA SendKeepsRate ==
    ASSUME RateConstants, RateInv, NEW size \in 1..MaxBatch, Meter!Send(size)
    PROVE  RateInv'
<1> DEFINE at == Meter!Later(now)
<1>1. /\ RateLimit - Meter!GetRate(now) > 0
      /\ Meter!Inc(size, now)
      /\ counted' = [counted EXCEPT ![at] = @ + size]
      /\ now' = now
  BY DEF Meter!Send
<1>2. /\ L \in Nat \ {0} /\ MaxTime \in Nat /\ RateLimit \in Nat /\ MaxBatch \in Nat
      /\ now \in (L + 1)..MaxTime /\ counted \in [0..MaxTime -> Nat] /\ Meter!RateBounded
      /\ Meter!Length = L
  BY DEF RateConstants, RateInv
<1>3. at = Meter!Later(now) /\ size \in Nat  BY <1>2
<1> HIDE DEF at
<1>4. /\ window' \in [0..(L - 1) -> Nat] /\ time' = at
      /\ counted' \in [0..MaxTime -> Nat]
      /\ \A t \in 0..MaxTime : t > time' => counted'[t] = 0
      /\ \A s \in 0..time' : s > time' - L => window'[s % L] = counted'[s]
  BY <1>1, <1>3, IncKeeps
<1>5. at \in (L + 1)..MaxTime /\ Meter!GetRate(now) < RateLimit
  <2> DEFINE past == (at - L + 1)..at
             a == at - L + 1
  <2>1. /\ at \in (L + 1)..MaxTime
        /\ Meter!GetRate(now) = Cardinality(Meter!Requests(counted, past))
    BY <1>3, MeterIs
  <2>2. a \in Int /\ at \in Int /\ past = a..at /\ \A s \in a..at : counted[s] \in Nat
    BY <1>2, <2>1
  <2> HIDE DEF past, a
  <2>3. IsFiniteSet(Meter!Requests(counted, past))  BY <2>2, RequestsFinite
  <2>4. Meter!GetRate(now) \in Nat  BY <2>1, <2>3, FS_CardinalityType
  <2> QED BY <1>1, <1>2, <2>1, <2>4
<1>6. ASSUME NEW t \in L..MaxTime
      PROVE  Meter!SentIn((t - L + 1)..t)' <= RateLimit + MaxBatch - 1
  <2>1. CASE at \in (t - L + 1)..t  BY <1>1, <1>3, <1>5, <2>1, SentBounded
  <2>2. CASE at \notin (t - L + 1)..t
    <3> DEFINE slots == (t - L + 1)..t
    <3>1. \A s \in slots : s \in 0..MaxTime /\ s # at  BY <1>2, <2>2
    <3>2. \A s \in slots : counted'[s] = counted[s]  BY <1>1, <1>2, <3>1
    <3>3. Meter!Requests(counted', slots) = Meter!Requests(counted, slots)
      <4> HIDE DEF slots
      <4> QED BY <3>2 DEF Meter!Requests
    <3>4. Meter!SentIn(slots)' = Meter!SentIn(slots)  BY <3>3 DEF Meter!SentIn
    <3>5. Meter!SentIn(slots) <= RateLimit + MaxBatch - 1
      BY <1>2 DEF Meter!RateBounded
    <3> QED BY <3>4, <3>5
  <2> QED BY <2>1, <2>2
<1>7. Meter!RateBounded'  BY <1>2, <1>6 DEF Meter!RateBounded
<1>8. time' \in 0..MaxTime /\ now' \in (L + 1)..MaxTime  BY <1>1, <1>2, <1>4, <1>5
<1> QED BY <1>4, <1>7, <1>8 DEF RateInv

LEMMA RateStep ==
    ASSUME RateConstants, RateInv, [Meter!Next]_meterVars
    PROVE  RateInv'
<1>1. CASE UNCHANGED << window, time, counted >> /\ now' \in (L + 1)..MaxTime
  BY <1>1 DEF RateInv, Meter!RateBounded, Meter!SentIn, Meter!Requests, Meter!Length
<1>2. CASE UNCHANGED meterVars
  BY <1>1, <1>2 DEF meterVars, RateInv
<1>3. CASE Meter!Tick
  BY <1>1, <1>3 DEF Meter!Tick, RateConstants
<1>4. CASE \E size \in 1..MaxBatch : Meter!Send(size)  BY <1>4, SendKeepsRate
<1> QED BY <1>2, <1>3, <1>4 DEF Meter!Next

LEMMA RateImplies ==
    ASSUME RateConstants, RateInv
    PROVE  RateIsKept
<1>1. Meter!TypeOK  BY DEF RateConstants, RateInv, Meter!TypeOK
<1>2. Meter!MeterExact
  BY MeterIs, SameCountingOfMeter DEF Meter!MeterExact, Meter!SentIn, RateConstants
<1>3. Meter!RateBounded  BY DEF RateInv
<1> QED BY <1>1, <1>2, <1>3 DEF RateIsKept, Meter!RateIsKept

\* RateMeter: the meter reports exactly what was sent in the slots of its window, over
\* slots that were skipped and clocks that were set back, and in no window are more
\* requests sent than the limit and one batch: for every length of the window, limit and
\* size of batches.
THEOREM RateIsKeptAlways == Spec => []RateIsKept
<1>1. Init => RateInv  BY RateConstantsFit, RateInit DEF Init
<1>2. RateInv /\ [Next]_vars => RateInv'  BY RateConstantsFit, RateStep, StepOfOne
<1>3. RateInv => RateIsKept  BY RateConstantsFit, RateImplies
<1> QED BY <1>1, <1>2, <1>3, PTL DEF Spec
=============================================================================
