-------------------------- MODULE LoneProcessorProofs --------------------------
(***************************************************************************)
(* Proofs about a single process on its tables: what it remembers is what    *)
(* they hold, it stops by itself for one reason only, and it cuts a fork at  *)
(* the highest common block.                                                 *)
(***************************************************************************)
EXTENDS BatchProcessorProofs

\* Nobody else works on the tables.
Lone == \A p, q \in Processor : p = q

------------------------------------------------------------------------------
(***************************************************************************)
(* The memory of a process next to the tables.                              *)
(***************************************************************************)

\* Every block mapped above the finalized one has a hot row of its own.
LEMMA MappedIsBase ==
    ASSUME NEW d, Sound(d), NEW i \in 1..Len(d.applied),
           Height(d.applied[i]) > Height(d.status)
    PROVE  /\ i - Settled(d) \in Positions(d)
           /\ i - Settled(d) # 0
           /\ RefAt(d, i - Settled(d)) = d.applied[i]
<1> DEFINE m == Settled(d)
           j == i - m
<1>1. /\ m \in 0..Len(d.applied) /\ Len(d.applied) = m + Len(d.hot)
      /\ Len(d.hot) \in Nat /\ Len(d.applied) \in Nat
      /\ d.status \in Ref /\ d.applied[i] \in Ref
  BY SoundType
<1>2. ~(i <= m)
  <2>1. Height(d.applied[i]) \in Int /\ Height(d.status) \in Int
    BY <1>1, HeightType
  <2>2. i <= m <=> Height(d.applied[i]) <= Height(d.status)
    BY DEF Sound, SplitAtFinal
  <2> QED BY <2>1, <2>2
<1> HIDE DEF m
<1>3. j \in 1..Len(d.hot) /\ m + j = i
  BY <1>1, <1>2
<1>4. d.hot[j].ref = d.applied[i]
  BY <1>3 DEF Sound, RowsAreTail, m
<1> QED BY <1>1, <1>3, <1>4 DEF Positions, RefAt, m

\* A process whose memory is what the tables hold builds on a row of theirs.
LEMMA MemoryIsBase ==
    ASSUME NEW d, Sound(d), NEW s \in ProcessorState, NEW n, s.phase # "down",
           MemoryIsChain(s, n), MemoryOf(s, d)
    PROVE  IsBase(d, StateHead(s))
<1>1. s.final = d.status /\ s.heads \in Seq(Block) /\ d.status \in Ref
  BY SoundType DEF MemoryOf, ProcessorState
<1>2. 0 \in Positions(d) /\ RefAt(d, 0) = d.status
  BY SoundType DEF Positions, RefAt
<1>3. CASE StateHead(s) = s.final
  BY <1>1, <1>2, <1>3 DEF IsBase
<1>4. CASE StateHead(s) # s.final
  <2>1. s.heads # << >> /\ StateHead(s) = s.heads[Len(s.heads)]
    BY <1>4 DEF StateHead, LastOf
  <2> DEFINE j == Len(s.heads)
             h == s.heads[j]
  <2>2. j \in 1..Len(s.heads) /\ h \in Ref
    BY <1>1, <2>1 DEF Ref
  <2>3. On(d.status, h) /\ d.status # h
    BY <1>1, <1>4, <2>1 DEF MemoryIsChain
  <2>4. Height(h) > Height(d.status)
    <3>1. Height(d.status) <= Height(h) /\ Height(d.status) \in Int /\ Height(h) \in Int
      BY <1>1, <2>2, <2>3, AncestorHeight, HeightType
    <3>2. Height(d.status) # Height(h)
      BY <1>1, <2>2, <2>3, AncestorReflexive, AncestorUnique
    <3> QED BY <3>1, <3>2
  <2>5. PICK k \in 1..Len(d.applied) : d.applied[k] = h
    BY <2>2, <2>4 DEF MemoryOf
  <2> HIDE DEF h
  <2>6. k - Settled(d) \in Positions(d) /\ RefAt(d, k - Settled(d)) = h
    BY <2>4, <2>5, MappedIsBase
  <2> QED BY <2>1, <2>6 DEF IsBase, h
<1> QED BY <1>3, <1>4

\* The memory of t is part of that of s.
Remembers(t, s) ==
    t.phase # "down" =>
        /\ s.phase # "down"
        /\ t.final = s.final
        /\ \A i \in 1..Len(t.heads) : \E k \in 1..Len(s.heads) : t.heads[i] = s.heads[k]

\* Who remembers no more than another is as true to the tables.
LEMMA RememberedFits ==
    ASSUME NEW t, NEW s, NEW d, Remembers(t, s), MemoryOf(s, d)
    PROVE  MemoryOf(t, d)
<1> SUFFICES ASSUME t.phase # "down"
             PROVE  /\ t.final = d.status
                    /\ \A i \in 1..Len(t.heads) :
                           Height(t.heads[i]) > Height(d.status)
                               => \E k \in 1..Len(d.applied) : d.applied[k] = t.heads[i]
  BY DEF MemoryOf
<1>1. /\ s.phase # "down" /\ t.final = s.final
      /\ \A i \in 1..Len(t.heads) : \E k \in 1..Len(s.heads) : t.heads[i] = s.heads[k]
  BY DEF Remembers
<1>2. /\ s.final = d.status
      /\ \A i \in 1..Len(s.heads) :
             Height(s.heads[i]) > Height(d.status)
                 => \E k \in 1..Len(d.applied) : d.applied[k] = s.heads[i]
  BY <1>1 DEF MemoryOf
<1> QED BY <1>1, <1>2

------------------------------------------------------------------------------
(***************************************************************************)
(* Steps that leave the tables alone.                                       *)
(***************************************************************************)

\* A process that attempts a transaction remembers what it has remembered.
LEMMA AttemptRemembers ==
    ASSUME NEW s \in ProcessorState, s.phase # "down", NEW tx \in TxState, db.nonce \in Nat
    PROVE  Remembers(Attempt(s, tx), s)
<1> DEFINE t == Attempt(s, tx)
<1> SUFFICES Remembers(t, s)
  OBVIOUS
<1> HIDE DEF t
<1>1. CASE \E fault \in {"race", "assert"} : t = Down(fault, s.hot)
  <2>1. t.phase = "down"
    BY <1>1 DEF Down
  <2> QED BY <2>1 DEF Remembers
<1>2. CASE \E next \in TxState : Attempted(s, tx, t, next)
  <2>1. t.final = s.final /\ t.heads = s.heads
    BY <1>2 DEF Attempted
  <2> QED BY <2>1 DEF Remembers
<1> QED BY <1>1, <1>2, AttemptWorks DEF t

\* Only a connect and a commit change what a process remembers, other than by
\* forgetting some of it.
LEMMA LocalStepsRemember ==
    ASSUME ProcessorInv, NEW p \in Processor,
           \/ \E r \in Reportable : ReceiveHeader(p, r)
           \/ \E r \in Reportable : ReceiveBlocks(p, r)
           \/ \E r \in Reportable : ReceiveNoData(p, r)
           \/ ReceiveFork(p)
           \/ Reconfigure(p)
           \/ TakeBatch(p)
           \/ \E n \in Nat : Abort(p, n)
           \/ HandleFork(p)
           \/ Crash(p)
    PROVE  /\ db' = db
           /\ Remembers(proc'[p], proc[p])
<1> USE InvFacts
<1> DEFINE s == proc[p]
<1>0. s \in ProcessorState /\ s.heads \in Seq(Block) /\ s.stream \in StreamState
  BY DEF ProcessorState
<1>1. ASSUME NEW stream, proc' = [proc EXCEPT ![p].stream = stream]
      PROVE  Remembers(proc'[p], s)
  <2>1. proc'[p] = [s EXCEPT !.stream = stream]
    BY <1>1
  <2>2. /\ proc'[p].phase = s.phase /\ proc'[p].final = s.final
        /\ proc'[p].heads = s.heads
    <3> HIDE DEF s
    <3> QED BY <1>0, <2>1 DEF ProcessorState
  <2> QED BY <2>2 DEF Remembers
<1>2. ASSUME NEW fault, NEW hot, proc' = [proc EXCEPT ![p] = Down(fault, hot)]
      PROVE  Remembers(proc'[p], s)
  <2>1. proc'[p].phase = "down"
    BY <1>2 DEF Down
  <2> QED BY <2>1 DEF Remembers
<1>3. CASE \E r \in Reportable : ReceiveBlocks(p, r)
  <2> DEFINE old == s.stream
  <2>1. PICK r \in Reportable, x \in Segment :
            /\ db' = db
            /\ proc' = [proc EXCEPT ![p].stream =
                   [old EXCEPT !.pos = Tip(x), !.blocks = @ \o x.blocks,
                               !.final = MaxRef(r, @), !.updated = TRUE]]
    BY <1>3 DEF ReceiveBlocks
  <2> QED BY <1>1, <2>1
<1>4. CASE \E r \in Reportable : ReceiveHeader(p, r) \/ ReceiveNoData(p, r)
  <2> DEFINE old == s.stream
  <2>1. PICK r \in Reportable :
            /\ db' = db
            /\ proc' = [proc EXCEPT ![p].stream =
                   [old EXCEPT !.final = MaxRef(r, @), !.updated = TRUE]]
    BY <1>4 DEF ReceiveHeader, ReceiveNoData
  <2> QED BY <1>1, <2>1
<1>5. CASE ReceiveFork(p)
  <2> DEFINE fork == PreviousBlocks(Top(p), Height(s.stream.pos))
             stream == [s.stream EXCEPT !.fork = fork]
  <2>1. db' = db /\ proc' = [proc EXCEPT ![p].stream.fork = fork]
    BY <1>5 DEF ReceiveFork
  <2>2. proc' = [proc EXCEPT ![p].stream = stream]
    BY <2>1
  <2> QED BY <1>1, <2>1, <2>2
<1>6. CASE Reconfigure(p)
  BY <1>2, <1>6 DEF Reconfigure
<1>7. CASE Crash(p)
  BY <1>2, <1>7 DEF Crash
<1>8. CASE TakeBatch(p)
  <2> DEFINE blocks == s.stream.blocks
             none == << >>
             stream == [s.stream EXCEPT !.blocks = none, !.updated = FALSE]
             rest   == [s EXCEPT !.stream.blocks = << >>, !.stream.updated = FALSE]
             tx     == [base |-> StateHead(s), final |-> SubmittedFinalized(s),
                        blocks |-> blocks, nonce |-> 0, retries |-> MaxRetries,
                        slices |-> << >>]
  <2>1. /\ s.phase = "run" /\ db' = db
        /\ \/ proc' = [proc EXCEPT ![p] = rest]
           \/ proc' = [proc EXCEPT ![p] = Down("assert", s.hot)]
           \/ proc' = [proc EXCEPT ![p] = Attempt(rest, tx)]
    BY <1>8 DEF TakeBatch
  <2>2. stream \in StreamState
    <3>1. none \in Seq(Block)
      OBVIOUS
    <3> HIDE DEF none, s
    <3> QED BY <1>0, <3>1 DEF StreamState
  <2>3. rest = [s EXCEPT !.stream = stream]
    BY <1>0, Zenon DEF ProcessorState
  <2>4. tx \in TxState
    <3>1. StateHead(s) \in Ref /\ SubmittedFinalized(s) \in Ref /\ blocks \in Seq(Block)
      BY <2>1, Received, SubmittedFinalizedWorks
    <3>2. MaxRetries \in 0..MaxRetries
      BY ProcessorAssumption
    <3> HIDE DEF s, blocks
    <3> QED BY <3>1, <3>2 DEF TxState
  <2> HIDE DEF s, stream, tx, rest
  <2>5. /\ rest \in ProcessorState /\ rest.phase = "run"
        /\ rest.final = s.final /\ rest.heads = s.heads
    BY <1>0, <2>1, <2>2, <2>3 DEF ProcessorState
  <2>6. CASE proc' = [proc EXCEPT ![p] = rest]
    <3>1. proc'[p] = rest
      BY <2>6
    <3> QED BY <2>1, <2>5, <3>1 DEF Remembers, s
  <2>7. CASE proc' = [proc EXCEPT ![p] = Attempt(rest, tx)]
    <3>1. proc'[p] = Attempt(rest, tx)
      BY <2>7
    <3>2. Remembers(proc'[p], rest)
      BY <2>4, <2>5, <3>1, AttemptRemembers
    <3> QED BY <2>1, <2>5, <3>2 DEF Remembers, s
  <2> QED BY <1>2, <2>1, <2>6, <2>7 DEF s
<1>9. CASE \E n \in Nat : Abort(p, n)
  <2>1. PICK n \in Nat : Abort(p, n)
    BY <1>9
  <2> DEFINE more == SubSeq(SliceHeads(s.tx), 1, n)
             tx == [s.tx EXCEPT !.retries = @ - 1, !.slices = @ \o more]
  <2>2. /\ s.phase = "tx" /\ db' = db
        /\ \/ proc' = [proc EXCEPT ![p] = Down("aborted", s.hot)]
           \/ proc' = [proc EXCEPT ![p] = Attempt(s, tx)]
    BY <2>1 DEF Abort
  <2>3. CASE proc' = [proc EXCEPT ![p] = Attempt(s, tx)]
    <3>1. proc'[p] = Attempt(s, tx)
      BY <2>3
    <3>2. Remembers(Attempt(s, tx), s)
      <4> HIDE DEF s, tx
      <4>1. CASE \E fault : Attempt(s, tx) = Down(fault, s.hot)
        <5>1. Attempt(s, tx).phase = "down"
          BY <4>1 DEF Down
        <5> QED BY <5>1 DEF Remembers
      <4>2. CASE Attempt(s, tx) = [s EXCEPT !.phase = "tx", !.tx = [tx EXCEPT !.nonce = db.nonce]]
        <5> DEFINE next == [tx EXCEPT !.nonce = db.nonce]
        <5>1. Attempt(s, tx) = [s EXCEPT !.phase = "tx", !.tx = next]
          BY <4>2
        <5> HIDE DEF next
        <5>2. Attempt(s, tx).final = s.final /\ Attempt(s, tx).heads = s.heads
          BY <1>0, <5>1 DEF ProcessorState
        <5> QED BY <2>2, <5>2 DEF Remembers, s
      <4>3. Attempt(s, tx) = IF TxFault(db, s.hot, tx) = "none"
                             THEN [s EXCEPT !.phase = "tx", !.tx = [tx EXCEPT !.nonce = db.nonce]]
                             ELSE Down(TxFault(db, s.hot, tx), s.hot)
        BY Zenon DEF Attempt
      <4>4. CASE TxFault(db, s.hot, tx) = "none"
        <5>1. Attempt(s, tx) = [s EXCEPT !.phase = "tx", !.tx = [tx EXCEPT !.nonce = db.nonce]]
          BY <4>3, <4>4, Zenon
        <5> QED BY <4>2, <5>1
      <4>5. CASE TxFault(db, s.hot, tx) # "none"
        <5>1. Attempt(s, tx) = Down(TxFault(db, s.hot, tx), s.hot)
          BY <4>3, <4>5, Zenon
        <5> QED BY <4>1, <5>1
      <4> QED BY <4>4, <4>5
    <3> HIDE DEF s, tx
    <3>3. Remembers(proc'[p], s)
      BY <3>1, <3>2
    <3> QED BY <2>2, <3>3 DEF s
  <2> QED BY <1>2, <2>2, <2>3
<1>10. CASE HandleFork(p)
  <2> DEFINE below == IF s.final = Origin THEN << >> ELSE << s.final >>
             index == FindRollbackIndex(below \o s.heads, s.stream.fork)
             kept  == index - Len(below)
             back  == [s EXCEPT !.heads = SubSeq(@, 1, kept)]
  <2>1. /\ s.phase = "run" /\ db' = db
        /\ \/ proc' = [proc EXCEPT ![p] = Down("fork", s.hot)]
           \/ /\ proc' = [proc EXCEPT ![p] = OpenStream(back)]
              /\ ~(index = 0 /\ s.final # Origin)
    BY <1>10 DEF HandleFork
  <2>2. CASE /\ proc' = [proc EXCEPT ![p] = OpenStream(back)]
             /\ ~(index = 0 /\ s.final # Origin)
    <3>1. Ascending(s.stream.fork) /\ MemoryIsChain(s, source)
      BY <2>1, Received DEF StreamContinues
    <3>2. proc'[p] = OpenStream(back)
      BY <2>2
    <3> HIDE DEF s
    <3>3. /\ kept \in 0..Len(s.heads)
          /\ kept # 0 => /\ s.final # Origin => Height(s.final) < Height(s.heads[kept])
                         /\ \A i \in 1..(kept - 1) : Height(s.heads[i]) < Height(s.heads[kept])
      BY <1>0, <2>2, <3>1, RollbackIndexWorks
    <3> HIDE DEF kept
    <3>4. /\ back \in ProcessorState /\ back.phase = s.phase /\ back.final = s.final
          /\ Len(back.heads) = kept
          /\ \A i \in 1..kept : back.heads[i] = s.heads[i]
          /\ MemoryIsChain(back, source)
      BY <1>0, <3>1, <3>3, KeptMemory
    <3> HIDE DEF back
    <3>5. /\ OpenStream(back).phase = "run"
          /\ OpenStream(back).final = s.final /\ OpenStream(back).heads = back.heads
      <4>1. back.phase = "run"
        BY <2>1, <3>4 DEF s
      <4> QED BY <3>4, <4>1, OpenStreamFits
    <3>6. \A i \in 1..Len(back.heads) : i \in 1..Len(s.heads)
      BY <1>0, <3>3, <3>4
    <3> QED BY <2>1, <3>2, <3>4, <3>5, <3>6 DEF Remembers, s
  <2> QED BY <1>2, <2>1, <2>2
<1>11. db' = db
  BY DEF ReceiveHeader, ReceiveBlocks, ReceiveNoData, ReceiveFork, Reconfigure, TakeBatch,
         Abort, HandleFork, Crash
<1> QED BY <1>3, <1>4, <1>5, <1>6, <1>7, <1>8, <1>9, <1>10, <1>11

------------------------------------------------------------------------------
(***************************************************************************)
(* Connect and commit.                                                      *)
(***************************************************************************)

\* What connect() reads into memory is what the tables hold.
LEMMA StartRemembers ==
    ASSUME ProcessorInv, NEW p \in Processor, Start(p)
    PROVE  MemoryOf(proc'[p], db')
<1> USE InvFacts
<1> DEFINE s == Connected(db, proc[p].hot)
           t == OpenStream(s)
<1>1. db' = RepairOrphans(db) /\ proc' = [proc EXCEPT ![p] = t]
  BY DEF Start, Connected
<1>2. db'.status = db.status /\ db'.applied = db.applied
  BY <1>1, RepairSound
<1>3. /\ s \in ProcessorState /\ s.phase = "run" /\ MemoryIsChain(s, source)
      /\ s.final = db.status /\ s.heads = Refs(db.hot)
  <2>1. proc[p].hot \in BOOLEAN
    BY DEF ProcessorState
  <2> QED BY <2>1, StartMemory
<1> HIDE DEF s
<1>4. t.final = db.status /\ t.heads = Refs(db.hot)
  BY <1>3, OpenStreamFits
<1>5. \A i \in 1..Len(t.heads) : \E k \in 1..Len(db.applied) : db.applied[k] = t.heads[i]
  BY <1>4, TablesAreChain
<1> HIDE DEF t
<1>6. proc'[p] = t
  BY <1>1
<1> QED BY <1>2, <1>4, <1>5, <1>6 DEF MemoryOf

\* Block b is among the mapped ones.
Maps(mapped, b) == \E m \in 1..Len(mapped) : mapped[m] = b

\* The rollback of a hot transaction undoes nothing at or below its base.
LEMMA RollbackKeepsBase ==
    ASSUME NEW d, Sound(d), NEW base \in Ref, IsBase(d, base), NEW s \in Seq(Block),
           NEW i \in 1..Len(d.applied), On(d.applied[i], base)
    PROVE  Maps(RollbackTo(d, BasePos(d, base)).applied \o s, d.applied[i])
<1> DEFINE k == BasePos(d, base)
           P == RollbackTo(d, k).applied
<1>1. k \in Positions(d) /\ RefAt(d, k) = base
  BY SoundType, BasePosWorks
<1>2. d.applied[i] \in Ref /\ Height(d.applied[i]) <= Height(base)
  BY SoundType, AncestorHeight
<1> HIDE DEF k
<1>3. i <= Settled(d) + k
  BY <1>1, <1>2, SoundPositions
<1>4. /\ P \in Seq(Block) /\ Len(P) = Settled(d) + k
      /\ \A j \in 1..Len(P) : P[j] = d.applied[j]
  BY <1>1, RollbackFields, RollbackSound, SoundType
<1>5. i \in 1..Len(P) /\ Len(P) \in Nat /\ P[i] = d.applied[i]
  BY <1>3, <1>4
<1> HIDE DEF P
<1> DEFINE a == P \o s
<1>6. /\ Len(a) = Len(P) + Len(s)
      /\ \A j \in 1..Len(P) : a[j] = P[j]
  <2>1. P \in Seq(Block) /\ a = P \o s
    BY <1>4
  <2> HIDE DEF a
  <2> QED BY <2>1, ConcatPieces
<1> HIDE DEF a
<1>7. i \in 1..Len(a) /\ a[i] = d.applied[i]
  <2>1. Len(s) \in Nat
    OBVIOUS
  <2> QED BY <1>5, <1>6, <2>1
<1> QED BY <1>7 DEF a, P, k, Maps

\* All blocks of a batch are mapped.
LEMMA BatchIsMapped ==
    ASSUME NEW d, Sound(d), NEW k \in Positions(d), NEW s \in Seq(Block), NEW j \in 1..Len(s)
    PROVE  Maps(RollbackTo(d, k).applied \o s, s[j])
<1> DEFINE P == RollbackTo(d, k).applied
           a == P \o s
<1>1. P \in Seq(Block) /\ Len(P) \in Nat
  BY RollbackSound, SoundType
<1> HIDE DEF P
<1>2. /\ Len(a) = Len(P) + Len(s)
      /\ \A i \in 1..Len(s) : a[Len(P) + i] = s[i]
  <2>1. P \in Seq(Block) /\ a = P \o s
    BY <1>1
  <2> HIDE DEF a
  <2> QED BY <2>1, ConcatPieces
<1> HIDE DEF a
<1>3. Len(P) + j \in 1..Len(a) /\ a[Len(P) + j] = s[j]
  BY <1>1, <1>2
<1> QED BY <1>3 DEF a, P, Maps

\* What processBatch() notes down after its transaction is what that has written.
LEMMA CommitRemembers ==
    ASSUME Ungrouped, ProcessorInv, NEW p \in Processor, Commit(p), MemoryOf(proc[p], db)
    PROVE  MemoryOf(proc'[p], db')
<1> USE InvFacts
<1> DEFINE s    == proc[p]
           t    == AfterCommit(s)
           tx   == s.tx
           base == tx.base
           blocks == tx.blocks
           last == LastOf(base, blocks)
<1>0. Sound(db)
  OBVIOUS
<1>1. /\ s.phase = "tx" /\ db.nonce = tx.nonce
      /\ db' = IF s.hot THEN TransactHot2(db, HotInfo(tx)) ELSE Transact(db, FinalInfo(tx))
      /\ proc' = [proc EXCEPT ![p] = t]
  BY DEF Commit
<1>2. /\ s \in ProcessorState /\ s.hot \in BOOLEAN
      /\ s.final \in Ref /\ s.heads \in Seq(Block)
      /\ base \in Ref /\ tx.final \in Ref
      /\ MemoryIsChain(s, source) /\ TransactionFits(s, db)
  BY <1>1 DEF ProcessFits, ProcessorState, TxState
<1>3. /\ base = StateHead(s)
      /\ blocks \in Deliveries(base) \cup {<< >>}
      /\ s.hot => On(tx.final, last) /\ Height(s.final) <= Height(tx.final)
      /\ TxFault(db, s.hot, tx) = "none"
  BY <1>1, <1>2 DEF TransactionFits
<1>4. blocks \in Seq(Block)
  BY <1>2, <1>3, DeliveryFacts
<1>5. /\ s.final = db.status
      /\ \A i \in 1..Len(s.heads) :
             Height(s.heads[i]) > Height(db.status)
                 => \E k \in 1..Len(db.applied) : db.applied[k] = s.heads[i]
  BY <1>1 DEF MemoryOf
<1>6. proc'[p] = t
  BY <1>1
<1>7. CASE s.hot
  <2>1. TransactHot2Asserts(db, HotInfo(tx))
    BY <1>3, <1>7, Zenon DEF TxFault
  <2>2. IsBase(db, base)
    BY <2>1 DEF TransactHot2Asserts, HotInfo
  <2>3. /\ db'.status = EffectiveFinalizedHead(db, tx.final)
        /\ db'.applied = RollbackTo(db, BasePos(db, base)).applied \o blocks
    BY <1>1, <1>7 DEF TransactHot2, HotInfo
  <2>4. db'.status = tx.final
    BY <1>3, <1>5, <1>7, <2>3 DEF EffectiveFinalizedHead
  <2> DEFINE final == IF tx.final = Origin THEN s.final ELSE tx.final
             cut   == CountUpTo(s.heads, Height(final))
             u     == CountUpTo(blocks, Height(tx.final))
  <2>5. final = tx.final
    <3>1. CASE tx.final = Origin
      <4>1. Height(s.final) <= -1 /\ Len(Path[s.final]) \in Nat
        BY <1>2, <1>3, <1>7, <3>1, HeightType, TreeAssumption DEF Height
      <4>2. s.final = Origin
        BY <1>2, <4>1, HeightType DEF Height
      <4> QED BY <3>1, <4>2
    <3> QED BY <3>1
  <2>6. /\ t.final = final
        /\ \A i \in 1..Len(t.heads) :
               \/ \E k \in (cut + 1)..Len(s.heads) : t.heads[i] = s.heads[k]
               \/ \E j \in (u + 1)..Len(blocks) : t.heads[i] = blocks[j]
    <3>1. /\ t = [s EXCEPT !.phase = "run", !.tx = NoTx, !.final = final, !.heads = t.heads]
          /\ \A i \in 1..Len(t.heads) :
                 \/ \E k \in (cut + 1)..Len(s.heads) : t.heads[i] = s.heads[k]
                 \/ \E j \in (u + 1)..Len(blocks) : t.heads[i] = blocks[j]
      BY <1>2, <1>7, HotCommitMemory
    <3>2. t.final = final
      <4> DEFINE heads == t.heads
      <4>1. t = [s EXCEPT !.phase = "run", !.tx = NoTx, !.final = final, !.heads = heads]
        BY <3>1
      <4> HIDE DEF t, heads, s, final
      <4> QED BY <1>2, <4>1 DEF ProcessorState
    <3> QED BY <3>1, <3>2
  <2>7. cut \in Nat /\ u \in Nat
    <3>1. cut \in 0..Len(s.heads) /\ u \in 0..Len(blocks)
      BY <1>2, <1>4, <2>5, CountUpToWorks, HeightType
    <3> QED BY <1>2, <1>4, <3>1
  <2>8. ASSUME NEW i \in 1..Len(t.heads), Height(t.heads[i]) > Height(tx.final)
        PROVE  Maps(db'.applied, t.heads[i])
    <3> DEFINE h == t.heads[i]
    <3>1. CASE \E k \in (cut + 1)..Len(s.heads) : h = s.heads[k]
      <4>1. PICK k \in 1..Len(s.heads) : h = s.heads[k]
        BY <1>2, <2>7, <3>1
      <4>2. h \in Ref /\ On(h, base)
        BY <1>2, <1>3, <4>1 DEF MemoryIsChain, Ref
      <4>3. Height(h) > Height(db.status)
        <5>1. Height(h) \in Int /\ Height(tx.final) \in Int /\ Height(s.final) \in Int
          BY <1>2, <4>2, HeightType
        <5>2. Height(s.final) <= Height(tx.final)
          BY <1>3, <1>7
        <5> QED BY <1>5, <2>8, <5>1, <5>2
      <4>4. PICK x \in 1..Len(db.applied) : db.applied[x] = h
        BY <1>5, <4>1, <4>3
      <4> HIDE DEF h, s, tx, base, blocks, last, t
      <4>5. On(db.applied[x], base)
        BY <4>2, <4>4
      <4>6. Maps(db'.applied, db.applied[x])
        BY <1>0, <1>2, <1>4, <2>2, <2>3, <4>5, RollbackKeepsBase
      <4> QED BY <4>4, <4>6 DEF h
    <3>2. CASE \E j \in (u + 1)..Len(blocks) : h = blocks[j]
      <4>1. PICK j \in 1..Len(blocks) : h = blocks[j]
        BY <2>7, <3>2
      <4>2. BasePos(db, base) \in Positions(db)
        BY <1>0, <2>2, SoundType, BasePosWorks
      <4> HIDE DEF s, tx, base, blocks, last, t
      <4> QED BY <1>0, <1>4, <2>3, <4>1, <4>2, BatchIsMapped
    <3> QED BY <2>6, <3>1, <3>2
  <2> QED BY <1>6, <2>4, <2>5, <2>6, <2>8 DEF MemoryOf, Maps
<1>8. CASE ~ s.hot
  <2>1. db'.status = last
    BY <1>1, <1>8 DEF Transact, FinalInfo
  <2> DEFINE none == << >>
  <2>2. t = [s EXCEPT !.phase = "run", !.tx = NoTx, !.final = last, !.heads = none]
    BY <1>8, Zenon DEF AfterCommit
  <2> HIDE DEF none, t, s, last
  <2>3. t.final = last /\ t.heads = none
    BY <1>2, <2>2 DEF ProcessorState
  <2>4. Len(t.heads) = 0
    BY <2>3 DEF none
  <2> QED BY <1>6, <2>1, <2>3, <2>4 DEF MemoryOf
<1> QED BY <1>2, <1>7, <1>8

\* With nobody else on the tables, every step keeps the memory true to them.
LEMMA LoneNextSound ==
    ASSUME Ungrouped, Lone
    PROVE  ProcessorInv /\ LoneInv /\ [ProcessorNext]_vars => LoneInv'
<1> SUFFICES ASSUME ProcessorInv, LoneInv, [ProcessorNext]_vars, NEW p \in Processor
             PROVE  MemoryOf(proc'[p], db')
  BY DEF LoneInv
<1>0. MemoryOf(proc[p], db)
  BY DEF LoneInv
<1>1. CASE db' = db /\ Remembers(proc'[p], proc[p])
  BY <1>0, <1>1, RememberedFits
<1>2. CASE Start(p)
  BY <1>2, StartRemembers
<1>3. CASE Commit(p)
  BY <1>0, <1>3, CommitRemembers
<1>4. CASE NewBlock \/ Reorg \/ Finalize \/ UNCHANGED vars
  <2>1. db' = db /\ proc' = proc
    BY <1>4 DEF NewBlock, Reorg, Finalize, vars
  <2> QED BY <1>0, <2>1
<1>5. ASSUME NEW q \in Processor,
             \/ \E r \in Reportable : ReceiveHeader(q, r)
             \/ \E r \in Reportable : ReceiveBlocks(q, r)
             \/ \E r \in Reportable : ReceiveNoData(q, r)
             \/ ReceiveFork(q)
             \/ Reconfigure(q)
             \/ TakeBatch(q)
             \/ \E n \in 0..Len(proc[q].tx.blocks) : Abort(q, n)
             \/ HandleFork(q)
             \/ Crash(q)
      PROVE  MemoryOf(proc'[p], db')
  <2>1. q = p
    BY DEF Lone
  <2>2. 0..Len(proc[q].tx.blocks) \subseteq Nat
    <3>1. proc[q].tx.blocks \in Seq(Block)
      BY InvFacts DEF ProcessorState, TxState
    <3> QED BY <3>1
  <2>3. (\E n \in 0..Len(proc[q].tx.blocks) : Abort(q, n)) => \E n \in Nat : Abort(q, n)
    BY <2>2
  <2>4. db' = db /\ Remembers(proc'[q], proc[q])
    BY <1>5, <2>3, LocalStepsRemember
  <2> QED BY <1>1, <2>1, <2>4
<1>6. ASSUME NEW q \in Processor, Start(q) \/ Commit(q)
      PROVE  MemoryOf(proc'[p], db')
  <2>1. q = p
    BY DEF Lone
  <2> QED BY <1>2, <1>3, <1>6, <2>1
<1> QED BY <1>4, <1>5, <1>6 DEF ProcessorNext

(***************************************************************************)
(* A processor that has the database for itself holds in memory what the    *)
(* tables hold: retried transactions, forks, restarts and commits of every  *)
(* kind included, its finalized head is the committed one and the head it   *)
(* will build on is a committed row.                                        *)
(***************************************************************************)
THEOREM LoneProcessorIsSound ==
    ASSUME Ungrouped, Lone
    PROVE  ProcessorSpec => []ProcessorIsSound
<1>1. ProcessorInit => LoneInv
  BY DEF ProcessorInit, LoneInv, MemoryOf, Down
<1>2. ProcessorInv /\ LoneInv /\ [ProcessorNext]_vars => LoneInv'
  BY LoneNextSound
<1>3. ProcessorInv /\ LoneInv => ProcessorIsSound
  <2> SUFFICES ASSUME ProcessorInv, LoneInv
               PROVE  ProcessorTypeOK /\ MemoryIsCommitted
    BY DEF ProcessorIsSound
  <2>1. ASSUME NEW p \in Processor, proc[p].phase # "down"
        PROVE  proc[p].final = db.status /\ IsBase(db, StateHead(proc[p]))
    <3>1. Sound(db) /\ proc[p] \in ProcessorState /\ MemoryIsChain(proc[p], source)
      BY <2>1, InvFacts DEF ProcessFits
    <3>2. MemoryOf(proc[p], db)
      BY DEF LoneInv
    <3> QED BY <2>1, <3>1, <3>2, MemoryIsBase DEF MemoryOf
  <2> QED BY <2>1 DEF MemoryIsCommitted, ProcessorInv
<1> QED BY <1>1, <1>2, <1>3, ProcessorInvAlways, PTL DEF ProcessorSpec

------------------------------------------------------------------------------
(***************************************************************************)
(* Fork reports.                                                            *)
(***************************************************************************)

\* The walk does not end below a block of the chain that the fork report has too,
\* if what comes before it in the chain is lower and on the chain of the fork.
LEMMA WalkFinds ==
    ASSUME NEW chain \in Seq(Block), NEW fork \in Seq(Block), Ascending(fork),
           NEW top \in Ref, \A j \in 1..Len(fork) : On(fork[j], top),
           NEW m \in 1..Len(chain), NEW k \in 1..Len(fork), fork[k] = chain[m],
           \A i \in 1..(m - 1) : On(chain[i], top) /\ Height(chain[i]) < Height(chain[m])
    PROVE  LET w == FindRollbackIndex(chain, fork)
           IN  w \in m..Len(chain) /\ Height(chain[m]) <= Height(chain[w])
<1> DEFINE T == {at \in WalkState :
                     \/ at.i <= m /\ at.j <= k
                     \/ /\ at.i > m /\ at.j > k
                        /\ at.last \in m..Len(chain)
                        /\ Height(chain[m]) <= Height(chain[at.last])}
<1>1. /\ Len(chain) \in Nat /\ Len(fork) \in Nat /\ m \in Nat /\ k \in Nat
      /\ \A i \in 1..Len(chain) : Height(chain[i]) \in Int /\ chain[i] \in Ref
      /\ \A j \in 1..Len(fork) : Height(fork[j]) \in Int /\ fork[j] \in Ref
  BY HeightType DEF Ref
<1>2. \A i, j \in 1..Len(fork) : i < j => Height(fork[i]) < Height(fork[j])
  BY DEF Ascending
<1>3. WalkStart \in T
  <2>1. WalkStart \in WalkState
    BY DEF WalkStart, WalkState
  <2> QED BY <1>1, <2>1 DEF WalkStart
<1>4. ASSUME NEW at \in WalkState, at \in T
      PROVE  /\ WalkStep(chain, fork, at) \in T
             /\ at.i <= m => WalkStep(chain, fork, at) # at
  <2> DEFINE next == WalkStep(chain, fork, at)
             a    == chain[at.i]
             b    == fork[at.j]
  <2>1. /\ next \in WalkState
        /\ at.i \in Nat /\ at.j \in Nat /\ at.last \in Nat
        /\ next.i \in Nat /\ next.j \in Nat /\ next.last \in Nat
    BY WalkStepCases DEF WalkState
  <2>2. \/ /\ at.i > Len(chain) \/ at.j > Len(fork)
           /\ next = at
        \/ /\ at.i \in 1..Len(chain) /\ at.j \in 1..Len(fork)
           /\ a \in Block /\ b \in Block
           /\ \/ /\ Height(a) > Height(b)
                 /\ next.i = at.i /\ next.j = at.j + 1 /\ next.last = at.last
              \/ /\ Height(a) < Height(b)
                 /\ next.i = at.i + 1 /\ next.j = at.j /\ next.last = at.last
              \/ /\ a = b
                 /\ next.i = at.i + 1 /\ next.j = at.j + 1 /\ next.last = at.i
              \/ /\ Height(a) = Height(b) /\ a # b
                 /\ next = at
    BY WalkStepCases
  <2> HIDE DEF next
  <2>3. CASE at.i <= m /\ at.j <= k
    <3>1. at.i \in 1..Len(chain) /\ at.j \in 1..Len(fork)
      BY <1>1, <2>1, <2>3 DEF WalkState
    <3>2. /\ Height(a) \in Int /\ Height(b) \in Int /\ Height(chain[m]) \in Int
          /\ at.i # m => at.i \in 1..(m - 1) /\ Height(a) < Height(chain[m])
          /\ at.i = m => Height(a) = Height(chain[m])
          /\ at.j # k => Height(b) < Height(chain[m])
          /\ at.j = k => Height(b) = Height(chain[m])
      <4>1. at.i # m => at.i \in 1..(m - 1)
        BY <1>1, <2>3, <3>1
      <4>2. at.j # k => at.j < k
        BY <1>1, <2>1, <2>3
      <4> QED BY <1>1, <1>2, <3>1, <4>1, <4>2
    <3>3. CASE Height(a) > Height(b) /\ next.i = at.i /\ next.j = at.j + 1 /\ next.last = at.last
      <4>1. at.j # k
        BY <2>1, <3>2, <3>3
      <4>2. next.j <= k /\ next.i <= m /\ next.j # at.j
        BY <1>1, <2>1, <2>3, <3>3, <4>1
      <4> QED BY <2>1, <4>2 DEF next
    <3>4. CASE Height(a) < Height(b) /\ next.i = at.i + 1 /\ next.j = at.j /\ next.last = at.last
      <4>1. at.i # m
        BY <2>1, <3>2, <3>4
      <4>2. next.j <= k /\ next.i <= m /\ next.i # at.i
        BY <1>1, <2>1, <2>3, <3>4, <4>1
      <4> QED BY <2>1, <4>2 DEF next
    <3>5. CASE a = b /\ next.i = at.i + 1 /\ next.j = at.j + 1 /\ next.last = at.i
      <4>1. next.i # at.i
        BY <2>1, <3>5
      <4>2. CASE at.i = m
        <5>1. at.j = k
          BY <3>2, <3>5, <4>2
        <5>2. next.i > m /\ next.j > k /\ next.last = m
          BY <1>1, <2>1, <3>5, <4>2, <5>1
        <5>3. next.last \in m..Len(chain) /\ Height(chain[m]) <= Height(chain[next.last])
          BY <1>1, <5>2
        <5> QED BY <2>1, <4>1, <5>2, <5>3 DEF next
      <4>3. CASE at.i # m
        <5>1. at.j # k
          BY <3>2, <3>5, <4>3
        <5>2. next.i <= m /\ next.j <= k
          BY <1>1, <2>1, <2>3, <3>5, <4>3, <5>1, SMTT(40)
        <5> QED BY <2>1, <4>1, <5>2 DEF next
      <4> QED BY <4>2, <4>3
    <3>6. CASE Height(a) = Height(b) /\ a # b
      <4>1. On(b, top)
        BY <3>1
      <4>2. On(a, top)
        <5>1. CASE at.i = m
          BY <5>1
        <5>2. CASE at.i # m
          BY <3>2, <5>2
        <5> QED BY <5>1, <5>2
      <4>3. a = b
        BY <1>1, <3>1, <3>6, <4>1, <4>2, AncestorUnique
      <4> QED BY <3>6, <4>3
    <3>7. ~(at.i > Len(chain) \/ at.j > Len(fork))
      BY <1>1, <2>1, <3>1
    <3> QED BY <2>2, <3>3, <3>4, <3>5, <3>6, <3>7 DEF next
  <2>4. CASE /\ at.i > m /\ at.j > k
             /\ at.last \in m..Len(chain)
             /\ Height(chain[m]) <= Height(chain[at.last])
    <3>1. ~(at.i <= m)
      BY <1>1, <2>1, <2>4
    <3>2. CASE next = at
      BY <1>4, <3>1, <3>2 DEF next
    <3>3. CASE /\ next.last = at.last
               /\ \/ next.i = at.i /\ next.j = at.j + 1
                  \/ next.i = at.i + 1 /\ next.j = at.j
      <4>1. next.i > m /\ next.j > k
        BY <1>1, <2>1, <2>4, <3>3
      <4> QED BY <2>1, <2>4, <3>1, <3>3, <4>1 DEF next
    <3>4. CASE /\ at.i \in 1..Len(chain) /\ at.j \in 1..Len(fork)
               /\ a = b
               /\ next.i = at.i + 1 /\ next.j = at.j + 1 /\ next.last = at.i
      <4>1. next.i > m /\ next.j > k
        BY <1>1, <2>1, <2>4, <3>4, SMTT(40)
      <4>2. Height(chain[m]) <= Height(a)
        <5>1. Height(fork[k]) < Height(fork[at.j])
          BY <1>1, <1>2, <2>1, <2>4, <3>4
        <5> QED BY <1>1, <3>4, <5>1
      <4>3. next.last \in m..Len(chain)
        BY <1>1, <2>1, <2>4, <3>4
      <4> QED BY <2>1, <3>1, <3>4, <4>1, <4>2, <4>3 DEF next
    <3> QED BY <2>2, <3>2, <3>3, <3>4
  <2> QED BY <1>4, <2>3, <2>4
<1> HIDE DEF T
<1>5. PICK at \in WalkState : /\ at \in T
                              /\ WalkStep(chain, fork, at) = at
                              /\ FindRollbackIndex(chain, fork) = at.last
  BY <1>3, <1>4, WalkReaches
<1>6. ~(at.i <= m)
  BY <1>4, <1>5
<1> QED BY <1>5, <1>6 DEF T

\* A report of previousBlocks is a run of blocks of the node's chain that ends at
\* the height that was asked for.
LEMMA PreviousBlocksRun ==
    ASSUME NEW r \in Ref, NEW h \in Int, 0 <= h, h <= Height(r)
    PROVE  LET fork == PreviousBlocks(r, h)
               top  == fork[Len(fork)]
           IN  /\ fork \in Seq(Block) /\ fork # << >>
               /\ top \in Block /\ Height(top) = h /\ On(top, r)
               /\ \A j \in 1..Len(fork) : On(fork[j], top)
               /\ \A b \in Block : On(b, top) /\ Height(b) > h - ForkWindow
                      => \E j \in 1..Len(fork) : fork[j] = b
<1> DEFINE path == Path[r]
           N    == Len(path)
           low  == h - ForkWindow + 1
           from == (IF low < 0 THEN 0 ELSE low) + 1
           fork == SubSeq(path, from, h + 1)
           top  == fork[Len(fork)]
<1>1. path \in Seq(Block) /\ N \in Nat /\ N = Height(r) + 1 /\ Height(r) \in Int
  BY HeightType DEF Height
<1>2. ForkWindow \in Nat \ {0}
  BY ProcessorAssumption
<1>3. from \in 1..(h + 1) /\ h + 1 \in 1..N
  BY <1>1, <1>2
<1>4. PreviousBlocks(r, h) = fork
  <2>1. (IF h < Height(r) THEN h ELSE Height(r)) = h
    BY <1>1
  <2>2. PreviousBlocks(r, h) =
            SubSeq(Path[r], (IF h - ForkWindow + 1 < 0 THEN 0 ELSE h - ForkWindow + 1) + 1, h + 1)
    BY <2>1, Zenon DEF PreviousBlocks
  <2> QED BY <2>2
<1>5. r # Origin /\ r \in Block
  BY <1>1, <1>3, HeightType DEF Ref
<1>6. ASSUME NEW i \in 1..N
      PROVE  /\ path[i] \in Block /\ path[i] \in Ref
             /\ Height(path[i]) = i - 1 /\ On(path[i], r)
  <2>1. path[i] \in Block
    BY <1>1, <1>6
  <2>2. Path[path[i]] = SubSeq(path, 1, i)
    BY <1>5, <1>6, TreeAssumption
  <2>3. Len(Path[path[i]]) = i
    BY <1>1, <1>6, <2>2
  <2> QED BY <1>6, <2>1, <2>3 DEF Height, On, Ref
<1> HIDE DEF path, N
<1>7. /\ fork \in Seq(Block) /\ Len(fork) = h + 1 - from + 1
      /\ \A j \in 1..Len(fork) : fork[j] = path[from + j - 1] /\ from + j - 1 \in 1..N
  <2> DEFINE to == h + 1
  <2>1. from \in 1..to /\ to \in 1..N /\ N \in Nat /\ N = Len(path) /\ path \in Seq(Block)
    BY <1>1, <1>3 DEF N
  <2> HIDE DEF from, to
  <2>2. /\ SubSeq(path, from, to) \in Seq(Block)
        /\ Len(SubSeq(path, from, to)) = to - from + 1
        /\ \A j \in 1..(to - from + 1) : SubSeq(path, from, to)[j] = path[from + j - 1]
    BY <2>1
  <2>3. \A j \in 1..(to - from + 1) : from + j - 1 \in 1..N
    BY <2>1
  <2> QED BY <2>2, <2>3 DEF to
<1>8. Len(fork) \in 1..Len(fork) /\ from + Len(fork) - 1 = h + 1
  BY <1>3, <1>7
<1> HIDE DEF fork, from
<1>9. top = path[h + 1]
  BY <1>7, <1>8
<1>10. top \in Block /\ top \in Ref /\ Height(top) = h /\ On(top, r)
  BY <1>3, <1>6, <1>9
<1>11. ASSUME NEW j \in 1..Len(fork)
       PROVE  On(fork[j], top)
  <2>1. /\ fork[j] \in Ref /\ On(fork[j], r)
        /\ Height(fork[j]) = from + j - 2
    <3> DEFINE i == from + j - 1
    <3>1. i \in 1..N /\ fork[j] = path[i] /\ i - 1 = from + j - 2
      BY <1>3, <1>7
    <3> HIDE DEF i
    <3> QED BY <1>6, <3>1
  <2>2. Height(fork[j]) <= h
    BY <1>3, <1>7, <2>1
  <2> QED BY <1>1, <1>10, <2>1, <2>2, AncestorLinear
<1>12. ASSUME NEW b \in Block, On(b, top), Height(b) > h - ForkWindow
       PROVE  \E j \in 1..Len(fork) : fork[j] = b
  <2>1. b \in Ref /\ b # Origin /\ Height(b) \in Int
    BY TreeAssumption, HeightType DEF Ref
  <2>2. Len(Path[b]) = Height(b) + 1 /\ Len(Path[b]) \in Nat /\ Len(Path[b]) # 0
    BY <2>1, HeightType DEF Height
  <2>3. On(b, r) /\ Height(b) <= h
    BY <1>1, <1>10, <1>12, <2>1, AncestorTransitive, AncestorHeight
  <2>4. path[Height(b) + 1] = b
    BY <2>1, <2>2, <2>3 DEF On, path
  <2> DEFINE j == Height(b) + 2 - from
  <2>5. from <= Height(b) + 1
    BY <1>2, <1>12, <2>1, <2>2 DEF from
  <2>6. j \in 1..Len(fork) /\ from + j - 1 = Height(b) + 1
    BY <1>3, <1>7, <2>1, <2>3, <2>5
  <2> QED BY <1>7, <2>4, <2>6
<1>13. fork # << >>
  BY <1>8
<1> QED BY <1>4, <1>7, <1>10, <1>11, <1>12, <1>13

------------------------------------------------------------------------------
(***************************************************************************)
(* Completeness of what is noted down.                                      *)
(***************************************************************************)

\* Nothing noted down is complete.
LEMMA NothingComplete ==
    ASSUME NEW noted, Len(noted) = 0, NEW blocks, NEW low
    PROVE  Complete(noted, blocks, low)
BY DEF Complete

\* Completeness over some blocks is completeness over fewer of them, and above a
\* greater height.
LEMMA CompleteLess ==
    ASSUME NEW noted \in Seq(Block), NEW blocks \in Seq(Block), NEW less \in Seq(Block),
           NEW low \in Int, NEW high \in Int, low <= high,
           Complete(noted, blocks, low),
           \A k \in 1..Len(less) : \E x \in 1..Len(blocks) : less[k] = blocks[x]
    PROVE  Complete(noted, less, high)
<1> SUFFICES ASSUME NEW i \in 1..Len(noted), NEW k \in 1..Len(less),
                    high < Height(less[k]), Height(less[k]) < Height(noted[i])
             PROVE  \E m \in 1..(i - 1) : noted[m] = less[k]
  BY DEF Complete
<1>1. PICK x \in 1..Len(blocks) : less[k] = blocks[x]
  OBVIOUS
<1>2. Height(less[k]) \in Int
  BY HeightType, SMTT(40) DEF Ref
<1>3. low < Height(blocks[x]) /\ Height(blocks[x]) < Height(noted[i])
  BY <1>1, <1>2
<1> QED BY <1>1, <1>3 DEF Complete

\* A prefix is complete.
LEMMA CompletePrefix ==
    ASSUME NEW noted \in Seq(Block), NEW blocks, NEW low, Complete(noted, blocks, low),
           NEW n \in 0..Len(noted)
    PROVE  Complete(SubSeq(noted, 1, n), blocks, low)
<1> DEFINE cut == SubSeq(noted, 1, n)
<1>1. Len(cut) = n /\ \A i \in 1..n : cut[i] = noted[i] /\ i \in 1..Len(noted)
  OBVIOUS
<1> HIDE DEF cut
<1>2. SUFFICES ASSUME NEW i \in 1..n, NEW k \in 1..Len(blocks),
                      low < Height(blocks[k]), Height(blocks[k]) < Height(noted[i])
               PROVE  \E m \in 1..(i - 1) : cut[m] = blocks[k]
  BY <1>1 DEF Complete, cut
<1>3. PICK m \in 1..(i - 1) : noted[m] = blocks[k]
  BY <1>1, <1>2 DEF Complete
<1>4. m \in 1..n
  OBVIOUS
<1> QED BY <1>1, <1>3, <1>4

\* What is left when the heads up to a height are dropped is complete above it.
LEMMA CompleteTail ==
    ASSUME NEW noted \in Seq(Block), NEW blocks \in Seq(Block), NEW low \in Int,
           NEW high \in Int, low <= high, Complete(noted, blocks, low)
    PROVE  LET cut == CountUpTo(noted, high)
               left == SubSeq(noted, cut + 1, Len(noted))
           IN  /\ left \in Seq(Block) /\ Len(left) = Len(noted) - cut
               /\ cut \in 0..Len(noted)
               /\ \A i \in 1..Len(left) : left[i] = noted[cut + i]
               /\ Complete(left, blocks, high)
<1> DEFINE cut == CountUpTo(noted, high)
           left == SubSeq(noted, cut + 1, Len(noted))
<1>0. Len(noted) \in Nat
  OBVIOUS
<1>1. /\ cut \in 0..Len(noted) /\ Len(noted) \in Nat
      /\ \A i \in 1..cut : Height(noted[i]) <= high
  BY <1>0, CountUpToWorks
<1> HIDE DEF cut
<1>2. /\ left \in Seq(Block) /\ Len(left) = Len(noted) - cut
      /\ \A i \in 1..Len(left) : left[i] = noted[cut + i]
  BY <1>1
<1> HIDE DEF left
<1>3. ASSUME NEW i \in 1..Len(left), NEW k \in 1..Len(blocks),
             high < Height(blocks[k]), Height(blocks[k]) < Height(left[i])
      PROVE  \E m \in 1..(i - 1) : left[m] = blocks[k]
  <2>1. cut + i \in 1..Len(noted) /\ Height(left[i]) = Height(noted[cut + i])
    BY <1>1, <1>2, <1>3
  <2>2. Height(blocks[k]) \in Int
    BY HeightType DEF Ref
  <2>3. low < Height(blocks[k])
    BY <1>3, <2>2
  <2>4. PICK m \in 1..(cut + i - 1) : noted[m] = blocks[k]
    <3> DEFINE x == cut + i
    <3>1. x \in 1..Len(noted) /\ Height(blocks[k]) < Height(noted[x])
      BY <1>3, <2>1
    <3>2. x - 1 = cut + i - 1
      BY <1>1, <1>2, <1>3
    <3> HIDE DEF x
    <3>3. \E m \in 1..(x - 1) : noted[m] = blocks[k]
      BY <1>3, <2>3, <3>1 DEF Complete
    <3> QED BY <3>2, <3>3
  <2>5. ~(m \in 1..cut)
    BY <1>1, <1>3, <2>2, <2>4
  <2>6. m - cut \in 1..(i - 1) /\ cut + (m - cut) = m /\ m - cut \in 1..Len(left)
    BY <1>1, <1>2, <1>3, <2>4, <2>5
  <2> QED BY <1>2, <2>4, <2>6
<1>4. Complete(left, blocks, high)
  BY <1>3 DEF Complete
<1> QED BY <1>1, <1>2, <1>4 DEF left, cut

\* One complete record after the other is complete.
LEMMA CompleteConcat ==
    ASSUME NEW a \in Seq(Block), NEW b \in Seq(Block), NEW blocks, NEW low,
           Complete(a, blocks, low), Complete(b, blocks, low)
    PROVE  Complete(a \o b, blocks, low)
<1>1. /\ Len(a \o b) = Len(a) + Len(b) /\ Len(a) \in Nat /\ Len(b) \in Nat
      /\ \A i \in 1..Len(a) : (a \o b)[i] = a[i]
      /\ \A j \in 1..Len(b) : (a \o b)[Len(a) + j] = b[j]
  BY ConcatPieces
<1> DEFINE c == a \o b
<1> HIDE DEF c
<1>2. SUFFICES ASSUME NEW i \in 1..(Len(a) + Len(b)), NEW k \in 1..Len(blocks),
                      low < Height(blocks[k]), Height(blocks[k]) < Height(c[i])
               PROVE  \E m \in 1..(i - 1) : c[m] = blocks[k]
  BY <1>1 DEF Complete, c
<1>3. CASE i <= Len(a)
  <2>1. i \in 1..Len(a) /\ c[i] = a[i]
    BY <1>1, <1>3 DEF c
  <2>2. PICK m \in 1..(i - 1) : a[m] = blocks[k]
    BY <1>2, <2>1 DEF Complete
  <2>3. m \in 1..Len(a)
    BY <1>1, <2>1
  <2> QED BY <1>1, <2>2, <2>3 DEF c
<1>4. CASE i > Len(a)
  <2>1. i - Len(a) \in 1..Len(b) /\ Len(a) + (i - Len(a)) = i
    BY <1>1, <1>4
  <2>2. c[i] = b[i - Len(a)]
    BY <1>1, <2>1 DEF c
  <2>3. PICK m \in 1..(i - Len(a) - 1) : b[m] = blocks[k]
    BY <1>2, <2>1, <2>2 DEF Complete
  <2>4. m \in 1..Len(b) /\ Len(a) + m \in 1..(i - 1)
    BY <1>1, <2>1
  <2> QED BY <1>1, <2>3, <2>4 DEF c
<1> QED BY <1>1, <1>3, <1>4

------------------------------------------------------------------------------
(***************************************************************************)
(* The node and the stream.                                                 *)
(***************************************************************************)

\* A process may be configured for hot blocks, but not back.
HotForGood == Switches \subseteq {<< FALSE, TRUE >>}

\* What the node finalizes takes nothing away.
LEMMA SteadyNode ==
    ASSUME NEW s \in ProcessorState, NEW d, NEW n, NEW m, Steady(s, d, n),
           n.fin \in Ref, m.fin \in Ref, On(n.fin, m.fin)
    PROVE  Steady(s, d, m)
<1>1. s.stream.pos \in Ref /\ s.tx.final \in Ref
  BY DEF ProcessorState, StreamState, TxState
<1>2. On(s.stream.pos, n.fin) => On(s.stream.pos, m.fin)
  BY <1>1, AncestorTransitive
<1>3. On(s.tx.final, n.fin) => On(s.tx.final, m.fin)
  BY <1>1, AncestorTransitive
<1>4. FinalStream(s, n) => FinalStream(s, m)
  BY <1>2 DEF FinalStream
<1> QED BY <1>3, <1>4 DEF Steady

\* What is known of a running process.
LEMMA SteadyFacts ==
    ASSUME ProcessorInv, LoneInv, SteadyInv, NEW p \in Processor, proc[p].phase # "down"
    PROVE  LET s == proc[p]
           IN  /\ s \in ProcessorState /\ s.hot \in BOOLEAN /\ s.stream \in StreamState
               /\ s.tx \in TxState /\ s.heads \in Seq(Block)
               /\ s.final = db.status /\ s.final \in Ref
               /\ On(s.final, source.fin) /\ On(s.final, source.tip)
               /\ On(s.final, StateHead(s)) /\ StateHead(s) \in Ref
               /\ On(StateHead(s), s.stream.pos) /\ s.stream.pos \in Ref
               /\ On(s.final, s.stream.pos)
               /\ IsBase(db, StateHead(s))
               /\ ~ s.hot => StateHead(s) = s.final
               /\ Steady(s, db, source)
<1> USE InvFacts
<1> DEFINE s == proc[p]
<1>1. /\ s \in ProcessorState /\ s.hot \in BOOLEAN /\ s.stream \in StreamState
      /\ s.tx \in TxState /\ s.heads \in Seq(Block) /\ s.final \in Ref
  BY DEF ProcessorState
<1>2. s.final = db.status
  BY DEF LoneInv, MemoryOf
<1>3. On(s.final, source.fin) /\ On(s.final, source.tip)
  BY <1>1, <1>2, AncestorTransitive DEF SteadyInv
<1>4. /\ MemoryIsChain(s, source) /\ StateHead(s) \in Ref /\ s.stream.pos \in Ref
      /\ BatchBase(s) \in Ref /\ On(StateHead(s), BatchBase(s)) /\ On(BatchBase(s), s.stream.pos)
  BY Received
<1>5. On(s.final, StateHead(s))
  BY <1>4 DEF MemoryIsChain
<1>6. On(StateHead(s), s.stream.pos)
  BY <1>4, AncestorTransitive
<1>7. On(s.final, s.stream.pos)
  BY <1>1, <1>4, <1>5, <1>6, AncestorTransitive
<1>8. IsBase(db, StateHead(s))
  BY <1>1, <1>4, MemoryIsBase DEF LoneInv
<1>9. Steady(s, db, source)
  BY DEF SteadyInv
<1>10. ~ s.hot => StateHead(s) = s.final
  BY <1>9 DEF Steady, FinalStream, StateHead, LastOf
<1> QED BY <1>1, <1>2, <1>3, <1>4, <1>5, <1>6, <1>7, <1>8, <1>9, <1>10

\* Only the stream of a process changes.
LEMMA SteadyStream ==
    ASSUME NEW s \in ProcessorState, NEW d, NEW n, Steady(s, d, n), s.phase # "down",
           NEW stream \in StreamState, NEW t, t = [s EXCEPT !.stream = stream],
           ~ s.hot => FinalStream(t, n),
           ForkFits(t, d)
    PROVE  Steady(t, d, n)
<1>1. /\ t.fault = s.fault /\ t.hot = s.hot /\ t.phase = s.phase /\ t.final = s.final
      /\ t.heads = s.heads /\ t.tx = s.tx
  BY DEF ProcessorState
<1>2. MemoryIsComplete(s, d) => MemoryIsComplete(t, d)
  BY <1>1 DEF MemoryIsComplete
<1> QED BY <1>1, <1>2 DEF Steady

\* A response with blocks.
LEMMA SteadyBlocks ==
    ASSUME ProcessorInv, LoneInv, SteadyInv, NEW p \in Processor, NEW r \in Reportable,
           ReceiveBlocks(p, r)
    PROVE  db' = db /\ source' = source /\ Steady(proc'[p], db, source)
<1> USE InvFacts
<1> DEFINE s   == proc[p]
           old == s.stream
<1>1. PICK x \in Segment :
          /\ Streaming(p)
          /\ On(Tip(x), Top(p))
          /\ s.hot \/ On(Tip(x), r)
          /\ proc' = [proc EXCEPT ![p].stream =
                 [old EXCEPT !.pos = Tip(x),
                             !.blocks = @ \o x.blocks,
                             !.final = MaxRef(r, @),
                             !.updated = TRUE]]
          /\ db' = db /\ source' = source
  BY DEF ReceiveBlocks
<1>2. s.phase # "down" /\ old.fork = << >>
  BY <1>1 DEF Streaming
<1>3. /\ s \in ProcessorState /\ old \in StreamState /\ Steady(s, db, source)
      /\ old.final \in Ref /\ old.blocks \in Seq(Block)
  BY <1>2, SteadyFacts, Received
<1>4. r \in Ref
  BY DEF Reportable
<1>5. x.blocks \in Seq(Block) /\ Len(x.blocks) > 0 /\ Tip(x) \in Ref
  BY SegmentAssumption DEF Tip, Ref
<1> DEFINE joined == old.blocks \o x.blocks
           final  == MaxRef(r, old.final)
           stream == [old EXCEPT !.pos = Tip(x), !.blocks = joined,
                                 !.final = final, !.updated = TRUE]
           t      == [s EXCEPT !.stream = stream]
<1>6. joined \in Seq(Block) /\ joined # << >>
  <2> DEFINE a == old.blocks
             b == x.blocks
  <2>1. a \in Seq(Block) /\ b \in Seq(Block) /\ Len(b) > 0 /\ joined = a \o b
    BY <1>3, <1>5
  <2> HIDE DEF a, b, joined
  <2>2. joined \in Seq(Block) /\ Len(joined) = Len(a) + Len(b) /\ Len(a) \in Nat
    BY <2>1, ConcatPieces
  <2>3. Len(joined) > 0
    BY <2>1, <2>2
  <2> QED BY <2>2, <2>3
<1>7. final \in Ref /\ Height(r) <= Height(final)
  BY <1>3, <1>4, HeightType DEF MaxRef
<1>8. ~ s.hot => On(Tip(x), source.fin) /\ Height(Tip(x)) <= Height(final)
  <2>1. SUFFICES ASSUME ~ s.hot
                 PROVE  On(Tip(x), source.fin) /\ Height(Tip(x)) <= Height(final)
    OBVIOUS
  <2>2. Top(p) = source.fin /\ On(Tip(x), r)
    BY <1>1, <2>1 DEF Top
  <2>3. Height(Tip(x)) <= Height(r)
    BY <1>4, <1>5, <2>2, AncestorHeight
  <2>4. Height(Tip(x)) \in Int /\ Height(r) \in Int /\ Height(final) \in Int
    BY <1>4, <1>5, <1>7, HeightType
  <2> HIDE DEF final
  <2> QED BY <1>1, <1>7, <2>2, <2>3, <2>4
<1>9. proc'[p] = t
  BY <1>1
<1> HIDE DEF joined, final, old
<1>10. /\ stream \in StreamState
       /\ stream.pos = Tip(x) /\ stream.blocks = joined /\ stream.final = final
       /\ stream.fork = old.fork
  BY <1>3, <1>5, <1>6, <1>7 DEF StreamState
<1> HIDE DEF stream, s
<1>11. t.stream = stream /\ t.heads = s.heads
  BY <1>3 DEF ProcessorState
<1> HIDE DEF t
<1>12. ~ s.hot => FinalStream(t, source)
  BY <1>2, <1>3, <1>8, <1>10, <1>11 DEF FinalStream, Steady
<1>13. ForkFits(t, db)
  BY <1>2, <1>10, <1>11 DEF ForkFits
<1>14. Steady(t, db, source)
  BY <1>2, <1>3, <1>10, <1>12, <1>13, SteadyStream DEF t
<1> QED BY <1>1, <1>9, <1>14

\* The header of a response, be it that blocks follow or not.
LEMMA SteadyHeader ==
    ASSUME ProcessorInv, LoneInv, SteadyInv, NEW p \in Processor, NEW r \in Reportable,
           ReceiveHeader(p, r) \/ ReceiveNoData(p, r)
    PROVE  db' = db /\ source' = source /\ Steady(proc'[p], db, source)
<1> USE InvFacts
<1> DEFINE s      == proc[p]
           old    == s.stream
           final  == MaxRef(r, old.final)
           stream == [old EXCEPT !.final = final, !.updated = TRUE]
           t      == [s EXCEPT !.stream = stream]
<1>1. /\ s.phase # "down" /\ old.fork = << >>
      /\ proc' = [proc EXCEPT ![p].stream = stream]
      /\ db' = db /\ source' = source
  BY DEF ReceiveHeader, ReceiveNoData, Streaming
<1>2. /\ s \in ProcessorState /\ old \in StreamState /\ Steady(s, db, source)
      /\ old.final \in Ref /\ old.pos \in Ref /\ On(old.final, source.fin)
  BY <1>1, SteadyFacts, Received DEF StreamContinues
<1>3. r \in Ref /\ On(r, source.fin)
  BY DEF Reportable
<1>4. /\ final \in Ref /\ On(final, source.fin)
      /\ Height(old.final) <= Height(final)
  BY <1>2, <1>3, HeightType DEF MaxRef
<1>5. proc'[p] = t
  BY <1>1
<1> HIDE DEF final, old
<1>6. /\ stream \in StreamState
      /\ stream.pos = old.pos /\ stream.blocks = old.blocks /\ stream.final = final
      /\ stream.fork = old.fork
  BY <1>2, <1>4 DEF StreamState
<1> HIDE DEF stream, s
<1>7. t.stream = stream /\ t.heads = s.heads
  BY <1>2 DEF ProcessorState
<1> HIDE DEF t
<1>8. ~ s.hot => FinalStream(t, source)
  <2>1. SUFFICES ASSUME ~ s.hot
                 PROVE  FinalStream(t, source)
    OBVIOUS
  <2>2. FinalStream(s, source)
    BY <1>1, <1>2, <2>1 DEF Steady
  <2>3. Height(old.pos) \in Int /\ Height(old.final) \in Int /\ Height(final) \in Int
    BY <1>2, <1>4, HeightType
  <2> QED BY <1>4, <1>6, <1>7, <2>2, <2>3 DEF FinalStream, old
<1>9. ForkFits(t, db)
  BY <1>1, <1>6, <1>7 DEF ForkFits
<1>10. Steady(t, db, source)
  BY <1>1, <1>2, <1>6, <1>8, <1>9, SteadyStream DEF t
<1> QED BY <1>1, <1>5, <1>10

\* A fork report.
LEMMA SteadyFork ==
    ASSUME ProcessorInv, LoneInv, SteadyInv, WindowReaches, NEW p \in Processor, ReceiveFork(p)
    PROVE  db' = db /\ source' = source /\ Steady(proc'[p], db, source)
<1> USE InvFacts
<1> DEFINE s      == proc[p]
           old    == s.stream
           fork   == PreviousBlocks(Top(p), Height(old.pos))
           top    == fork[Len(fork)]
           stream == [old EXCEPT !.fork = fork]
           t      == [s EXCEPT !.stream = stream]
<1>1. /\ s.phase # "down" /\ old.fork = << >>
      /\ Height(old.pos) <= Height(Top(p)) /\ ~ On(old.pos, Top(p))
      /\ proc' = [proc EXCEPT ![p].stream.fork = fork]
      /\ db' = db /\ source' = source
  BY DEF ReceiveFork, Streaming
<1>2. /\ s \in ProcessorState /\ old \in StreamState /\ s.tx \in TxState
      /\ Steady(s, db, source) /\ s.hot \in BOOLEAN
      /\ s.final = db.status /\ s.final \in Ref /\ On(s.final, source.tip)
      /\ On(s.final, old.pos)
      /\ old.pos \in Ref /\ old.final \in Ref
      /\ StreamContinues(s, source)
      /\ BatchBase(s) \in Ref /\ On(BatchBase(s), old.pos)
  BY <1>1, SteadyFacts, Received
<1>3. s.hot
  <2>1. SUFFICES ASSUME ~ s.hot
                 PROVE  FALSE
    BY <1>2
  <2> QED BY <1>1, <1>2, <2>1 DEF Steady, FinalStream, Top
<1>4. Top(p) = source.tip /\ Height(old.pos) <= Height(source.tip) /\ ~ On(old.pos, source.tip)
  BY <1>1, <1>3 DEF Top
<1>5. old.pos # Origin /\ Height(old.pos) \in Int /\ 0 <= Height(old.pos)
  <2>1. old.pos # Origin
    BY <1>4 DEF On
  <2> QED BY <1>2, <2>1, HeightType DEF Height
<1>6. /\ fork \in Seq(Block) /\ fork # << >>
      /\ top \in Block /\ Height(top) = Height(old.pos) /\ On(top, source.tip)
      /\ \A j \in 1..Len(fork) : On(fork[j], top)
      /\ \A b \in Block : On(b, top) /\ Height(b) > Height(old.pos) - ForkWindow
             => \E j \in 1..Len(fork) : fork[j] = b
  BY <1>4, <1>5, PreviousBlocksRun
<1> HIDE DEF fork
<1>7. top \in Ref
  BY <1>6 DEF Ref
<1>8. ASSUME NEW r \in Ref, On(r, source.tip), On(r, old.pos)
      PROVE  On(r, top)
  <2>1. Height(r) <= Height(top)
    BY <1>2, <1>6, <1>8, AncestorHeight
  <2> QED BY <1>6, <1>7, <1>8, <2>1, AncestorLinear
<1>9. On(s.final, top)
  BY <1>2, <1>8
<1>10. On(old.final, top)
  <2>1. On(old.final, source.fin) /\ OneChain(old.final, old.pos)
    BY <1>2, <1>3 DEF StreamContinues
  <2>2. On(old.final, source.tip)
    BY <1>2, <2>1, AncestorTransitive
  <2>3. ~ On(old.pos, old.final)
    BY <1>2, <1>4, <2>2, AncestorTransitive
  <2> QED BY <1>2, <1>8, <2>1, <2>2, <2>3 DEF OneChain
<1>11. s.phase = "tx" => On(s.tx.final, top)
  <2>1. SUFFICES ASSUME s.phase = "tx"
                 PROVE  On(s.tx.final, top)
    OBVIOUS
  <2>2. TransactionFits(s, db) /\ s.tx.final \in Ref
    BY <1>1, <1>2, <2>1 DEF ProcessFits, TxState
  <2>3. On(s.tx.final, BatchBase(s))
    BY <1>3, <2>1, <2>2 DEF TransactionFits, BatchBase
  <2>4. On(s.tx.final, old.pos)
    BY <1>2, <2>2, <2>3, AncestorTransitive
  <2>5. On(s.tx.final, source.fin)
    BY <1>1, <1>2, <2>1 DEF Steady
  <2>6. On(s.tx.final, source.tip)
    BY <2>2, <2>5, AncestorTransitive
  <2> QED BY <1>8, <2>2, <2>4, <2>6
<1>12. Height(db.status) > Height(old.pos) - ForkWindow
  <2>1. Height(old.pos) - Height(s.final) < ForkWindow
    BY DEF WindowReaches
  <2>2. Height(s.final) \in Int /\ ForkWindow \in Int
    BY <1>2, HeightType, ProcessorAssumption
  <2> QED BY <1>2, <1>5, <2>1, <2>2
<1>13. ASSUME NEW b \in Block, On(b, top), Height(b) >= Height(db.status)
       PROVE  \E j \in 1..Len(fork) : fork[j] = b
  <2>1. Height(b) \in Int /\ Height(db.status) \in Int /\ ForkWindow \in Int
    BY <1>2, HeightType, ProcessorAssumption DEF Ref
  <2>2. Height(b) > Height(old.pos) - ForkWindow
    BY <1>5, <1>12, <1>13, <2>1
  <2> QED BY <1>6, <1>13, <2>2
<1>14. proc'[p] = t
  BY <1>1, <1>2 DEF ProcessorState
<1> HIDE DEF old
<1>15. /\ stream \in StreamState /\ stream.fork = fork
       /\ stream.pos = old.pos /\ stream.blocks = old.blocks /\ stream.final = old.final
       /\ stream.updated = old.updated
  BY <1>2, <1>6 DEF StreamState
<1> HIDE DEF stream, s
<1>16. /\ t.stream = stream /\ t.heads = s.heads /\ t.final = s.final /\ t.tx = s.tx
       /\ t.phase = s.phase
  BY <1>2 DEF ProcessorState
<1> HIDE DEF t
<1>17. ForkFits(t, db)
  <2>1. t.stream.fork = fork /\ t.stream.pos = old.pos /\ t.stream.final = old.final
    BY <1>15, <1>16
  <2> QED BY <1>6, <1>9, <1>10, <1>11, <1>13, <1>16, <2>1 DEF ForkFits
<1>18. Steady(t, db, source)
  BY <1>1, <1>2, <1>3, <1>15, <1>17, SteadyStream DEF t
<1> QED BY <1>1, <1>14, <1>18

------------------------------------------------------------------------------
(***************************************************************************)
(* The life of a process.                                                   *)
(***************************************************************************)

\* A process that is down is as it should be.
LEMMA SteadyDown ==
    ASSUME NEW fault, NEW hot, NEW d, NEW n,
           ~ hot => d.hot = << >>
    PROVE  Steady(Down(fault, hot), d, n)
BY DEF Steady, Down, NoStream

\* Crash and Reconfigure
LEMMA SteadyRestarts ==
    ASSUME HotForGood, ProcessorInv, SteadyInv, NEW p \in Processor, Crash(p) \/ Reconfigure(p)
    PROVE  db' = db /\ source' = source /\ Steady(proc'[p], db, source)
<1> USE InvFacts
<1>1. Steady(proc[p], db, source)
  BY DEF SteadyInv
<1>2. CASE Crash(p)
  <2>1. /\ proc'[p] = Down("crash", proc[p].hot)
        /\ db' = db /\ source' = source
    BY <1>2 DEF Crash
  <2>2. ~ proc[p].hot => db.hot = << >>
    BY <1>1 DEF Steady
  <2> QED BY <2>1, <2>2, SteadyDown
<1>3. CASE Reconfigure(p)
  <2>1. /\ << proc[p].hot, ~ proc[p].hot >> \in Switches
        /\ proc'[p] = Down("none", ~ proc[p].hot)
        /\ db' = db /\ source' = source
    BY <1>3 DEF Reconfigure
  <2>2. << proc[p].hot, ~ proc[p].hot >> = << FALSE, TRUE >>
    BY <2>1 DEF HotForGood
  <2> DEFINE hot == ~ proc[p].hot
  <2>3. ~ hot => db.hot = << >>
    BY <2>2
  <2> HIDE DEF hot
  <2>4. Steady(Down("none", hot), db, source)
    BY <2>3, SteadyDown
  <2> QED BY <2>1, <2>4 DEF hot
<1> QED BY <1>2, <1>3

\* The heads connect() reads are all the mapped blocks above the finalized one.
LEMMA TablesComplete ==
    ASSUME NEW d, Sound(d)
    PROVE  Complete(Refs(d.hot), d.applied, Height(d.status))
<1>1. /\ d.status \in Ref /\ d.applied \in Seq(Block)
      /\ Len(d.hot) \in Nat /\ Settled(d) \in Nat
      /\ Len(d.applied) = Settled(d) + Len(d.hot)
  BY SoundType
<1>2. /\ Len(Refs(d.hot)) = Len(d.hot)
      /\ \A j \in 1..Len(d.hot) : /\ Refs(d.hot)[j] = d.applied[Settled(d) + j]
                                  /\ Settled(d) + j \in 1..Len(d.applied)
  BY TablesAreChain
<1>3. \A i, j \in 1..Len(d.applied) : i < j => Height(d.applied[i]) < Height(d.applied[j])
  BY DEF Sound, HeadReflected, Reflects, OnlyChain, Ascending
<1>4. SUFFICES ASSUME NEW i \in 1..Len(d.hot), NEW k \in 1..Len(d.applied),
                      Height(d.status) < Height(d.applied[k]),
                      Height(d.applied[k]) < Height(Refs(d.hot)[i])
               PROVE  \E m \in 1..(i - 1) : Refs(d.hot)[m] = d.applied[k]
  BY <1>2 DEF Complete
<1>5. /\ Height(d.status) \in Int
      /\ \A x \in 1..Len(d.applied) : Height(d.applied[x]) \in Int
  BY <1>1, HeightType DEF Ref
<1>6. ~(k <= Settled(d))
  BY <1>4, <1>5 DEF Sound, SplitAtFinal
<1>7. k < Settled(d) + i
  <2>1. SUFFICES ASSUME ~(k < Settled(d) + i)
                 PROVE  FALSE
    OBVIOUS
  <2>2. Settled(d) + i \in 1..Len(d.applied)
    BY <1>2
  <2>3. Height(d.applied[Settled(d) + i]) <= Height(d.applied[k])
    <3>1. CASE k = Settled(d) + i
      BY <1>5, <2>2, <3>1
    <3>2. CASE k > Settled(d) + i
      <4> DEFINE x == Settled(d) + i
      <4>1. x \in 1..Len(d.applied) /\ x < k
        BY <2>2, <3>2
      <4> HIDE DEF x
      <4>2. Height(d.applied[x]) < Height(d.applied[k])
        BY <1>3, <4>1
      <4> QED BY <1>5, <4>1, <4>2 DEF x
    <3> QED BY <1>1, <2>1, <3>1, <3>2
  <2>4. Height(Refs(d.hot)[i]) = Height(d.applied[Settled(d) + i])
    BY <1>2
  <2> QED BY <1>4, <1>5, <2>2, <2>3, <2>4
<1> DEFINE m == k - Settled(d)
<1>8. m \in 1..(i - 1) /\ m \in 1..Len(d.hot) /\ Settled(d) + m = k
  BY <1>1, <1>6, <1>7
<1> QED BY <1>2, <1>8

\* Start
LEMMA SteadyStart ==
    ASSUME ProcessorInv, SteadyInv, NEW p \in Processor, Start(p)
    PROVE  db'.status = db.status /\ source' = source /\ Steady(proc'[p], db', source)
<1> USE InvFacts
<1> DEFINE s == Connected(db, proc[p].hot)
           t == OpenStream(s)
<1>1. db' = RepairOrphans(db) /\ proc' = [proc EXCEPT ![p] = t] /\ source' = source
  BY DEF Start, Connected
<1>2. db'.status = db.status /\ db'.applied = db.applied /\ db'.hot = db.hot
  <2>1. db'.hot = db.hot
    BY <1>1, SoundType DEF RepairOrphans, DatabaseState, Sound
  <2> QED BY <1>1, <2>1, RepairSound
<1>3. /\ s \in ProcessorState /\ s.phase = "run" /\ MemoryIsChain(s, source)
      /\ s.fault = "none" /\ s.hot = proc[p].hot /\ StateHead(s) = HeadOf(db)
      /\ s.final = db.status /\ s.heads = Refs(db.hot)
  <2>1. proc[p].hot \in BOOLEAN
    BY DEF ProcessorState
  <2> QED BY <2>1, StartMemory
<1> HIDE DEF s
<1>4. /\ t.phase = "run" /\ t.fault = "none" /\ t.hot = proc[p].hot
      /\ t.final = db.status /\ t.heads = Refs(db.hot)
      /\ t.stream = [NoStream EXCEPT !.pos = HeadOf(db)]
  BY <1>3, OpenStreamFits
<1> HIDE DEF t
<1>5. /\ t.stream.pos = HeadOf(db) /\ t.stream.blocks = << >> /\ t.stream.fork = << >>
      /\ ~ t.stream.updated
  BY <1>4 DEF NoStream
<1>6. ~ proc[p].hot => db.hot = << >>
  BY DEF SteadyInv, Steady
<1>7. ~ t.hot => FinalStream(t, source)
  <2>1. SUFFICES ASSUME db.hot = << >>
                 PROVE  FinalStream(t, source)
    BY <1>4, <1>6
  <2>2. HeadOf(db) = db.status /\ Len(db.hot) = 0
    BY <2>1 DEF HeadOf, RefAt
  <2>3. t.heads = << >>
    BY <1>4, <2>2, TablesAreChain
  <2> QED BY <1>5, <2>2, <2>3 DEF FinalStream, SteadyInv
<1>8. ForkFits(t, db')
  BY <1>5 DEF ForkFits
<1>9. MemoryIsComplete(t, db')
  BY <1>2, <1>4, TablesComplete DEF MemoryIsComplete
<1>10. Steady(t, db', source)
  BY <1>2, <1>4, <1>6, <1>7, <1>8, <1>9 DEF Steady
<1>11. proc'[p] = t
  BY <1>1
<1> QED BY <1>1, <1>2, <1>10, <1>11

------------------------------------------------------------------------------
(***************************************************************************)
(* Transactions.                                                            *)
(***************************************************************************)

\* The finalized head of a transaction, for the process and the node.
LEMMA SubmittedFinalizedOn ==
    ASSUME NEW s \in ProcessorState, s.phase = "run", NEW n, n.tip \in Ref, n.fin \in Ref,
           MemoryIsChain(s, n), StreamContinues(s, n), On(s.final, n.fin),
           s.hot \/ On(s.stream.pos, n.fin)
    PROVE  /\ On(BatchFinalized(s), n.fin)
           /\ On(SubmittedFinalized(s), n.fin)
           /\ \A top \in Ref : On(s.final, top) /\ On(s.stream.final, top) /\ s.hot
                  => On(SubmittedFinalized(s), top)
<1> DEFINE blocks == s.stream.blocks
           big    == BatchFinalized(s)
           u      == CountUpTo(blocks, Height(big))
           fin    == SubmittedFinalized(s)
<1>1. /\ s.final \in Ref /\ s.stream.final \in Ref /\ s.stream.pos \in Ref
      /\ blocks \in Seq(Block) /\ StateHead(s) \in Ref
      /\ BatchBase(s) = StateHead(s)
      /\ blocks \in Deliveries(StateHead(s)) \cup {<< >>}
      /\ s.stream.pos = LastOf(StateHead(s), blocks)
      /\ On(s.stream.final, n.fin)
      /\ s.hot => OneChain(s.stream.final, s.stream.pos)
  <2>1. s.final \in Ref /\ s.stream.final \in Ref /\ s.stream.pos \in Ref /\ blocks \in Seq(Block)
    BY DEF ProcessorState, StreamState
  <2>2. StateHead(s) \in Ref
    BY StreamFacts
  <2>3. BatchBase(s) = StateHead(s)
    BY DEF BatchBase
  <2> QED BY <2>1, <2>2, <2>3 DEF StreamContinues
<1>2. big \in {s.final, s.stream.final} /\ big \in Ref /\ Height(big) \in Int
  BY <1>1, HeightType DEF BatchFinalized
<1>3. On(big, n.fin)
  BY <1>1, <1>2
<1>4. /\ u \in 0..Len(blocks)
      /\ \A i \in 1..u : Height(blocks[i]) <= Height(big)
  BY <1>1, <1>2, CountUpToWorks
<1>5. fin = IF u = 0 THEN big ELSE blocks[u]
  BY DEF SubmittedFinalized
<1> HIDE DEF big, u, fin
<1>6. ASSUME u # 0
      PROVE  /\ blocks[u] \in Ref /\ On(blocks[u], s.stream.pos)
             /\ Height(blocks[u]) <= Height(s.stream.final)
             /\ big = s.stream.final
  <2>1. u \in 1..Len(blocks) /\ u \in 1..u
    BY <1>1, <1>4, <1>6
  <2>2. /\ blocks[u] \in Ref /\ On(blocks[u], s.stream.pos)
        /\ Height(blocks[u]) > Height(StateHead(s))
    BY <1>1, <2>1, DeliveryFacts
  <2>3. Height(blocks[u]) <= Height(big)
    BY <1>4, <2>1
  <2>4. On(s.final, StateHead(s))
    BY DEF MemoryIsChain
  <2>5. Height(s.final) <= Height(StateHead(s))
    BY <1>1, <2>4, AncestorHeight
  <2>6. /\ Height(s.final) \in Int /\ Height(StateHead(s)) \in Int
        /\ Height(blocks[u]) \in Int
    BY <1>1, <2>2, HeightType
  <2>7. big # s.final
    BY <1>2, <2>2, <2>3, <2>5, <2>6
  <2> QED BY <1>2, <2>2, <2>3, <2>7
<1>7. ASSUME s.hot, u # 0
      PROVE  On(blocks[u], s.stream.final)
  <2>1. CASE On(s.stream.pos, s.stream.final)
    <3>1. On(blocks[u], s.stream.final)
      BY <1>1, <1>6, <1>7, <2>1, AncestorTransitive
    <3> QED BY <3>1
  <2>2. CASE On(s.stream.final, s.stream.pos)
    BY <1>1, <1>6, <1>7, <2>2, AncestorLinear
  <2> QED BY <1>1, <1>7, <2>1, <2>2 DEF OneChain
<1>8. On(fin, n.fin)
  <2>1. CASE u = 0
    BY <1>3, <1>5, <2>1
  <2>2. CASE u # 0 /\ s.hot
    BY <1>1, <1>5, <1>6, <1>7, <2>2, AncestorTransitive
  <2>3. CASE u # 0 /\ ~ s.hot
    BY <1>1, <1>5, <1>6, <2>3, AncestorTransitive
  <2> QED BY <2>1, <2>2, <2>3
<1>9. ASSUME NEW top \in Ref, On(s.final, top), On(s.stream.final, top), s.hot
      PROVE  On(fin, top)
  <2>1. CASE u = 0
    BY <1>2, <1>5, <1>9, <2>1
  <2>2. CASE u # 0
    BY <1>1, <1>5, <1>6, <1>7, <1>9, <2>2, AncestorTransitive
  <2> QED BY <2>1, <2>2
<1> QED BY <1>3, <1>8, <1>9 DEF big, fin

\* ... is not above the last block of it.
LEMMA SubmittedFinalizedLow ==
    ASSUME NEW s \in ProcessorState, s.phase = "run", NEW n, n.tip \in Ref,
           MemoryIsChain(s, n), StreamContinues(s, n),
           s.stream.blocks = << >> => Height(s.stream.final) <= Height(s.stream.pos)
    PROVE  Height(SubmittedFinalized(s)) <= Height(LastOf(StateHead(s), s.stream.blocks))
<1> DEFINE blocks == s.stream.blocks
           big    == BatchFinalized(s)
           u      == CountUpTo(blocks, Height(big))
           fin    == SubmittedFinalized(s)
           last   == LastOf(StateHead(s), blocks)
<1>1. /\ s.final \in Ref /\ s.stream.final \in Ref /\ s.stream.pos \in Ref
      /\ blocks \in Seq(Block) /\ StateHead(s) \in Ref
      /\ blocks \in Deliveries(StateHead(s)) \cup {<< >>}
      /\ s.stream.pos = last
  <2>1. s.final \in Ref /\ s.stream.final \in Ref /\ s.stream.pos \in Ref /\ blocks \in Seq(Block)
    BY DEF ProcessorState, StreamState
  <2>2. StateHead(s) \in Ref
    BY StreamFacts
  <2>3. BatchBase(s) = StateHead(s)
    BY DEF BatchBase
  <2> QED BY <2>1, <2>2, <2>3 DEF StreamContinues
<1>2. big \in {s.final, s.stream.final} /\ big \in Ref /\ Height(big) \in Int
  BY <1>1, HeightType DEF BatchFinalized
<1>0. Len(blocks) \in Nat
  <2> HIDE DEF blocks
  <2> QED BY <1>1
<1>3. /\ u \in 0..Len(blocks) /\ Len(blocks) \in Nat
      /\ u < Len(blocks) => Height(blocks[u + 1]) > Height(big)
  <2> HIDE DEF big, blocks
  <2> QED BY <1>0, <1>1, <1>2, CountUpToWorks
<1>4. fin = IF u = 0 THEN big ELSE blocks[u]
  BY DEF SubmittedFinalized
<1>5. last \in Ref /\ Height(last) \in Int
  BY <1>1, HeightType
<1>6. On(s.final, StateHead(s)) /\ Height(s.final) <= Height(StateHead(s))
  BY <1>1, AncestorHeight DEF MemoryIsChain
<1> HIDE DEF u, fin, big
<1>7. CASE u # 0
  <2>1. u \in 1..Len(blocks)
    BY <1>3, <1>7
  <2>2. blocks[u] \in Ref /\ On(blocks[u], last)
    BY <1>1, <2>1, DeliveryFacts
  <2> QED BY <1>4, <1>5, <1>7, <2>2, AncestorHeight DEF fin
<1>8. CASE u = 0 /\ blocks # << >>
  <2>1. 1 \in 1..Len(blocks)
    BY <1>1, <1>3, <1>8
  <2>2. blocks[1] \in Ref /\ On(blocks[1], last)
    BY <1>1, <2>1, DeliveryFacts
  <2>3. Height(blocks[1]) > Height(big)
    BY <1>3, <1>8, <2>1
  <2>4. Height(blocks[1]) <= Height(last) /\ Height(blocks[1]) \in Int
    BY <1>5, <2>2, AncestorHeight, HeightType
  <2>5. Height(big) <= Height(last)
    BY <1>2, <1>5, <2>3, <2>4
  <2> QED BY <1>4, <1>8, <2>5 DEF fin
<1>9. CASE u = 0 /\ blocks = << >>
  <2>1. last = StateHead(s)
    BY <1>9 DEF LastOf
  <2>2. Height(big) <= Height(last)
    BY <1>1, <1>2, <1>6, <1>9, <2>1
  <2> QED BY <1>4, <1>9, <2>2 DEF fin
<1> QED BY <1>7, <1>8, <1>9

\* A transaction of a process that has the database for itself passes its
\* assertions.
LEMMA NoFault ==
    ASSUME NEW d, NEW hot \in BOOLEAN, NEW tx, tx.base \in Ref, IsBase(d, tx.base),
           tx.blocks \in Deliveries(tx.base) \cup {<< >>},
           hot => Height(tx.final) <= Height(LastOf(tx.base, tx.blocks)),
           ~ hot => tx.base = d.status /\ tx.blocks # << >>
    PROVE  TxFault(d, hot, tx) = "none"
<1> DEFINE blocks == tx.blocks
           last   == LastOf(tx.base, blocks)
<1>1. /\ blocks \in Seq(Block) /\ Len(blocks) \in Nat /\ Ascending(blocks)
      /\ \A i \in 1..Len(blocks) : Height(blocks[i]) > Height(tx.base)
      /\ blocks # << >> => Len(blocks) > 0 /\ last = blocks[Len(blocks)]
  BY DeliveryFacts
<1>2. Ascending(<< tx.base >> \o blocks)
  <2> DEFINE one == << tx.base >>
             c   == one \o blocks
  <2>1. one \in Seq(Ref) /\ blocks \in Seq(Ref) /\ Len(one) = 1 /\ one[1] = tx.base
    BY <1>1 DEF Ref
  <2> HIDE DEF one
  <2>2. /\ Len(c) = 1 + Len(blocks)
        /\ c[1] = tx.base
        /\ \A j \in 1..Len(blocks) : c[1 + j] = blocks[j]
    <3>1. 1 \in 1..Len(one)
      BY <2>1
    <3> HIDE DEF blocks
    <3> QED BY <2>1, <3>1, ConcatPieces
  <2> HIDE DEF c
  <2>3. ASSUME NEW i \in 1..Len(c), NEW j \in 1..Len(c), i < j
        PROVE  Height(c[i]) < Height(c[j])
    <3>1. j - 1 \in 1..Len(blocks) /\ 1 + (j - 1) = j
      BY <1>1, <2>2, <2>3
    <3>2. c[j] = blocks[j - 1]
      BY <2>2, <3>1
    <3>3. CASE i = 1
      BY <1>1, <2>2, <3>1, <3>2, <3>3
    <3>4. CASE i # 1
      <4>1. i - 1 \in 1..Len(blocks) /\ 1 + (i - 1) = i /\ i - 1 < j - 1
        BY <1>1, <2>2, <2>3, <3>4
      <4>2. c[i] = blocks[i - 1]
        BY <2>2, <4>1
      <4> QED BY <1>1, <3>1, <3>2, <4>1, <4>2 DEF Ascending
    <3> QED BY <3>3, <3>4
  <2> QED BY <2>3 DEF Ascending, c, one
<1>3. hot => TransactHot2Asserts(d, HotInfo(tx))
  BY <1>2 DEF TransactHot2Asserts, HotInfo
<1>4. ~ hot => TransactAsserts(d, FinalInfo(tx))
  BY <1>1 DEF TransactAsserts, FinalInfo
<1> QED BY <1>3, <1>4, Zenon DEF TxFault

\* A finalized head above all the blocks of a batch is not one the tables take.
LEMMA AheadFails ==
    ASSUME NEW d, NEW s \in ProcessorState, s.phase = "run", NEW n, MemoryIsChain(s, n),
           NEW tx, tx.final = SubmittedFinalized(s), tx.base = StateHead(s),
           tx.base \in Ref, IsBase(d, tx.base),
           tx.blocks = << >>, s.stream.blocks = << >>,
           Height(s.stream.final) > Height(StateHead(s))
    PROVE  TxFault(d, TRUE, tx) = "assert"
<1>1. /\ s.final \in Ref /\ s.stream.final \in Ref
      /\ Height(s.final) \in Int /\ Height(s.stream.final) \in Int
      /\ Height(StateHead(s)) \in Int
  BY HeightType DEF ProcessorState, StreamState
<1>2. Height(s.final) <= Height(StateHead(s))
  BY <1>1, AncestorHeight DEF MemoryIsChain
<1>3. BatchFinalized(s) = s.stream.final
  BY <1>1, <1>2 DEF BatchFinalized
<1>4. tx.final = s.stream.final
  <2> DEFINE none == << >>
             u    == CountUpTo(none, Height(s.stream.final))
  <2>1. none \in Seq(Block) /\ Len(none) = 0
    OBVIOUS
  <2> HIDE DEF none
  <2>2. u = 0
    <3>1. u \in 0..Len(none)
      BY <1>1, <2>1, CountUpToWorks
    <3> HIDE DEF u
    <3> QED BY <2>1, <3>1
  <2> HIDE DEF u
  <2> QED BY <1>3, <2>2 DEF SubmittedFinalized, u, none
<1>5. LastOf(tx.base, tx.blocks) = tx.base
  BY DEF LastOf
<1>6. ~ TransactHot2Asserts(d, HotInfo(tx))
  BY <1>1, <1>4, <1>5 DEF TransactHot2Asserts, HotInfo
<1> QED BY <1>6, Zenon DEF TxFault

\* What FailsOnlyAhead says of a step of one process.
OnlyAhead(s, t) ==
    s.phase # "down" /\ t.phase = "down" /\ t.fault \notin {"crash", "aborted"} =>
        /\ t.fault = "assert"
        /\ s.phase = "run" /\ s.hot
        /\ s.stream.blocks = << >>
        /\ Height(s.stream.final) > Height(StateHead(s))

\* TakeBatch
LEMMA SteadyTake ==
    ASSUME ProcessorInv, LoneInv, SteadyInv, NEW p \in Processor, TakeBatch(p)
    PROVE  /\ db' = db /\ source' = source
           /\ Steady(proc'[p], db, source)
           /\ OnlyAhead(proc[p], proc'[p])
<1> USE InvFacts
<1> DEFINE s      == proc[p]
           blocks == s.stream.blocks
           none   == << >>
           stream == [s.stream EXCEPT !.blocks = none, !.updated = FALSE]
           rest   == [s EXCEPT !.stream.blocks = << >>, !.stream.updated = FALSE]
           tx     == [base |-> StateHead(s), final |-> SubmittedFinalized(s),
                      blocks |-> blocks, nonce |-> 0, retries |-> MaxRetries,
                      slices |-> << >>]
           idle   == blocks = << >> /\ (s.stream.final = Origin \/ ~ s.hot)
           ahead  == /\ s.hot /\ blocks = << >>
                     /\ Height(s.stream.final) > Height(StateHead(s))
           bad    == \/ ~ Ascending(<< StateHead(s) >> \o blocks)
                     \/ /\ ~ s.hot
                        /\ CountUpTo(blocks, Height(BatchFinalized(s))) < Len(blocks)
           t      == IF idle THEN rest
                     ELSE IF bad THEN Down("assert", s.hot) ELSE Attempt(rest, tx)
<1>1. /\ s.phase = "run"
      /\ blocks # << >> \/ s.stream.updated
      /\ proc' = [proc EXCEPT ![p] = t]
      /\ db' = db /\ source' = source
  BY DEF TakeBatch
<1>2. /\ s \in ProcessorState /\ s.stream \in StreamState /\ s.hot \in BOOLEAN
      /\ s.final = db.status /\ s.final \in Ref /\ On(s.final, source.fin)
      /\ IsBase(db, StateHead(s)) /\ StateHead(s) \in Ref
      /\ ~ s.hot => StateHead(s) = s.final
      /\ Steady(s, db, source)
  BY <1>1, SteadyFacts
<1>3. /\ MemoryIsChain(s, source) /\ StreamContinues(s, source)
      /\ s.stream.pos \in Ref /\ s.stream.final \in Ref /\ blocks \in Seq(Block)
      /\ BatchBase(s) = StateHead(s)
      /\ blocks \in Deliveries(StateHead(s)) \cup {<< >>}
      /\ s.stream.pos = LastOf(StateHead(s), blocks)
  <2>1. /\ MemoryIsChain(s, source) /\ StreamContinues(s, source)
        /\ s.stream.pos \in Ref /\ s.stream.final \in Ref /\ blocks \in Seq(Block)
    BY <1>1, Received
  <2>2. BatchBase(s) = StateHead(s)
    BY <1>1 DEF BatchBase
  <2> QED BY <2>1, <2>2 DEF StreamContinues
<1>4. /\ ~ s.hot => FinalStream(s, source)
      /\ ForkFits(s, db) /\ MemoryIsComplete(s, db)
      /\ ~ s.hot => db.hot = << >>
  BY <1>1, <1>2 DEF Steady
<1>5. rest = [s EXCEPT !.stream = stream]
  BY <1>2, Zenon DEF ProcessorState
<1>6. /\ stream \in StreamState
      /\ stream.pos = s.stream.pos /\ stream.blocks = none /\ stream.updated = FALSE
      /\ stream.final = s.stream.final /\ stream.fork = s.stream.fork
  <2>1. none \in Seq(Block)
    OBVIOUS
  <2> HIDE DEF none, s
  <2> QED BY <1>2, <2>1 DEF StreamState
<1> HIDE DEF s, stream, rest, tx
<1>7. /\ rest \in ProcessorState
      /\ rest.phase = "run" /\ rest.hot = s.hot /\ rest.final = s.final
      /\ rest.heads = s.heads /\ rest.stream = stream
  BY <1>1, <1>2, <1>5, <1>6 DEF ProcessorState
<1>8. proc'[p] = t
  BY <1>1
<1>9. CASE idle
  <2>1. t = rest
    BY <1>9
  <2>2. ~ s.hot => FinalStream(rest, source)
    BY <1>4, <1>6, <1>7 DEF FinalStream, none
  <2>3. ForkFits(rest, db)
    BY <1>1, <1>4, <1>6, <1>7 DEF ForkFits
  <2>4. MemoryIsComplete(rest, db)
    BY <1>1, <1>4, <1>7 DEF MemoryIsComplete
  <2>5. Steady(rest, db, source)
    BY <1>2, <1>4, <1>7, <2>2, <2>3, <2>4 DEF Steady
  <2>6. OnlyAhead(s, rest)
    BY <1>7 DEF OnlyAhead
  <2> QED BY <1>1, <1>8, <2>1, <2>5, <2>6 DEF s
<1>10. /\ SubmittedFinalized(s) \in Ref
       /\ Height(s.final) <= Height(BatchFinalized(s)) /\ BatchFinalized(s) \in Ref
  BY <1>1, <1>2, <1>3, SubmittedFinalizedWorks
<1>11. /\ On(SubmittedFinalized(s), source.fin)
       /\ \A top \in Ref : On(s.final, top) /\ On(s.stream.final, top) /\ s.hot
              => On(SubmittedFinalized(s), top)
  <2>1. s.hot \/ On(s.stream.pos, source.fin)
    BY <1>2, <1>4 DEF FinalStream
  <2> QED BY <1>1, <1>2, <1>3, <2>1, SubmittedFinalizedOn
<1>12. ~ s.hot => CountUpTo(blocks, Height(BatchFinalized(s))) = Len(blocks)
  <2>1. SUFFICES ASSUME ~ s.hot
                 PROVE  CountUpTo(blocks, Height(BatchFinalized(s))) = Len(blocks)
    OBVIOUS
  <2>2. Height(BatchFinalized(s)) \in Int /\ Height(s.stream.final) \in Int
        /\ Height(s.final) \in Int
    BY <1>2, <1>3, <1>10, HeightType
  <2>3. Height(s.stream.final) <= Height(BatchFinalized(s))
    BY <2>2 DEF BatchFinalized
  <2>4. ASSUME NEW i \in 1..Len(blocks)
        PROVE  Height(blocks[i]) <= Height(BatchFinalized(s))
    <3>1. blocks # << >>
      BY <2>4
    <3>2. Height(s.stream.pos) <= Height(s.stream.final)
      BY <1>2, <1>4, <2>1, <3>1 DEF FinalStream
    <3>3. blocks[i] \in Ref /\ On(blocks[i], s.stream.pos)
      BY <1>2, <1>3, <2>4, DeliveryFacts
    <3>4. /\ Height(blocks[i]) <= Height(s.stream.pos)
          /\ Height(blocks[i]) \in Int /\ Height(s.stream.pos) \in Int
      BY <1>3, <3>3, AncestorHeight, HeightType
    <3> HIDE DEF blocks
    <3> QED BY <2>2, <2>3, <3>2, <3>4
  <2> HIDE DEF blocks
  <2> QED BY <1>3, <2>2, <2>4, CountUpToAll
<1>13. /\ tx \in TxState
       /\ tx.base = StateHead(s) /\ tx.final = SubmittedFinalized(s)
       /\ tx.blocks = blocks /\ tx.slices = << >>
  <2>1. MaxRetries \in 0..MaxRetries
    BY ProcessorAssumption
  <2> QED BY <1>2, <1>3, <1>10, <2>1 DEF tx, TxState
<1>14. CASE ~ idle /\ ahead
  <2>1. TxFault(db, s.hot, tx) = "assert"
    <3>1. /\ s.hot = TRUE /\ s.stream.blocks = << >> /\ tx.blocks = << >>
          /\ Height(s.stream.final) > Height(StateHead(s))
      BY <1>2, <1>13, <1>14
    <3>2. TxFault(db, TRUE, tx) = "assert"
      <4> HIDE DEF blocks, ahead, idle
      <4> QED BY <1>1, <1>2, <1>3, <1>13, <3>1, AheadFails
    <3> QED BY <3>1, <3>2
  <2>2. Attempt(rest, tx) = Down("assert", s.hot)
    BY <1>7, <2>1 DEF Attempt
  <2>3. t = Down("assert", s.hot)
    BY <1>14, <2>2
  <2>4. Steady(t, db, source)
    BY <1>4, <2>3, SteadyDown
  <2>5. OnlyAhead(s, t)
    <3>1. t.fault = "assert"
      BY <2>3 DEF Down
    <3> HIDE DEF t
    <3> QED BY <1>1, <1>14, <3>1 DEF OnlyAhead
  <2> QED BY <1>1, <1>8, <2>4, <2>5 DEF s
<1>15. CASE ~ idle /\ ~ ahead
  <2>1. s.hot => Height(SubmittedFinalized(s)) <= Height(LastOf(StateHead(s), blocks))
    <3>1. SUFFICES ASSUME s.hot
                   PROVE  Height(SubmittedFinalized(s)) <= Height(LastOf(StateHead(s), blocks))
      OBVIOUS
    <3>2. blocks = << >> => Height(s.stream.final) <= Height(s.stream.pos)
      <4>1. Height(s.stream.final) \in Int /\ Height(StateHead(s)) \in Int
        BY <1>2, <1>3, HeightType
      <4>2. blocks = << >> => s.stream.pos = StateHead(s)
        BY <1>3 DEF LastOf
      <4> QED BY <1>15, <3>1, <4>1, <4>2
    <3> QED BY <1>1, <1>2, <1>3, <3>2, SubmittedFinalizedLow
  <2>2. ~ s.hot => StateHead(s) = db.status /\ blocks # << >>
    BY <1>2, <1>15
  <2>3. TxFault(db, s.hot, tx) = "none"
    <3> HIDE DEF blocks
    <3> QED BY <1>2, <1>3, <1>13, <2>1, <2>2, NoFault
  <2>4. ~ bad
    <3> DEFINE big == CountUpTo(blocks, Height(BatchFinalized(s)))
    <3>1. Len(blocks) \in Nat
      BY <1>3
    <3>2. ~(~ s.hot /\ big < Len(blocks))
      <4> HIDE DEF blocks
      <4> QED BY <1>12, <3>1
    <3>3. Ascending(<< StateHead(s) >> \o blocks)
      <4>1. CASE s.hot
        <5>1. TransactHot2Asserts(db, HotInfo(tx))
          BY <2>3, <4>1, Zenon DEF TxFault
        <5> QED BY <1>13, <5>1 DEF TransactHot2Asserts, HotInfo
      <4>2. CASE ~ s.hot
        <5>1. TxFault(db, TRUE, tx) = "none"
          <6>1. Height(SubmittedFinalized(s)) <= Height(LastOf(StateHead(s), blocks))
            <7>1. blocks # << >> /\ Height(s.stream.pos) <= Height(s.stream.final)
              BY <1>2, <1>4, <2>2, <4>2 DEF FinalStream
            <7> QED BY <1>1, <1>2, <1>3, <7>1, SubmittedFinalizedLow
          <6>2. TRUE \in BOOLEAN
            OBVIOUS
          <6> HIDE DEF blocks
          <6> QED BY <1>2, <1>3, <1>13, <6>1, <6>2, NoFault
        <5>2. TransactHot2Asserts(db, HotInfo(tx))
          BY <5>1, Zenon DEF TxFault
        <5> QED BY <1>13, <5>2 DEF TransactHot2Asserts, HotInfo
      <4> QED BY <4>1, <4>2
    <3> QED BY <3>2, <3>3
  <2>5. t = Attempt(rest, tx)
    BY <1>15, <2>4
  <2> HIDE DEF t, bad, idle
  <2>6. PICK next \in TxState : Attempted(rest, tx, t, next)
    <3>1. db.nonce \in Nat
      OBVIOUS
    <3> QED BY <1>7, <1>13, <2>3, <2>5, <3>1, AttemptWorks
  <2>7. /\ next.base = tx.base /\ next.final = tx.final
        /\ next.blocks = tx.blocks /\ next.slices = tx.slices
        /\ t.phase = "tx" /\ t.tx = next /\ t.hot = s.hot
        /\ t.final = s.final /\ t.heads = s.heads /\ t.stream = stream
    BY <1>7, <2>6 DEF Attempted
  <2>8. OnlyAhead(s, t)
    BY <2>7 DEF OnlyAhead
  <2>9. ~ s.hot => FinalStream(t, source)
    BY <1>4, <1>6, <2>7 DEF FinalStream, none
  <2>10. ForkFits(t, db)
    <3> DEFINE fork == s.stream.fork
               top  == fork[Len(fork)]
    <3>1. SUFFICES ASSUME fork # << >>
                   PROVE  On(t.tx.final, top)
      BY <1>4, <1>6, <2>7 DEF ForkFits
    <3>2. s.hot
      BY <1>2, <1>4, <3>1 DEF FinalStream
    <3>3. On(s.final, top) /\ On(s.stream.final, top)
      BY <1>4, <3>1 DEF ForkFits
    <3>4. top \in Ref
      <4>1. fork \in Seq(Block)
        BY <1>2 DEF StreamState
      <4>2. Len(fork) \in 1..Len(fork)
        <5> HIDE DEF fork
        <5> QED BY <3>1, <4>1
      <4> HIDE DEF fork
      <4> QED BY <4>1, <4>2 DEF Ref
    <3> QED BY <1>11, <1>13, <2>7, <3>2, <3>3, <3>4
  <2>11. MemoryIsComplete(t, db)
    <3>1. Len(t.tx.slices) = 0
      BY <1>13, <2>7
    <3> QED BY <1>4, <2>7, <3>1, NothingComplete DEF MemoryIsComplete
  <2>12. Steady(t, db, source)
    BY <1>2, <1>4, <1>11, <1>13, <2>7, <2>9, <2>10, <2>11 DEF Steady
  <2> QED BY <1>1, <1>8, <2>8, <2>12 DEF s
<1> QED BY <1>9, <1>14, <1>15

\* The heads of the slices of a transaction leave out none of its blocks.
LEMMA SliceHeadsComplete ==
    ASSUME Ungrouped, NEW tx, tx.base \in Ref, tx.final \in Ref,
           tx.blocks \in Deliveries(tx.base) \cup {<< >>}
    PROVE  Complete(SliceHeads(tx), tx.blocks, Height(tx.final))
<1> DEFINE blocks == tx.blocks
           h == Height(tx.final)
           u == CountUpTo(blocks, h)
           S == SliceHeads(tx)
<1>1. /\ blocks \in Seq(Block) /\ Len(blocks) \in Nat /\ Ascending(blocks)
      /\ \A i \in 1..Len(blocks) : blocks[i] \in Ref
      /\ h \in Int
  BY DeliveryFacts, HeightType
<1>2. /\ u \in 0..Len(blocks) /\ S \in Seq(Block) /\ Len(S) = Len(blocks) - u
      /\ \A j \in 1..(Len(blocks) - u) : S[j] = blocks[u + j]
  BY SliceHeadsWork
<1> HIDE DEF blocks, h, S
<1>3. \A i \in 1..u : Height(blocks[i]) <= h
  BY <1>1, CountUpToWorks
<1> HIDE DEF u
<1>4. \A i, j \in 1..Len(blocks) : i < j => Height(blocks[i]) < Height(blocks[j])
  BY <1>1 DEF Ascending
<1>5. \A i \in 1..Len(blocks) : Height(blocks[i]) \in Int
  BY <1>1, HeightType
<1>6. ASSUME NEW i \in 1..Len(S), NEW k \in 1..Len(blocks),
             h < Height(blocks[k]), Height(blocks[k]) < Height(S[i])
      PROVE  \E m \in 1..(i - 1) : S[m] = blocks[k]
  <2> DEFINE x == u + i
  <2>1. x \in 1..Len(blocks) /\ S[i] = blocks[x]
    BY <1>1, <1>2
  <2> HIDE DEF x
  <2>2. k < x
    <3>1. CASE k = x
      BY <1>5, <1>6, <2>1, <3>1
    <3>2. CASE x < k
      BY <1>4, <1>5, <1>6, <2>1, <3>2
    <3> QED BY <1>1, <2>1, <3>1, <3>2
  <2>3. ~(k \in 1..u)
    BY <1>1, <1>3, <1>5, <1>6
  <2> DEFINE m == k - u
  <2>4. m \in 1..(i - 1) /\ m \in 1..(Len(blocks) - u) /\ u + m = k
    BY <1>1, <1>2, <2>1, <2>2, <2>3 DEF x
  <2> QED BY <1>2, <2>4
<1>7. Complete(S, blocks, h)
  BY <1>6 DEF Complete
<1> QED BY <1>7 DEF S, blocks, h

\* Abort
LEMMA SteadyAbort ==
    ASSUME Ungrouped, ProcessorInv, LoneInv, SteadyInv, NEW p \in Processor, NEW n \in Nat,
           Abort(p, n)
    PROVE  /\ db' = db /\ source' = source
           /\ Steady(proc'[p], db, source)
           /\ proc'[p].phase = "tx" \/ proc'[p].fault = "aborted"
<1> USE InvFacts
<1> DEFINE s  == proc[p]
           more == SubSeq(SliceHeads(s.tx), 1, n)
           tx == [s.tx EXCEPT !.retries = @ - 1, !.slices = @ \o more]
           t  == IF s.tx.retries = 0 THEN Down("aborted", s.hot) ELSE Attempt(s, tx)
<1>1. /\ s.phase = "tx"
      /\ n \in 0..(IF s.hot THEN Len(SliceHeads(s.tx)) ELSE 0)
      /\ proc' = [proc EXCEPT ![p] = t]
      /\ db' = db /\ source' = source
  BY DEF Abort
<1>2. /\ s \in ProcessorState /\ s.hot \in BOOLEAN /\ s.tx \in TxState
      /\ s.final = db.status /\ s.final \in Ref
      /\ IsBase(db, StateHead(s)) /\ StateHead(s) \in Ref
      /\ ~ s.hot => StateHead(s) = s.final
      /\ Steady(s, db, source)
  BY <1>1, SteadyFacts
<1>3. TransactionFits(s, db)
  BY <1>1 DEF ProcessFits
<1>4. /\ ~ s.hot => FinalStream(s, source)
      /\ ForkFits(s, db) /\ MemoryIsComplete(s, db) /\ On(s.tx.final, source.fin)
      /\ ~ s.hot => db.hot = << >>
  BY <1>1, <1>2 DEF Steady
<1> HIDE DEF s
<1>5. /\ s.tx.base \in Ref /\ s.tx.final \in Ref /\ s.tx.slices \in Seq(Block)
      /\ s.tx.retries \in 0..MaxRetries /\ s.tx.base = StateHead(s)
      /\ s.tx.blocks \in Deliveries(s.tx.base) \cup {<< >>}
      /\ ~ s.hot => s.tx.blocks # << >>
      /\ s.hot => On(s.tx.final, LastOf(s.tx.base, s.tx.blocks))
  BY <1>2, <1>3 DEF TxState, TransactionFits
<1> DEFINE S == SliceHeads(s.tx)
           h == Height(s.tx.final)
<1>6. S \in Seq(Block) /\ Complete(S, s.tx.blocks, h)
  BY <1>5, SliceHeadsWork, SliceHeadsComplete
<1> HIDE DEF S, h
<1>7. n \in 0..Len(S)
  <2>1. Len(S) \in Nat
    BY <1>6
  <2> QED BY <1>1, <2>1 DEF S
<1>8. more \in Seq(Block) /\ Complete(more, s.tx.blocks, h)
  <2>1. more = SubSeq(S, 1, n)
    BY DEF S
  <2> HIDE DEF more
  <2> QED BY <1>6, <1>7, <2>1, CompletePrefix
<1> HIDE DEF more
<1> DEFINE slices == s.tx.slices \o more
<1>9. slices \in Seq(Block) /\ Complete(slices, s.tx.blocks, h)
  <2>1. Complete(s.tx.slices, s.tx.blocks, h)
    BY <1>1, <1>4 DEF MemoryIsComplete, h
  <2> QED BY <1>5, <1>8, <2>1, CompleteConcat
<1> HIDE DEF slices
<1>10. CASE s.tx.retries = 0
  <2>1. proc'[p] = Down("aborted", s.hot)
    BY <1>1, <1>10
  <2>2. proc'[p].fault = "aborted"
    BY <2>1 DEF Down
  <2> QED BY <1>1, <1>4, <2>1, <2>2, SteadyDown
<1>11. CASE s.tx.retries # 0
  <2>1. t = Attempt(s, tx)
    BY <1>11
  <2>2. /\ tx \in TxState
        /\ tx.base = s.tx.base /\ tx.final = s.tx.final
        /\ tx.blocks = s.tx.blocks /\ tx.slices = slices
    <3>1. s.tx.retries - 1 \in 0..MaxRetries
      <4> DEFINE left == s.tx.retries
      <4>1. left \in 0..MaxRetries /\ left # 0 /\ MaxRetries \in Nat
        BY <1>5, <1>11, ProcessorAssumption
      <4> HIDE DEF left
      <4>2. left - 1 \in 0..MaxRetries
        BY <4>1
      <4> QED BY <4>2 DEF left
    <3>2. tx = [s.tx EXCEPT !.retries = s.tx.retries - 1, !.slices = slices]
      BY <1>2 DEF TxState, slices
    <3> HIDE DEF tx
    <3> QED BY <1>2, <1>9, <3>1, <3>2 DEF TxState
  <2> HIDE DEF tx
  <2>3. TxFault(db, s.hot, tx) = "none"
    <3>1. s.hot => Height(tx.final) <= Height(LastOf(tx.base, tx.blocks))
      <4>1. LastOf(s.tx.base, s.tx.blocks) \in Ref
        BY <1>5, DeliveryFacts
      <4> QED BY <1>5, <2>2, <4>1, AncestorHeight
    <3> QED BY <1>2, <1>5, <2>2, <3>1, NoFault
  <2>4. PICK next \in TxState : Attempted(s, tx, t, next)
    <3>1. db.nonce \in Nat
      OBVIOUS
    <3> HIDE DEF t
    <3> QED BY <1>2, <2>1, <2>2, <2>3, <3>1, AttemptWorks
  <2>5. proc'[p] = t
    BY <1>1
  <2> HIDE DEF t
  <2>6. /\ next.base = tx.base /\ next.final = tx.final
        /\ next.blocks = tx.blocks /\ next.slices = tx.slices
        /\ t.phase = "tx" /\ t.tx = next /\ t.hot = s.hot
        /\ t.final = s.final /\ t.heads = s.heads /\ t.stream = s.stream
    BY <2>4 DEF Attempted
  <2>7. FinalStream(s, source) => FinalStream(t, source)
    BY <2>6 DEF FinalStream
  <2>8. ForkFits(t, db)
    BY <1>1, <1>4, <2>2, <2>6 DEF ForkFits
  <2>9. MemoryIsComplete(t, db)
    BY <1>4, <1>9, <2>2, <2>6 DEF MemoryIsComplete, h
  <2>10. Steady(t, db, source)
    BY <1>2, <1>4, <2>2, <2>6, <2>7, <2>8, <2>9 DEF Steady
  <2> QED BY <1>1, <2>5, <2>6, <2>10
<1> QED BY <1>10, <1>11

\* Completeness over two kinds of blocks.
LEMMA CompleteUnion ==
    ASSUME NEW noted, NEW low, NEW a, NEW b, NEW c,
           Complete(noted, a, low), Complete(noted, b, low),
           \A k \in 1..Len(c) : Maps(a, c[k]) \/ Maps(b, c[k])
    PROVE  Complete(noted, c, low)
<1>1. ASSUME NEW i \in 1..Len(noted), NEW k \in 1..Len(c),
             low < Height(c[k]), Height(c[k]) < Height(noted[i])
      PROVE  \E m \in 1..(i - 1) : noted[m] = c[k]
  <2>1. CASE Maps(a, c[k])
    <3>1. PICK n \in 1..Len(a) : a[n] = c[k]
      BY <2>1, Zenon DEF Maps
    <3> QED BY <1>1, <3>1, Zenon DEF Complete
  <2>2. CASE Maps(b, c[k])
    <3>1. PICK n \in 1..Len(b) : b[n] = c[k]
      BY <2>2, Zenon DEF Maps
    <3> QED BY <1>1, <3>1, Zenon DEF Complete
  <2> QED BY <1>1, <2>1, <2>2, Zenon
<1> QED BY <1>1, Zenon DEF Complete

\* What is not below anything noted down is not missing.
LEMMA CompleteAbove ==
    ASSUME NEW noted, NEW low, NEW blocks,
           \A i \in 1..Len(noted), k \in 1..Len(blocks) :
               ~(Height(blocks[k]) < Height(noted[i]))
    PROVE  Complete(noted, blocks, low)
BY DEF Complete

\* What has all the blocks may be followed by anything.
LEMMA CompleteFollowed ==
    ASSUME NEW a \in Seq(Block), NEW c \in Seq(Block), NEW blocks, NEW low,
           Complete(a, blocks, low),
           \A k \in 1..Len(blocks) : low < Height(blocks[k]) => Maps(a, blocks[k])
    PROVE  /\ a \o c \in Seq(Block)
           /\ Complete(a \o c, blocks, low)
           /\ \A k \in 1..Len(blocks) : low < Height(blocks[k]) => Maps(a \o c, blocks[k])
<1> DEFINE all == a \o c
<1>1. /\ Len(all) = Len(a) + Len(c) /\ Len(a) \in Nat /\ Len(c) \in Nat
      /\ all \in Seq(Block)
      /\ \A i \in 1..Len(a) : all[i] = a[i] /\ i \in 1..Len(all)
  BY ConcatPieces
<1> HIDE DEF all
<1>2. \A b : Maps(a, b) => Maps(all, b)
  BY <1>1 DEF Maps
<1>3. ASSUME NEW i \in 1..Len(all), NEW k \in 1..Len(blocks),
             low < Height(blocks[k]), Height(blocks[k]) < Height(all[i])
      PROVE  \E m \in 1..(i - 1) : all[m] = blocks[k]
  <2>1. CASE i <= Len(a)
    <3>1. i \in 1..Len(a) /\ all[i] = a[i]
      BY <1>1, <2>1
    <3>2. PICK m \in 1..(i - 1) : a[m] = blocks[k]
      BY <1>3, <3>1 DEF Complete
    <3>3. m \in 1..Len(a)
      BY <1>1, <3>1
    <3> QED BY <1>1, <3>2, <3>3
  <2>2. CASE i > Len(a)
    <3>1. PICK m \in 1..Len(a) : a[m] = blocks[k]
      BY <1>3 DEF Maps
    <3>2. m \in 1..(i - 1)
      BY <1>1, <2>2
    <3> QED BY <1>1, <3>1, <3>2
  <2> QED BY <1>1, <2>1, <2>2
<1>4. Complete(all, blocks, low)
  BY <1>3 DEF Complete
<1> QED BY <1>1, <1>2, <1>4 DEF all

\* Whichever mapped block on the way to the head of the memory is above some
\* height, it is among the heads that are left above that height.
LEMMA MappedIsNoted ==
    ASSUME NEW s \in ProcessorState, NEW n, MemoryIsChain(s, n), StateHead(s) \in Ref,
           NEW d, d.applied \in Seq(Block),
           Complete(s.heads, d.applied, Height(s.final)),
           NEW k \in 1..Len(d.applied), On(d.applied[k], StateHead(s)),
           Height(s.final) < Height(d.applied[k])
    PROVE  Maps(s.heads, d.applied[k])
<1> DEFINE b == d.applied[k]
           heads == s.heads
           N == Len(heads)
<1>1. /\ heads \in Seq(Block) /\ N \in Nat /\ s.final \in Ref
      /\ b \in Ref /\ Height(b) \in Int /\ Height(s.final) \in Int
      /\ Height(b) <= Height(StateHead(s)) /\ Height(StateHead(s)) \in Int
  <2>1. heads \in Seq(Block) /\ s.final \in Ref
    BY DEF ProcessorState
  <2>2. b \in Ref
    BY DEF Ref
  <2> QED BY <2>1, <2>2, HeightType, AncestorHeight
<1>2. StateHead(s) # s.final
  <2> HIDE DEF b
  <2>1. Height(s.final) < Height(b)
    BY DEF b
  <2> QED BY <1>1, <2>1
<1>3. heads # << >> /\ StateHead(s) = heads[N]
  BY <1>2 DEF StateHead, LastOf
<1> HIDE DEF heads
<1>4. N \in 1..N
  BY <1>1, <1>3
<1>5. CASE Height(b) = Height(StateHead(s))
  <2>1. b = StateHead(s)
    BY <1>1, <1>5, AncestorReflexive, AncestorUnique
  <2> QED BY <1>3, <1>4, <2>1 DEF Maps, heads
<1>6. CASE Height(b) < Height(heads[N])
  <2>1. PICK m \in 1..(N - 1) : heads[m] = b
    BY <1>4, <1>6 DEF Complete, heads
  <2> QED BY <1>1, <2>1 DEF Maps, heads
<1> QED BY <1>1, <1>3, <1>5, <1>6

\* The heads that are left after a hot transaction leave out no mapped block.
LEMMA HotCommitComplete ==
    ASSUME Ungrouped, NEW s \in ProcessorState, s.hot, s.phase = "tx", NEW d, Sound(d), NEW n,
           MemoryIsChain(s, n), TransactionFits(s, d), s.final = d.status,
           IsBase(d, StateHead(s)), StateHead(s) \in Ref, MemoryIsComplete(s, d),
           NEW final, final = IF s.tx.final = Origin THEN s.final ELSE s.tx.final,
           final = s.tx.final
    PROVE  Complete(AfterCommit(s).heads,
                    RollbackTo(d, BasePos(d, StateHead(s))).applied \o s.tx.blocks,
                    Height(s.tx.final))
<1> DEFINE tx     == s.tx
           base   == tx.base
           blocks == tx.blocks
           h      == Height(tx.final)
           cut    == CountUpTo(s.heads, h)
           left   == SubSeq(s.heads, cut + 1, Len(s.heads))
           S      == SliceHeads(tx)
           P      == RollbackTo(d, BasePos(d, StateHead(s))).applied
           one    == left \o tx.slices
           all    == one \o S
<1>1. /\ s.final \in Ref /\ s.heads \in Seq(Block) /\ tx \in TxState
      /\ base \in Ref /\ tx.final \in Ref /\ tx.slices \in Seq(Block)
  BY DEF ProcessorState, TxState
<1>2. /\ base = StateHead(s)
      /\ blocks \in Deliveries(base) \cup {<< >>}
      /\ Height(s.final) <= h
  BY DEF TransactionFits
<1>3. /\ blocks \in Seq(Block) /\ Len(blocks) \in Nat
      /\ \A i \in 1..Len(blocks) : Height(blocks[i]) > Height(base) /\ blocks[i] \in Ref
  BY <1>1, <1>2, DeliveryFacts
<1>4. AfterCommit(s).heads = all
  <2> DEFINE t == AfterCommit(s)
             K == SubSeq(s.heads, CountUpTo(s.heads, Height(final)) + 1, Len(s.heads))
                      \o tx.slices \o SliceHeads(tx)
  <2>1. t = [s EXCEPT !.phase = "run", !.tx = NoTx, !.final = final, !.heads = K]
    BY Zenon DEF AfterCommit
  <2>2. K = all
    OBVIOUS
  <2> HIDE DEF t, K, all
  <2>3. t.heads = K
    BY <2>1 DEF ProcessorState
  <2> QED BY <2>2, <2>3 DEF t
<1>5. /\ Complete(s.heads, d.applied, Height(d.status))
      /\ Complete(tx.slices, blocks, h)
  BY DEF MemoryIsComplete
<1>6. S \in Seq(Block) /\ Complete(S, blocks, h)
  BY <1>1, <1>2, SliceHeadsWork, SliceHeadsComplete
<1>7. h \in Int /\ Height(d.status) \in Int /\ d.applied \in Seq(Block) /\ d.status \in Ref
  BY <1>1, HeightType, SoundType
<1>8. /\ left \in Seq(Block) /\ Len(left) = Len(s.heads) - cut /\ cut \in 0..Len(s.heads)
      /\ \A i \in 1..Len(left) : left[i] = s.heads[cut + i]
      /\ Complete(left, d.applied, h)
  <2> DEFINE noted == s.heads
             low   == Height(d.status)
  <2>1. /\ noted \in Seq(Block) /\ low \in Int /\ low <= h
        /\ Complete(noted, d.applied, low)
    BY <1>1, <1>2, <1>5, <1>7
  <2>2. cut = CountUpTo(noted, h) /\ left = SubSeq(noted, CountUpTo(noted, h) + 1, Len(noted))
    OBVIOUS
  <2> HIDE DEF h, cut, left, noted, low
  <2>3. /\ left \in Seq(Block) /\ Len(left) = Len(noted) - cut /\ cut \in 0..Len(noted)
        /\ \A i \in 1..Len(left) : left[i] = noted[cut + i]
        /\ Complete(left, d.applied, h)
    BY <1>7, <2>1, <2>2, CompleteTail, SMTT(40)
  <2> QED BY <2>3 DEF noted
<1>9. \A i \in 1..cut : Height(s.heads[i]) <= h
  <2> HIDE DEF h
  <2> QED BY <1>1, <1>7, CountUpToWorks
<1> HIDE DEF left, cut, S, h, tx, blocks
<1>10. /\ P \in Seq(Block) /\ Len(P) \in Nat
       /\ \A i \in 1..Len(P) : /\ i \in 1..Len(d.applied) /\ P[i] = d.applied[i]
                               /\ On(P[i], StateHead(s))
  <2> DEFINE k == BasePos(d, StateHead(s))
  <2>1. k \in Positions(d) /\ RefAt(d, k) = StateHead(s)
    BY SoundType, BasePosWorks
  <2>2. k \in 0..Len(d.hot) /\ Len(d.hot) \in Nat /\ Len(d.applied) = Settled(d) + Len(d.hot)
        /\ Settled(d) \in 0..Len(d.applied)
    BY <2>1, SoundType DEF Positions
  <2> HIDE DEF k
  <2>3. /\ Sound(RollbackTo(d, k)) /\ HeadOf(RollbackTo(d, k)) = StateHead(s)
        /\ Len(RollbackTo(d, k).applied) = Settled(d) + k
        /\ \A i \in 1..Len(RollbackTo(d, k).applied) :
               RollbackTo(d, k).applied[i] = d.applied[i]
    BY <2>1, RollbackSound, RollbackFields
  <2>4. RollbackTo(d, k).applied \in Seq(Block)
    BY <2>3, SoundType
  <2>5. \A i \in 1..Len(RollbackTo(d, k).applied) : On(RollbackTo(d, k).applied[i], StateHead(s))
    BY <2>3 DEF Sound, HeadReflected, Reflects, OnlyChain
  <2>6. \A i \in 1..Len(RollbackTo(d, k).applied) : i \in 1..Len(d.applied)
    BY <2>2, <2>3
  <2>7. P = RollbackTo(d, k).applied
    BY DEF k
  <2> HIDE DEF P
  <2> QED BY <2>3, <2>4, <2>5, <2>6, <2>7
<1> HIDE DEF P
<1>11. Complete(left, P, h)
  <2>1. \A k \in 1..Len(P) : \E x \in 1..Len(d.applied) : P[k] = d.applied[x]
    BY <1>10
  <2>2. h <= h
    BY <1>7
  <2> QED BY <1>7, <1>8, <1>10, <2>1, <2>2, CompleteLess
<1>12. ASSUME NEW k \in 1..Len(P), h < Height(P[k])
       PROVE  Maps(left, P[k])
  <2>1. k \in 1..Len(d.applied) /\ P[k] = d.applied[k] /\ On(d.applied[k], StateHead(s))
        /\ P[k] \in Ref /\ Height(P[k]) \in Int
    BY <1>10, HeightType DEF Ref
  <2>2. Height(s.final) < Height(d.applied[k])
    BY <1>2, <1>7, <1>12, <2>1
  <2>3. PICK m \in 1..Len(s.heads) : s.heads[m] = P[k]
    BY <1>5, <1>7, <2>1, <2>2, MappedIsNoted DEF Maps
  <2>4. ~(m \in 1..cut)
    BY <1>7, <1>9, <1>12, <2>1, <2>3
  <2> DEFINE x == m - cut
  <2>5. x \in 1..Len(left) /\ cut + x = m
    <3>1. Len(s.heads) \in Nat
      BY <1>1
    <3> QED BY <1>8, <2>4, <3>1
  <2> QED BY <1>8, <2>3, <2>5 DEF Maps
<1>13. one \in Seq(Block) /\ Complete(all, P, h)
  <2>1. /\ one \in Seq(Block) /\ Complete(one, P, h)
        /\ \A k \in 1..Len(P) : h < Height(P[k]) => Maps(one, P[k])
    BY <1>1, <1>8, <1>11, <1>12, CompleteFollowed
  <2> HIDE DEF one
  <2> QED BY <1>6, <2>1, CompleteFollowed
<1>14. Complete(left, blocks, h)
  <2>1. ASSUME NEW i \in 1..Len(left), NEW k \in 1..Len(blocks)
        PROVE  ~(Height(blocks[k]) < Height(left[i]))
    <3> DEFINE m == cut + i
    <3>1. m \in 1..Len(s.heads) /\ left[i] = s.heads[m]
      <4>1. Len(s.heads) \in Nat
        BY <1>1
      <4> QED BY <1>8, <4>1
    <3> HIDE DEF m
    <3>2. On(left[i], base) /\ left[i] \in Ref
      BY <1>1, <1>2, <3>1 DEF MemoryIsChain, Ref
    <3>3. Height(left[i]) <= Height(base) /\ Height(left[i]) \in Int /\ Height(base) \in Int
          /\ Height(blocks[k]) \in Int /\ Height(blocks[k]) > Height(base)
      BY <1>1, <1>3, <3>2, AncestorHeight, HeightType
    <3> QED BY <3>3
  <2> QED BY <2>1, CompleteAbove
<1>15. Complete(all, blocks, h)
  <2>1. Complete(one, blocks, h)
    BY <1>1, <1>5, <1>8, <1>14, CompleteConcat
  <2> HIDE DEF one
  <2> QED BY <1>6, <1>13, <2>1, CompleteConcat
<1> HIDE DEF all
<1> DEFINE mapped == P \o blocks
<1>16. ASSUME NEW k \in 1..Len(mapped)
       PROVE  Maps(P, mapped[k]) \/ Maps(blocks, mapped[k])
  <2>1. /\ Len(mapped) = Len(P) + Len(blocks)
        /\ \A i \in 1..Len(P) : mapped[i] = P[i]
        /\ \A j \in 1..Len(blocks) : mapped[Len(P) + j] = blocks[j]
    BY <1>3, <1>10, ConcatPieces
  <2> HIDE DEF mapped
  <2>2. CASE k <= Len(P)
    <3>1. k \in 1..Len(P)
      BY <2>2
    <3> QED BY <2>1, <3>1 DEF Maps
  <2>3. CASE k > Len(P)
    <3>1. k - Len(P) \in 1..Len(blocks) /\ Len(P) + (k - Len(P)) = k
      BY <1>3, <1>10, <2>1, <2>3
    <3> QED BY <2>1, <3>1 DEF Maps
  <2> QED BY <1>10, <2>2, <2>3
<1> HIDE DEF mapped
<1>17. Complete(all, mapped, h)
  BY <1>13, <1>15, <1>16, CompleteUnion
<1> QED BY <1>4, <1>17 DEF mapped, P, blocks, tx, h

\* Commit
LEMMA SteadyCommit ==
    ASSUME Ungrouped, ProcessorInv, LoneInv, SteadyInv, NEW p \in Processor, Commit(p)
    PROVE  /\ source' = source
           /\ On(db'.status, source.fin)
           /\ Steady(proc'[p], db', source)
<1> USE InvFacts
<1> DEFINE s      == proc[p]
           t      == AfterCommit(s)
           tx     == s.tx
           base   == tx.base
           blocks == tx.blocks
           last   == LastOf(base, blocks)
<1>1. /\ s.phase = "tx" /\ db.nonce = tx.nonce
      /\ db' = IF s.hot THEN TransactHot2(db, HotInfo(tx)) ELSE Transact(db, FinalInfo(tx))
      /\ proc' = [proc EXCEPT ![p] = t] /\ source' = source
  BY DEF Commit
<1>2. /\ s \in ProcessorState /\ s.hot \in BOOLEAN /\ s.tx \in TxState
      /\ s.final = db.status /\ s.final \in Ref
      /\ IsBase(db, StateHead(s)) /\ StateHead(s) \in Ref
      /\ Steady(s, db, source)
      /\ s.stream.pos \in Ref
  BY <1>1, SteadyFacts
<1>3. /\ MemoryIsChain(s, source) /\ TransactionFits(s, db)
      /\ BatchBase(s) \in Ref /\ On(BatchBase(s), s.stream.pos)
      /\ base \in Ref /\ tx.final \in Ref
  BY <1>1, <1>2, Received DEF ProcessFits, TxState
<1>4. /\ ~ s.hot => FinalStream(s, source)
      /\ ForkFits(s, db) /\ MemoryIsComplete(s, db) /\ On(tx.final, source.fin)
  BY <1>1, <1>2 DEF Steady
<1>5. proc'[p] = t /\ Sound(db)
  BY <1>1
<1> HIDE DEF s
<1>6. /\ base = StateHead(s)
      /\ s.hot => On(tx.final, last) /\ Height(s.final) <= Height(tx.final)
  BY <1>3 DEF TransactionFits
<1>7. CASE s.hot
  <2> DEFINE final == IF tx.final = Origin THEN s.final ELSE tx.final
  <2>1. final = tx.final
    <3>1. CASE tx.final = Origin
      <4>1. Height(s.final) <= -1
        BY <1>6, <1>7, <3>1, TreeAssumption DEF Height
      <4>2. s.final = Origin
        BY <1>2, <4>1, HeightType DEF Height
      <4> QED BY <3>1, <4>2
    <3> QED BY <3>1
  <2>2. /\ db'.status = tx.final
        /\ db'.applied = RollbackTo(db, BasePos(db, StateHead(s))).applied \o blocks
    <3>1. /\ db'.status = EffectiveFinalizedHead(db, tx.final)
          /\ db'.applied = RollbackTo(db, BasePos(db, base)).applied \o blocks
      BY <1>1, <1>7 DEF TransactHot2, HotInfo
    <3> QED BY <1>2, <1>6, <1>7, <3>1 DEF EffectiveFinalizedHead
  <2>3. /\ t.phase = "run" /\ t.final = final /\ t.hot = s.hot
        /\ t.stream = s.stream
    <3> DEFINE heads == t.heads
               none  == NoTx
    <3>1. t = [s EXCEPT !.phase = "run", !.tx = none, !.final = final, !.heads = heads]
      BY <1>2, <1>3, <1>7, HotCommitMemory
    <3> HIDE DEF t, heads, none, final
    <3> QED BY <1>2, <3>1 DEF ProcessorState
  <2>4. Complete(t.heads, db'.applied, Height(tx.final))
    BY <1>1, <1>2, <1>3, <1>4, <1>5, <1>7, <2>1, <2>2, HotCommitComplete
  <2> HIDE DEF t, final
  <2>5. ForkFits(t, db')
    <3> DEFINE fork == s.stream.fork
               top  == fork[Len(fork)]
    <3>1. SUFFICES ASSUME fork # << >>
                   PROVE  /\ \A j \in 1..Len(fork) : On(fork[j], top)
                          /\ Height(top) = Height(s.stream.pos)
                          /\ \A b \in Block : On(b, top) /\ Height(b) >= Height(tx.final)
                                 => \E j \in 1..Len(fork) : fork[j] = b
                          /\ On(tx.final, top)
                          /\ On(s.stream.final, top)
      BY <2>1, <2>2, <2>3 DEF ForkFits
    <3>2. /\ \A j \in 1..Len(fork) : On(fork[j], top)
          /\ Height(top) = Height(s.stream.pos)
          /\ \A b \in Block : On(b, top) /\ Height(b) >= Height(db.status)
                 => \E j \in 1..Len(fork) : fork[j] = b
          /\ On(tx.final, top)
          /\ On(s.stream.final, top)
      BY <1>1, <1>4, <3>1 DEF ForkFits
    <3>3. ASSUME NEW b \in Block, Height(b) >= Height(tx.final)
          PROVE  Height(b) >= Height(db.status)
      <4>1. Height(b) \in Int /\ Height(tx.final) \in Int /\ Height(db.status) \in Int
        BY <1>2, <1>3, HeightType DEF Ref
      <4>2. Height(db.status) <= Height(tx.final)
        BY <1>2, <1>6, <1>7
      <4> QED BY <3>3, <4>1, <4>2
    <3> QED BY <3>2, <3>3
  <2>6. MemoryIsComplete(t, db')
    BY <2>2, <2>3, <2>4 DEF MemoryIsComplete
  <2>7. Steady(t, db', source)
    BY <1>2, <1>7, <2>3, <2>5, <2>6 DEF Steady
  <2> QED BY <1>1, <1>4, <1>5, <2>2, <2>7
<1>8. CASE ~ s.hot
  <2> DEFINE none == << >>
             empty == NoTx
  <2>1. db'.status = last /\ db'.hot = << >>
    BY <1>1, <1>8 DEF Transact, FinalInfo
  <2>2. last = BatchBase(s)
    BY <1>1 DEF BatchBase
  <2>3. t = [s EXCEPT !.phase = "run", !.tx = empty, !.final = last, !.heads = none]
    BY <1>8, Zenon DEF AfterCommit
  <2> HIDE DEF none, empty, t, last
  <2>4. /\ t.phase = "run" /\ t.final = last /\ t.heads = none /\ t.hot = s.hot
        /\ t.stream = s.stream
    BY <1>2, <2>3 DEF ProcessorState
  <2>5. FinalStream(s, source)
    BY <1>4, <1>8
  <2>6. FinalStream(t, source)
    BY <2>4, <2>5 DEF FinalStream, none
  <2>7. ForkFits(t, db')
    BY <2>4, <2>5 DEF FinalStream, ForkFits
  <2>8. MemoryIsComplete(t, db')
    <3>1. Len(t.heads) = 0
      BY <2>4 DEF none
    <3> QED BY <2>4, <3>1, NothingComplete DEF MemoryIsComplete
  <2>9. Steady(t, db', source)
    BY <1>2, <1>8, <2>1, <2>4, <2>6, <2>7, <2>8 DEF Steady
  <2>10. On(last, source.fin)
    <3>1. On(s.stream.pos, source.fin)
      BY <2>5 DEF FinalStream
    <3> QED BY <1>2, <1>3, <2>2, <3>1, AncestorTransitive
  <2> QED BY <1>1, <1>5, <2>1, <2>9, <2>10
<1> QED BY <1>2, <1>7, <1>8

------------------------------------------------------------------------------
(***************************************************************************)
(* Forks.                                                                   *)
(***************************************************************************)

\* The first time a mapped block is noted down, only blocks of its own chain
\* below it are before it.
LEMMA FirstNoted ==
    ASSUME NEW s \in ProcessorState, NEW n, MemoryIsChain(s, n), StateHead(s) \in Ref,
           NEW d, d.applied \in Seq(Block),
           Complete(s.heads, d.applied, Height(s.final)),
           NEW k \in 1..Len(d.applied), On(d.applied[k], StateHead(s)),
           Height(s.final) < Height(d.applied[k])
    PROVE  \E i \in 1..Len(s.heads) :
               /\ s.heads[i] = d.applied[k]
               /\ \A j \in 1..(i - 1) : /\ On(s.heads[j], d.applied[k])
                                        /\ Height(s.heads[j]) < Height(d.applied[k])
<1> DEFINE b     == d.applied[k]
           heads == s.heads
           T     == {i \in 1..Len(heads) : heads[i] = b}
<1>1. /\ heads \in Seq(Block) /\ Len(heads) \in Nat
      /\ b \in Ref /\ Height(b) \in Int /\ On(b, StateHead(s))
  <2>1. heads \in Seq(Block)
    BY DEF ProcessorState
  <2>2. b \in Ref
    BY DEF Ref
  <2> QED BY <2>1, <2>2, HeightType
<1>2. Maps(heads, b)
  BY MappedIsNoted
<1>3. \A j \in 1..Len(heads) : On(heads[j], StateHead(s)) /\ heads[j] \in Ref
  BY <1>1 DEF MemoryIsChain, Ref
<1>4. \A i \in 1..Len(heads) :
          Height(b) < Height(heads[i]) => \E m \in 1..(i - 1) : heads[m] = b
  BY DEF Complete
<1> HIDE DEF b, heads
<1>5. T # {} /\ T \subseteq Nat
  BY <1>2 DEF Maps
<1>6. PICK i \in T : \A j \in T : i <= j
  <2> HIDE DEF T
  <2> QED BY <1>5, LeastNatural
<1>7. i \in 1..Len(heads) /\ heads[i] = b
  BY <1>6
<1>8. ASSUME NEW j \in 1..(i - 1)
      PROVE  On(heads[j], b) /\ Height(heads[j]) < Height(b)
  <2>1. j \in 1..Len(heads) /\ ~(j \in T) /\ heads[j] # b
    BY <1>1, <1>6, <1>7
  <2>2. On(heads[j], StateHead(s)) /\ heads[j] \in Ref /\ Height(heads[j]) \in Int
    BY <1>3, <2>1, HeightType
  <2>3. ~(Height(b) < Height(heads[j]))
    <3>1. SUFFICES ASSUME Height(b) < Height(heads[j])
                   PROVE  FALSE
      OBVIOUS
    <3>2. PICK m \in 1..(j - 1) : heads[m] = b
      BY <1>4, <2>1, <3>1
    <3>3. m \in T /\ m < i
      BY <1>1, <1>7, <3>2
    <3> QED BY <1>6, <1>7, <3>3
  <2>4. Height(b) # Height(heads[j])
    BY <1>1, <2>1, <2>2, AncestorUnique
  <2>5. Height(heads[j]) < Height(b)
    BY <1>1, <2>2, <2>3, <2>4
  <2>6. Height(heads[j]) <= Height(b)
    BY <1>1, <2>2, <2>5
  <2> QED BY <1>1, <2>2, <2>5, <2>6, AncestorLinear
<1> QED BY <1>7, <1>8 DEF b, heads

\* A row of the tables as one of their mapped blocks.
LEMMA RowIsMapped ==
    ASSUME NEW d, Sound(d), NEW k \in Positions(d), RefAt(d, k) # d.status
    PROVE  \E i \in 1..Len(d.applied) : d.applied[i] = RefAt(d, k)
<1>1. k \in 1..Len(d.hot)
  BY SoundType DEF Positions, RefAt
<1>2. RefAt(d, k) = d.applied[Settled(d) + k]
  BY <1>1, SoundType DEF RefAt, Sound, RowsAreTail
<1>3. Settled(d) + k \in 1..Len(d.applied)
  BY <1>1, SoundType
<1> QED BY <1>2, <1>3

\* What handleFork() has to choose from: the finalized head is in the report, and
\* so is every row of the tables that is on the chain of the fork.
LEMMA ForkIsMet ==
    ASSUME ProcessorInv, LoneInv, SteadyInv, NEW p \in Processor,
           proc[p].phase = "run", proc[p].stream.fork # << >>, proc[p].stream.blocks = << >>
    PROVE  LET s     == proc[p]
               fork  == s.stream.fork
               top   == fork[Len(fork)]
               below == IF s.final = Origin THEN << >> ELSE << s.final >>
               chain == below \o s.heads
               index == FindRollbackIndex(chain, fork)
           IN  /\ s.hot /\ top \in Ref /\ On(s.final, top)
               /\ s.final # Origin => index # 0
               /\ index # 0 => On(chain[index], top)
               /\ \A k \in Positions(db) :
                      On(RefAt(db, k), top) /\ Height(RefAt(db, k)) > Height(s.final)
                          => /\ index > Len(below)
                             /\ Height(RefAt(db, k)) <= Height(chain[index])
<1> USE InvFacts
<1> DEFINE s     == proc[p]
           fork  == s.stream.fork
           top   == fork[Len(fork)]
           below == IF s.final = Origin THEN << >> ELSE << s.final >>
           chain == below \o s.heads
           index == FindRollbackIndex(chain, fork)
<1>1. s.phase = "run" /\ fork # << >> /\ s.stream.blocks = << >>
  OBVIOUS
<1>2. /\ s \in ProcessorState /\ s.hot \in BOOLEAN
      /\ s.final = db.status /\ s.final \in Ref
      /\ IsBase(db, StateHead(s)) /\ StateHead(s) \in Ref
      /\ s.heads \in Seq(Block) /\ s.stream \in StreamState
      /\ Steady(s, db, source)
  BY <1>1, SteadyFacts
<1>3. /\ MemoryIsChain(s, source) /\ StreamContinues(s, source)
      /\ Sound(db)
  BY <1>1, Received
<1>4. s.hot /\ ForkFits(s, db) /\ MemoryIsComplete(s, db)
  BY <1>1, <1>2 DEF Steady, FinalStream
<1>5. s.stream.pos = StateHead(s)
  <2>1. BatchBase(s) = StateHead(s)
    BY <1>1 DEF BatchBase
  <2> QED BY <1>1, <1>3, <2>1 DEF StreamContinues, LastOf
<1>6. fork \in Seq(Block) /\ Ascending(fork)
  BY <1>2, <1>3 DEF StreamState, StreamContinues
<1> HIDE DEF s
<1>7. /\ \A j \in 1..Len(fork) : On(fork[j], top)
      /\ Height(top) = Height(StateHead(s))
      /\ \A b \in Block : On(b, top) /\ Height(b) >= Height(s.final)
             => \E j \in 1..Len(fork) : fork[j] = b
      /\ On(s.final, top)
  BY <1>1, <1>2, <1>4, <1>5 DEF ForkFits
<1>8. top \in Ref
  <2>1. Len(fork) \in 1..Len(fork)
    <3> HIDE DEF fork
    <3> QED BY <1>1, <1>6 DEF s
  <2> HIDE DEF fork
  <2> QED BY <1>6, <2>1 DEF Ref
<1>9. /\ chain \in Seq(Block)
      /\ Len(chain) = Len(below) + Len(s.heads)
      /\ Len(below) = IF s.final = Origin THEN 0 ELSE 1
      /\ s.final # Origin => chain[1] = s.final
      /\ \A i \in 1..Len(s.heads) : chain[Len(below) + i] = s.heads[i]
  BY <1>2, <1>6, RollbackIndexWorks
<1> HIDE DEF chain, below, top, fork
<1>10. index # 0 => On(chain[index], top)
  <2>1. index # 0 => \E j \in 1..Len(fork) : fork[j] = chain[index]
    BY <1>6, <1>9, WalkResult
  <2> HIDE DEF index
  <2> QED BY <1>7, <2>1
<1>11. ASSUME NEW m \in 1..Len(chain), On(chain[m], top),
              Height(chain[m]) >= Height(s.final),
              \A i \in 1..(m - 1) : On(chain[i], top) /\ Height(chain[i]) < Height(chain[m])
       PROVE  index \in m..Len(chain) /\ Height(chain[m]) <= Height(chain[index])
  <2>1. chain[m] \in Block
    <3>1. chain \in Seq(Block) /\ m \in 1..Len(chain)
      BY <1>9, <1>11
    <3> HIDE DEF index
    <3> QED BY <3>1
  <2>2. PICK j \in 1..Len(fork) : fork[j] = chain[m]
    BY <1>7, <1>11, <2>1
  <2> QED BY <1>6, <1>7, <1>8, <1>9, <1>11, <2>2, WalkFinds
<1> HIDE DEF index
<1>12. s.final # Origin => index # 0
  <2>1. SUFFICES ASSUME s.final # Origin
                 PROVE  index # 0
    OBVIOUS
  <2>2. 1 \in 1..Len(chain) /\ chain[1] = s.final
    <3>1. Len(s.heads) \in Nat
      BY <1>2
    <3> QED BY <1>9, <2>1, <3>1
  <2>3. Height(chain[1]) >= Height(s.final)
    BY <1>2, <2>2, HeightType
  <2>4. index \in 1..Len(chain)
    BY <1>7, <1>11, <2>2, <2>3
  <2> QED BY <1>9, <2>4
<1>13. ASSUME NEW k \in Positions(db), On(RefAt(db, k), top),
              Height(RefAt(db, k)) > Height(s.final)
       PROVE  /\ index > Len(below)
              /\ Height(RefAt(db, k)) <= Height(chain[index])
  <2> DEFINE r == RefAt(db, k)
  <2>1. r \in Ref /\ Height(r) \in Int /\ Height(s.final) \in Int
        /\ On(r, HeadOf(db)) /\ HeadOf(db) \in Ref
    BY <1>2, <1>3, SoundType, SoundPositions, HeightType
  <2>2. r # db.status
    BY <1>2, <1>13, <2>1
  <2>3. PICK x \in 1..Len(db.applied) : db.applied[x] = r
    BY <1>3, <2>2, RowIsMapped
  <2>4. On(r, StateHead(s))
    <3>1. PICK y \in Positions(db) : RefAt(db, y) = StateHead(s)
      BY <1>2 DEF IsBase
    <3>2. On(StateHead(s), HeadOf(db))
      BY <1>3, <3>1, SoundPositions
    <3>3. Height(r) <= Height(StateHead(s))
      BY <1>7, <1>8, <1>13, <2>1, AncestorHeight
    <3> HIDE DEF r
    <3> QED BY <1>2, <2>1, <3>2, <3>3, AncestorLinear
  <2>5. Height(s.final) < Height(r)
    BY <1>13, <2>1
  <2> HIDE DEF r
  <2>6. PICK i \in 1..Len(s.heads) :
            /\ s.heads[i] = r
            /\ \A j \in 1..(i - 1) : On(s.heads[j], r) /\ Height(s.heads[j]) < Height(r)
    <3>1. db.applied \in Seq(Block)
      BY <1>3, SoundType
    <3>2. Complete(s.heads, db.applied, Height(s.final))
      BY <1>2, <1>4 DEF MemoryIsComplete
    <3>3. On(db.applied[x], StateHead(s)) /\ Height(s.final) < Height(db.applied[x])
      BY <2>3, <2>4, <2>5
    <3> QED BY <1>2, <1>3, <2>3, <3>1, <3>2, <3>3, FirstNoted
  <2> DEFINE B == Len(below)
             m == B + i
  <2>7. /\ B \in {0, 1} /\ B = (IF s.final = Origin THEN 0 ELSE 1)
        /\ m \in 1..Len(chain) /\ chain[m] = r /\ m > B /\ Len(chain) \in Nat
    <3>1. Len(s.heads) \in Nat
      BY <1>2
    <3>2. B = (IF s.final = Origin THEN 0 ELSE 1) /\ Len(chain) = B + Len(s.heads)
      BY <1>9
    <3>3. B \in {0, 1}
      BY <3>2
    <3>4. chain[m] = r
      BY <1>9, <2>6
    <3> HIDE DEF B
    <3>5. m \in 1..Len(chain) /\ m > B /\ Len(chain) \in Nat
      <4> DEFINE N == Len(s.heads)
      <4>1. i \in 1..N /\ N \in Nat /\ Len(chain) = B + N
        BY <2>6, <3>1, <3>2
      <4> HIDE DEF N
      <4> QED BY <3>3, <4>1
    <3> QED BY <3>2, <3>3, <3>4, <3>5
  <2>8. ASSUME NEW j \in 1..(m - 1)
        PROVE  On(chain[j], top) /\ Height(chain[j]) < Height(r)
    <3>1. CASE j <= B
      <4>1. s.final # Origin /\ j = 1
        <5> HIDE DEF B, m
        <5>1. j \in Nat /\ j >= 1
          BY <2>7, <2>8
        <5> QED BY <2>7, <3>1, <5>1
      <4>2. chain[j] = s.final
        BY <1>9, <4>1
      <4> QED BY <1>7, <2>5, <4>2
    <3>2. CASE j > B
      <4> DEFINE y == j - B
      <4>1. y \in 1..(i - 1) /\ B + y = j /\ y \in 1..Len(s.heads)
        <5>1. Len(s.heads) \in Nat
          BY <1>2
        <5> QED BY <2>7, <3>2, <5>1
      <4> HIDE DEF y
      <4>2. chain[j] = s.heads[y]
        BY <1>9, <4>1
      <4>3. On(s.heads[y], r) /\ Height(s.heads[y]) < Height(r) /\ s.heads[y] \in Ref
        BY <1>2, <2>6, <4>1 DEF Ref
      <4>4. On(s.heads[y], top)
        BY <1>8, <1>13, <2>1, <4>3, AncestorTransitive DEF r
      <4> QED BY <4>2, <4>3, <4>4
    <3> QED BY <2>7, <3>1, <3>2
  <2> HIDE DEF m, B
  <2>9. Height(chain[m]) >= Height(s.final) /\ On(chain[m], top)
    BY <1>13, <2>1, <2>5, <2>7 DEF r
  <2>10. index \in m..Len(chain) /\ Height(chain[m]) <= Height(chain[index])
    BY <1>11, <2>7, <2>8, <2>9
  <2>11. index > B
    BY <2>7, <2>10
  <2> QED BY <2>7, <2>10, <2>11 DEF r, B
<1> QED BY <1>4, <1>7, <1>8, <1>10, <1>12, <1>13 DEF s, fork, top, below, chain, index

\* HandleFork goes back to the highest row of the tables that is on the chain of
\* the fork.
LEMMA SteadyHandleFork ==
    ASSUME ProcessorInv, LoneInv, SteadyInv, NEW p \in Processor, HandleFork(p)
    PROVE  LET fork == proc[p].stream.fork
               top  == fork[Len(fork)]
           IN  /\ db' = db /\ source' = source
               /\ Steady(proc'[p], db, source) /\ proc'[p].phase = "run"
               /\ On(StateHead(proc'[p]), top)
               /\ \A k \in Positions(db) :
                      On(RefAt(db, k), top)
                          => Height(RefAt(db, k)) <= Height(StateHead(proc'[p]))
<1> USE InvFacts
<1> DEFINE s     == proc[p]
           fork  == s.stream.fork
           top   == fork[Len(fork)]
           below == IF s.final = Origin THEN << >> ELSE << s.final >>
           chain == below \o s.heads
           index == FindRollbackIndex(chain, fork)
           kept  == index - Len(below)
           back  == [s EXCEPT !.heads = SubSeq(@, 1, kept)]
           t     == OpenStream(back)
<1>1. /\ s.phase = "run" /\ fork # << >> /\ s.stream.blocks = << >>
      /\ proc' = [proc EXCEPT ![p] =
             IF ~ s.hot \/ (index = 0 /\ s.final # Origin) THEN Down("fork", s.hot) ELSE t]
      /\ db' = db /\ source' = source
  BY DEF HandleFork
<1>2. /\ s \in ProcessorState /\ s.final = db.status /\ s.final \in Ref
      /\ s.heads \in Seq(Block)
      /\ Steady(s, db, source)
  BY <1>1, SteadyFacts
<1>3. MemoryIsChain(s, source) /\ Ascending(fork)
  BY <1>1, Received DEF StreamContinues
<1>4. /\ s.hot /\ top \in Ref /\ On(s.final, top)
      /\ s.final # Origin => index # 0
      /\ index # 0 => On(chain[index], top)
      /\ \A k \in Positions(db) :
             On(RefAt(db, k), top) /\ Height(RefAt(db, k)) > Height(s.final)
                 => /\ index > Len(below)
                    /\ Height(RefAt(db, k)) <= Height(chain[index])
  BY <1>1, ForkIsMet
<1>5. proc'[p] = t
  BY <1>1, <1>4
<1> HIDE DEF s
<1>6. /\ Len(below) = IF s.final = Origin THEN 0 ELSE 1
      /\ index \in 0..Len(chain)
      /\ kept \in 0..Len(s.heads)
      /\ kept # 0 => /\ index = Len(below) + kept
                     /\ s.heads[kept] = chain[index]
                     /\ s.final # Origin => Height(s.final) < Height(s.heads[kept])
                     /\ \A i \in 1..(kept - 1) : Height(s.heads[i]) < Height(s.heads[kept])
  BY <1>2, <1>3, <1>4, RollbackIndexWorks
<1> HIDE DEF top, chain, below, index
<1>7. kept # 0 <=> index > Len(below)
  <2> DEFINE B == Len(below)
  <2>1. B \in Nat /\ index \in Int /\ kept \in Nat /\ kept = index - B
    <3>1. Len(s.heads) \in Nat /\ Len(below) \in Nat
      BY <1>2, <1>6
    <3>2. index \in Int
      BY <1>6
    <3>3. kept \in Nat
      <4> HIDE DEF kept
      <4> QED BY <1>6, <3>1
    <3> QED BY <3>1, <3>2, <3>3
  <2> HIDE DEF B, kept
  <2> QED BY <2>1 DEF B
<1> HIDE DEF kept
<1>8. /\ back \in ProcessorState /\ back.phase = s.phase /\ back.final = s.final
      /\ back.hot = s.hot
      /\ back.heads = SubSeq(s.heads, 1, kept)
      /\ StateHead(back) = (IF kept = 0 THEN s.final ELSE s.heads[kept])
      /\ MemoryIsChain(back, source)
  BY <1>2, <1>3, <1>6, KeptMemory, ZenonT(60)
<1> HIDE DEF back
<1>9. /\ t.phase = "run" /\ t.hot = s.hot
      /\ t.final = s.final /\ t.heads = SubSeq(s.heads, 1, kept)
      /\ t.stream = [NoStream EXCEPT !.pos = StateHead(back)]
  <2>1. back.phase = "run"
    BY <1>1, <1>8 DEF s
  <2> QED BY <1>8, <2>1, OpenStreamFits
<1> HIDE DEF t
<1>10. /\ t.stream.fork = << >> /\ ~ t.stream.updated
  BY <1>9 DEF NoStream
<1>11. StateHead(t) = (IF kept = 0 THEN s.final ELSE s.heads[kept])
  BY <1>8, <1>9 DEF StateHead
<1>12. ForkFits(t, db)
  BY <1>10 DEF ForkFits
<1>13. MemoryIsComplete(t, db)
  <2>1. Complete(s.heads, db.applied, Height(db.status))
    BY <1>1, <1>2 DEF Steady, MemoryIsComplete, s
  <2>2. Complete(SubSeq(s.heads, 1, kept), db.applied, Height(db.status))
    BY <1>2, <1>6, <2>1, CompletePrefix
  <2> QED BY <1>9, <2>2 DEF MemoryIsComplete
<1>14. Steady(t, db, source)
  BY <1>2, <1>4, <1>9, <1>10, <1>12, <1>13 DEF Steady
<1>15. On(StateHead(t), top)
  <2>1. CASE kept = 0
    BY <1>4, <1>11, <2>1
  <2>2. CASE kept # 0
    <3>1. index # 0
      <4>1. index > Len(below) /\ Len(below) \in Nat
        BY <1>6, <1>7, <2>2
      <4> QED BY <4>1
    <3> QED BY <1>4, <1>6, <1>11, <2>2, <3>1
  <2> QED BY <2>1, <2>2
<1>16. ASSUME NEW k \in Positions(db), On(RefAt(db, k), top)
       PROVE  Height(RefAt(db, k)) <= Height(StateHead(t))
  <2>1. CASE Height(RefAt(db, k)) > Height(s.final)
    BY <1>4, <1>6, <1>7, <1>11, <1>16, <2>1
  <2>2. CASE ~(Height(RefAt(db, k)) > Height(s.final))
    <3>1. On(s.final, StateHead(t)) /\ StateHead(t) \in Ref
      <4>1. StateHead(t) = StateHead(back)
        BY <1>8, <1>11
      <4>2. StateHead(back) \in Ref
        BY <1>2, <1>6, <1>8 DEF Ref
      <4> QED BY <1>8, <4>1, <4>2 DEF MemoryIsChain
    <3>2. Height(s.final) <= Height(StateHead(t))
      BY <1>2, <3>1, AncestorHeight
    <3>3. /\ Height(s.final) \in Int /\ Height(StateHead(t)) \in Int
          /\ Height(RefAt(db, k)) \in Int
      <4>1. RefAt(db, k) \in Ref
        BY <1>16, SoundType
      <4> QED BY <1>2, <3>1, <4>1, HeightType
    <3> QED BY <2>2, <3>2, <3>3
  <2> QED BY <2>1, <2>2
<1> QED BY <1>1, <1>5, <1>9, <1>14, <1>15, <1>16 DEF top, fork, s
------------------------------------------------------------------------------
(***************************************************************************)
(* The theorems.                                                            *)
(***************************************************************************)

\* What the node does leaves the process as it is.
LEMMA SteadyNodeStep ==
    ASSUME ProcessorInv, SteadyInv, NewBlock \/ Reorg \/ Finalize
    PROVE  SteadyInv'
<1> USE InvFacts
<1>1. /\ db' = db /\ proc' = proc
      /\ source'.fin \in Ref /\ On(source.fin, source'.fin)
  <2>1. CASE NewBlock \/ Reorg
    <3>1. PICK b \in Block : source' = [source EXCEPT !.tip = b] /\ db' = db /\ proc' = proc
      BY <2>1 DEF NewBlock, Reorg
    <3>2. source'.fin = source.fin
      BY <3>1
    <3> QED BY <3>1, <3>2, AncestorReflexive
  <2>2. CASE Finalize
    <3>1. PICK b \in Block : /\ source' = [source EXCEPT !.fin = b] /\ db' = db /\ proc' = proc
                             /\ On(source.fin, b)
      BY <2>2 DEF Finalize
    <3>2. source'.fin = b
      BY <3>1
    <3> QED BY <3>1, <3>2 DEF Ref
  <2> QED BY <2>1, <2>2
<1>2. On(db.status, source'.fin)
  <2>1. db.status \in Ref
    BY SoundType
  <2> QED BY <1>1, <2>1, AncestorTransitive DEF SteadyInv
<1>3. ASSUME NEW p \in Processor
      PROVE  Steady(proc[p], db, source')
  BY <1>1, SteadyNode DEF SteadyInv
<1> QED BY <1>1, <1>2, <1>3 DEF SteadyInv

\* Every step of a process that has the database for itself keeps it going.
LEMMA SteadyNextSound ==
    ASSUME Ungrouped, Lone, HotForGood
    PROVE  ProcessorInv /\ LoneInv /\ SteadyInv /\ WindowReaches /\ [ProcessorNext]_vars
               => SteadyInv'
<1> SUFFICES ASSUME ProcessorInv, LoneInv, SteadyInv, WindowReaches, [ProcessorNext]_vars
             PROVE  SteadyInv'
  OBVIOUS
<1>1. CASE UNCHANGED vars
  BY <1>1 DEF vars, SteadyInv
<1>2. CASE NewBlock \/ Reorg \/ Finalize
  BY <1>2, SteadyNodeStep
<1>3. ASSUME NEW p \in Processor,
             source' = source, On(db'.status, source.fin), Steady(proc'[p], db', source)
      PROVE  SteadyInv'
  <2>1. \A q \in Processor : q = p
    BY DEF Lone
  <2> QED BY <1>3, <2>1 DEF SteadyInv
<1>4. ASSUME NEW p \in Processor, db' = db, source' = source, Steady(proc'[p], db, source)
      PROVE  SteadyInv'
  BY <1>3, <1>4 DEF SteadyInv
<1>5. ASSUME NEW p \in Processor, NEW r \in Reportable,
             ReceiveHeader(p, r) \/ ReceiveBlocks(p, r) \/ ReceiveNoData(p, r)
      PROVE  SteadyInv'
  BY <1>4, <1>5, SteadyBlocks, SteadyHeader
<1>6. ASSUME NEW p \in Processor, ReceiveFork(p)
      PROVE  SteadyInv'
  BY <1>4, <1>6, SteadyFork
<1>7. ASSUME NEW p \in Processor, Start(p)
      PROVE  SteadyInv'
  <2>1. db'.status = db.status /\ source' = source /\ Steady(proc'[p], db', source)
    BY <1>7, SteadyStart
  <2> QED BY <1>3, <2>1 DEF SteadyInv
<1>8. ASSUME NEW p \in Processor, Crash(p) \/ Reconfigure(p)
      PROVE  SteadyInv'
  BY <1>4, <1>8, SteadyRestarts
<1>9. ASSUME NEW p \in Processor, TakeBatch(p)
      PROVE  SteadyInv'
  BY <1>4, <1>9, SteadyTake
<1>10. ASSUME NEW p \in Processor, Commit(p)
       PROVE  SteadyInv'
  BY <1>3, <1>10, SteadyCommit
<1>11. ASSUME NEW p \in Processor, NEW n \in 0..Len(proc[p].tx.blocks), Abort(p, n)
       PROVE  SteadyInv'
  <2>1. n \in Nat
    <3>1. proc[p].tx.blocks \in Seq(Block)
      BY InvFacts DEF ProcessorState, TxState
    <3> QED BY <1>11, <3>1
  <2> QED BY <1>4, <1>11, <2>1, SteadyAbort
<1>12. ASSUME NEW p \in Processor, HandleFork(p)
       PROVE  SteadyInv'
  BY <1>4, <1>12, SteadyHandleFork
<1> QED BY <1>1, <1>2, <1>5, <1>6, <1>7, <1>8, <1>9, <1>10, <1>11, <1>12 DEF ProcessorNext

\* Only handleFork() takes a fork report away from a process that goes on.
LEMMA ForkIsHandled ==
    ASSUME Lone, ProcessorInv, SteadyInv, [ProcessorNext]_vars, NEW p \in Processor,
           proc[p].stream.fork # << >>,
           proc'[p].phase = "run", proc'[p].stream.fork = << >>
    PROVE  HandleFork(p)
<1> USE InvFacts
<1> DEFINE s == proc[p]
<1>1. s.phase # "down" /\ s \in ProcessorState
  BY DEF SteadyInv, Steady
<1>2. ASSUME proc'[p].stream.fork = s.stream.fork \/ proc'[p].phase # "run"
      PROVE  FALSE
  BY <1>2
<1>3. ~ Streaming(p)
  BY DEF Streaming
<1>4. ASSUME NEW q \in Processor
      PROVE  q = p
  BY DEF Lone
<1>5. ASSUME NEW fault, NEW hot
      PROVE  Down(fault, hot).phase # "run"
  BY DEF Down
<1>6. ~ UNCHANGED vars /\ ~ NewBlock /\ ~ Reorg /\ ~ Finalize
  BY <1>2 DEF vars, NewBlock, Reorg, Finalize
<1>7. \A r \in Reportable :
          ~ ReceiveHeader(p, r) /\ ~ ReceiveBlocks(p, r) /\ ~ ReceiveNoData(p, r)
  BY <1>3 DEF ReceiveHeader, ReceiveBlocks, ReceiveNoData
<1>8. ~ ReceiveFork(p)
  BY <1>3 DEF ReceiveFork
<1>9. ~ Start(p) /\ ~ Reconfigure(p)
  BY <1>1 DEF Start, Reconfigure
<1>10. ~ Crash(p)
  <2>1. SUFFICES ASSUME Crash(p)
                 PROVE  FALSE
    OBVIOUS
  <2>2. proc'[p] = Down("crash", s.hot)
    BY <2>1 DEF Crash
  <2> QED BY <1>2, <1>5, <2>2
<1>11. ASSUME NEW u \in ProcessorState, u.stream.fork = s.stream.fork, NEW tx,
              proc'[p] = Attempt(u, tx)
       PROVE  FALSE
  <2> DEFINE good == TxFault(db, u.hot, tx) = "none"
             next == [tx EXCEPT !.nonce = db.nonce]
             v    == [u EXCEPT !.phase = "tx", !.tx = next]
  <2>1. proc'[p] = IF good THEN v ELSE Down(TxFault(db, u.hot, tx), u.hot)
    BY <1>11, Zenon DEF Attempt
  <2>2. v.stream = u.stream
    <3> HIDE DEF next
    <3> QED BY <1>11 DEF ProcessorState
  <2> HIDE DEF good, v
  <2>3. CASE good
    <3>1. proc'[p] = v
      BY <2>1, <2>3, Zenon
    <3> QED BY <1>2, <1>11, <2>2, <3>1
  <2>4. CASE ~ good
    <3>1. proc'[p] = Down(TxFault(db, u.hot, tx), u.hot)
      BY <2>1, <2>4, Zenon
    <3> QED BY <1>2, <1>5, <3>1
  <2> QED BY <2>3, <2>4
<1>12. ~ TakeBatch(p)
  <2> DEFINE blocks == s.stream.blocks
             none == << >>
             stream == [s.stream EXCEPT !.blocks = none, !.updated = FALSE]
             rest   == [s EXCEPT !.stream.blocks = << >>, !.stream.updated = FALSE]
             tx     == [base |-> StateHead(s), final |-> SubmittedFinalized(s),
                        blocks |-> blocks, nonce |-> 0, retries |-> MaxRetries,
                        slices |-> << >>]
  <2>1. SUFFICES ASSUME TakeBatch(p)
                 PROVE  FALSE
    OBVIOUS
  <2>2. \/ proc' = [proc EXCEPT ![p] = rest]
        \/ proc' = [proc EXCEPT ![p] = Down("assert", s.hot)]
        \/ proc' = [proc EXCEPT ![p] = Attempt(rest, tx)]
    BY <2>1 DEF TakeBatch
  <2>3. stream \in StreamState /\ stream.fork = s.stream.fork
    <3>1. none \in Seq(Block) /\ s.stream \in StreamState
      BY <1>1 DEF ProcessorState
    <3> HIDE DEF none, s
    <3> QED BY <3>1 DEF StreamState
  <2>4. rest = [s EXCEPT !.stream = stream]
    BY <1>1, Zenon DEF ProcessorState
  <2> HIDE DEF stream, rest, tx
  <2>5. rest \in ProcessorState /\ rest.stream = stream
    <3> HIDE DEF s
    <3> QED BY <1>1, <2>3, <2>4 DEF ProcessorState
  <2>6. proc'[p] \in {rest, Down("assert", s.hot), Attempt(rest, tx)}
    BY <2>2
  <2> QED BY <1>2, <1>5, <1>11, <2>3, <2>5, <2>6
<1>13. ~ Commit(p)
  <2>1. SUFFICES ASSUME Commit(p)
                 PROVE  FALSE
    OBVIOUS
  <2>2. proc'[p] = AfterCommit(s)
    BY <2>1 DEF Commit
  <2>3. AfterCommit(s).stream = s.stream
    <3> DEFINE tx    == s.tx
               none  == << >>
               empty == NoTx
               final == IF tx.final = Origin THEN s.final ELSE tx.final
               heads == SubSeq(s.heads, CountUpTo(s.heads, Height(final)) + 1, Len(s.heads))
                            \o tx.slices \o SliceHeads(tx)
               last  == LastOf(tx.base, tx.blocks)
    <3>1. \/ AfterCommit(s) = [s EXCEPT !.phase = "run", !.tx = empty, !.final = final,
                                        !.heads = heads]
          \/ AfterCommit(s) = [s EXCEPT !.phase = "run", !.tx = empty, !.final = last,
                                        !.heads = none]
      BY Zenon DEF AfterCommit
    <3> HIDE DEF s, none, empty, final, heads, last
    <3> QED BY <1>1, <3>1 DEF ProcessorState
  <2> QED BY <1>2, <2>2, <2>3
<1>14. \A n \in Nat : ~ Abort(p, n)
  <2>1. SUFFICES ASSUME NEW n \in Nat, Abort(p, n)
                 PROVE  FALSE
    OBVIOUS
  <2> DEFINE tx == [s.tx EXCEPT !.retries = @ - 1,
                                !.slices = @ \o SubSeq(SliceHeads(s.tx), 1, n)]
  <2>2. \/ proc' = [proc EXCEPT ![p] = Down("aborted", s.hot)]
        \/ proc' = [proc EXCEPT ![p] = Attempt(s, tx)]
    BY <2>1 DEF Abort
  <2> HIDE DEF tx
  <2>3. proc'[p] \in {Down("aborted", s.hot), Attempt(s, tx)}
    BY <2>2
  <2> QED BY <1>1, <1>2, <1>5, <1>11, <2>3
<1>15. 0..Len(s.tx.blocks) \subseteq Nat
  <2>1. s.tx.blocks \in Seq(Block)
    BY <1>1 DEF ProcessorState, TxState
  <2> QED BY <2>1
<1> HIDE DEF s
<1> QED BY <1>4, <1>6, <1>7, <1>8, <1>9, <1>10, <1>12, <1>13, <1>14, <1>15 DEF ProcessorNext, s

\* A process that starts is as it should be, if the database is made for its mode.
LEMMA SteadyAtFirst == ProcessorInit => SteadyInv
<1> SUFFICES ASSUME ProcessorInit
             PROVE  SteadyInv
  OBVIOUS
<1>1. db.status = Origin /\ db.hot = << >>
  BY DEF ProcessorInit, Init, EmptyDatabase
<1>2. On(db.status, source.fin)
  BY <1>1 DEF On
<1>3. ASSUME NEW p \in Processor
      PROVE  Steady(proc[p], db, source)
  <2>1. PICK hot : proc[p] = Down("none", hot)
    BY DEF ProcessorInit
  <2> QED BY <1>1, <2>1, SteadyDown
<1> QED BY <1>2, <1>3 DEF SteadyInv

\* The inductive invariants of a process that has the database for itself.
LEMMA SteadyAlways ==
    ASSUME Ungrouped, Lone, HotForGood
    PROVE  ProcessorSpec /\ []WindowReaches => [](ProcessorInv /\ LoneInv /\ SteadyInv)
<1>1. ProcessorInit => LoneInv
  BY DEF ProcessorInit, LoneInv, MemoryOf, Down
<1>2. ProcessorInv /\ LoneInv /\ [ProcessorNext]_vars => LoneInv'
  BY LoneNextSound
<1>3. ProcessorInv /\ LoneInv /\ SteadyInv /\ WindowReaches /\ [ProcessorNext]_vars => SteadyInv'
  BY SteadyNextSound
<1> QED BY <1>1, <1>2, <1>3, SteadyAtFirst, ProcessorInvAlways, PTL DEF ProcessorSpec

\* No other step of a process that has the database for itself ends it.
LEMMA OnlyAheadEnds ==
    ASSUME Ungrouped, Lone, ProcessorInv, LoneInv, SteadyInv, [ProcessorNext]_vars,
           NEW p \in Processor
    PROVE  OnlyAhead(proc[p], proc'[p])
<1> USE InvFacts
<1> DEFINE s == proc[p]
           t == proc'[p]
<1>1. ASSUME NEW q \in Processor
      PROVE  q = p
  BY DEF Lone
<1>2. ASSUME s.phase = "down" \/ t.phase # "down" \/ t.fault \in {"crash", "aborted"}
      PROVE  OnlyAhead(s, t)
  BY <1>2 DEF OnlyAhead
<1>3. CASE UNCHANGED vars \/ NewBlock \/ Reorg \/ Finalize
  <2>1. proc' = proc
    BY <1>3 DEF vars, NewBlock, Reorg, Finalize
  <2> QED BY <1>2, <2>1
<1>4. CASE \/ \E r \in Reportable :
                ReceiveHeader(p, r) \/ ReceiveBlocks(p, r) \/ ReceiveNoData(p, r)
           \/ ReceiveFork(p)
  <2>1. \E stream : proc' = [proc EXCEPT ![p].stream = stream]
    <3>1. CASE ReceiveFork(p)
      <4> DEFINE fork == PreviousBlocks(Top(p), Height(s.stream.pos))
                 stream == [s.stream EXCEPT !.fork = fork]
      <4>1. proc' = [proc EXCEPT ![p].stream.fork = fork]
        BY <3>1 DEF ReceiveFork
      <4>2. proc' = [proc EXCEPT ![p].stream = stream]
        BY <4>1
      <4> QED BY <4>2
    <3>2. CASE \E r \in Reportable : ReceiveBlocks(p, r)
      BY <3>2 DEF ReceiveBlocks
    <3>3. CASE \E r \in Reportable : ReceiveHeader(p, r) \/ ReceiveNoData(p, r)
      BY <3>3 DEF ReceiveHeader, ReceiveNoData
    <3> QED BY <1>4, <3>1, <3>2, <3>3
  <2>2. PICK stream : proc' = [proc EXCEPT ![p].stream = stream]
    BY <2>1
  <2>3. t = [s EXCEPT !.stream = stream] /\ s \in ProcessorState
    BY <2>2
  <2>4. t.phase = s.phase
    <3> HIDE DEF s, t
    <3> QED BY <2>3 DEF ProcessorState
  <2> QED BY <1>2, <2>4
<1>5. CASE Start(p) \/ Reconfigure(p)
  BY <1>2, <1>5 DEF Start, Reconfigure
<1>6. CASE TakeBatch(p)
  BY <1>6, SteadyTake
<1>7. CASE Commit(p)
  <2>1. t = AfterCommit(s) /\ s \in ProcessorState
    BY <1>7 DEF Commit
  <2>2. AfterCommit(s).phase = "run"
    <3> DEFINE tx    == s.tx
               none  == << >>
               empty == NoTx
               final == IF tx.final = Origin THEN s.final ELSE tx.final
               heads == SubSeq(s.heads, CountUpTo(s.heads, Height(final)) + 1, Len(s.heads))
                            \o tx.slices \o SliceHeads(tx)
               last  == LastOf(tx.base, tx.blocks)
    <3>1. \/ AfterCommit(s) = [s EXCEPT !.phase = "run", !.tx = empty, !.final = final,
                                        !.heads = heads]
          \/ AfterCommit(s) = [s EXCEPT !.phase = "run", !.tx = empty, !.final = last,
                                        !.heads = none]
      BY Zenon DEF AfterCommit
    <3> HIDE DEF s, none, empty, final, heads, last
    <3> QED BY <2>1, <3>1 DEF ProcessorState
  <2> QED BY <1>2, <2>1, <2>2
<1>8. CASE \E n \in 0..Len(s.tx.blocks) : Abort(p, n)
  <2>1. 0..Len(s.tx.blocks) \subseteq Nat
    <3>1. s.tx.blocks \in Seq(Block)
      BY DEF ProcessorState, TxState
    <3> QED BY <3>1
  <2> QED BY <1>2, <1>8, <2>1, SteadyAbort
<1>9. CASE HandleFork(p)
  BY <1>2, <1>9, SteadyHandleFork
<1>10. CASE Crash(p)
  <2>1. t = Down("crash", s.hot)
    BY <1>10 DEF Crash
  <2>2. t.fault = "crash"
    BY <2>1 DEF Down
  <2> QED BY <1>2, <2>2
<1> HIDE DEF s, t
<1> QED BY <1>1, <1>3, <1>4, <1>5, <1>6, <1>7, <1>8, <1>9, <1>10 DEF ProcessorNext, s, t

(***************************************************************************)
(* A processor that has the database for itself, and whose fork reports     *)
(* reach down to its finalized head, fails by itself on one occasion only:   *)
(* it is handed a batch without blocks after the header of a response has    *)
(* told of a finalized head above all it has, which the database refuses.    *)
(* It never takes itself for two, never finds a fork below its finalized     *)
(* head, and no transaction with blocks fails an assertion.                  *)
(***************************************************************************)
THEOREM LoneProcessorFailsOnlyAhead ==
    ASSUME Ungrouped, Lone, HotForGood
    PROVE  ProcessorSpec /\ []WindowReaches => FailsOnlyAhead
<1> DEFINE Ends(p) == OnlyAhead(proc[p], proc'[p])
<1>1. ProcessorInv /\ LoneInv /\ SteadyInv /\ [ProcessorNext]_vars
          => \A p \in Processor : Ends(p)
  BY OnlyAheadEnds
<1> HIDE DEF Ends
<1>2. (\A p \in Processor : Ends(p)) <=>
      \A p \in Processor :
          LET s == proc[p]
              t == proc'[p]
          IN  s.phase # "down" /\ t.phase = "down" /\ t.fault \notin {"crash", "aborted"} =>
                  /\ t.fault = "assert"
                  /\ s.phase = "run" /\ s.hot
                  /\ s.stream.blocks = << >>
                  /\ Height(s.stream.final) > Height(StateHead(s))
  BY DEF Ends, OnlyAhead
<1> QED BY <1>1, <1>2, SteadyAlways, PTL DEF ProcessorSpec, FailsOnlyAhead

(***************************************************************************)
(* Such a processor answers a fork by going back to the highest committed    *)
(* block that is on the chain of the report: it keeps no orphaned block, and *)
(* gives up none that is shared.                                             *)
(***************************************************************************)
THEOREM ForkIsCutAtCommonBase ==
    ASSUME Ungrouped, Lone, HotForGood
    PROVE  ProcessorSpec /\ []WindowReaches => ForkFindsCommonBase
<1> DEFINE Cut(p) ==
        LET fork == proc[p].stream.fork
        IN  fork # << >> /\ proc'[p].phase = "run" /\ proc'[p].stream.fork = << >> =>
                /\ On(StateHead(proc'[p]), fork[Len(fork)])
                /\ \A k \in Positions(db) :
                       On(RefAt(db, k), fork[Len(fork)])
                           => Height(RefAt(db, k)) <= Height(StateHead(proc'[p]))
<1>1. ProcessorInv /\ LoneInv /\ SteadyInv /\ [ProcessorNext]_vars
          => \A p \in Processor : Cut(p)
  <2> SUFFICES ASSUME ProcessorInv, LoneInv, SteadyInv, [ProcessorNext]_vars,
                      NEW p \in Processor
               PROVE  Cut(p)
    OBVIOUS
  <2>1. ASSUME proc[p].stream.fork # << >>, proc'[p].phase = "run",
               proc'[p].stream.fork = << >>
        PROVE  HandleFork(p)
    BY <2>1, ForkIsHandled
  <2> QED BY <2>1, SteadyHandleFork
<1> HIDE DEF Cut
<1>2. (\A p \in Processor : Cut(p)) <=>
      \A p \in Processor :
          LET fork == proc[p].stream.fork
          IN  fork # << >> /\ proc'[p].phase = "run" /\ proc'[p].stream.fork = << >> =>
                  /\ On(StateHead(proc'[p]), fork[Len(fork)])
                  /\ \A k \in Positions(db) :
                         On(RefAt(db, k), fork[Len(fork)])
                             => Height(RefAt(db, k)) <= Height(StateHead(proc'[p]))
  BY DEF Cut
<1> QED BY <1>1, <1>2, SteadyAlways, PTL DEF ProcessorSpec, ForkFindsCommonBase
=============================================================================
