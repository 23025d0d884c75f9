---------------------------- MODULE StreamsProofs ----------------------------
(***************************************************************************)
(* Proofs about the machines of MCStreams, for every value of their          *)
(* constants.  Each of them hands on numbered values - blocks, items - and   *)
(* each invariant says of what is under way that it is numbered without a    *)
(* gap: what was handed over from 1 on, what is buffered from there on.      *)
(***************************************************************************)
EXTENDS MCStreams, Integers, Sequences, FiniteSetTheorems, SequenceTheorems, TLAPS

\* The values of the sequence are the numbers that follow n.
Counted(s, n) == s \in Seq(Nat) /\ \A i \in 1..Len(s) : s[i] = n + i

\* And there are k of them.
CountedUpTo(s, n, k) == Counted(s, n) /\ Len(s) = k

\* The first element of a counted sequence may be moved to the end of one before it.
LEMMA CountedMove ==
    ASSUME NEW s, NEW b, Counted(s, 0), Counted(b, Len(s)), b # << >>
    PROVE  /\ Counted(Append(s, Head(b)), 0)
           /\ Counted(Tail(b), Len(s) + 1)
           /\ Len(Append(s, Head(b))) = Len(s) + 1
           /\ Len(Tail(b)) = Len(b) - 1
<1>1. s \in Seq(Nat) /\ b \in Seq(Nat) /\ Len(b) \in Nat \ {0} /\ Len(s) \in Nat
  BY DEF Counted
<1>2. Head(b) = Len(s) + 1  BY <1>1 DEF Counted
<1>3. Append(s, Head(b)) \in Seq(Nat) /\ Len(Append(s, Head(b))) = Len(s) + 1
  BY <1>1, <1>2
<1>4. ASSUME NEW i \in 1..(Len(s) + 1) PROVE Append(s, Head(b))[i] = i
  BY <1>1, <1>2 DEF Counted
<1>5. Tail(b) \in Seq(Nat) /\ Len(Tail(b)) = Len(b) - 1
  BY <1>1
<1>6. ASSUME NEW i \in 1..(Len(b) - 1) PROVE Tail(b)[i] = Len(s) + 1 + i
  <2>1. Tail(b)[i] = b[i + 1]  BY <1>1
  <2>2. i + 1 \in 1..Len(b)  BY <1>1
  <2> QED BY <1>1, <2>1, <2>2 DEF Counted
<1> QED BY <1>3, <1>4, <1>5, <1>6 DEF Counted

\* Two counted sequences of which the second continues the first are one.
LEMMA CountedConcat ==
    ASSUME NEW n \in Nat, NEW s, NEW m, NEW t, Counted(s, n), m = n + Len(s), Counted(t, m)
    PROVE  CountedUpTo(s \o t, n, Len(s) + Len(t))
<1>1. s \in Seq(Nat) /\ t \in Seq(Nat) /\ Len(s) \in Nat /\ Len(t) \in Nat  BY DEF Counted
<1>2. s \o t \in Seq(Nat) /\ Len(s \o t) = Len(s) + Len(t)  BY <1>1
<1>3. ASSUME NEW i \in 1..(Len(s) + Len(t)) PROVE (s \o t)[i] = n + i
  <2>1. CASE i <= Len(s)
    BY <1>1, <2>1 DEF Counted
  <2>2. CASE i > Len(s)
    <3>1. (s \o t)[i] = t[i - Len(s)] /\ i - Len(s) \in 1..Len(t)  BY <1>1, <2>2
    <3> QED BY <1>1, <3>1 DEF Counted
  <2> QED BY <1>1, <2>1, <2>2
<1> QED BY <1>2, <1>3 DEF Counted, CountedUpTo

\* The numbers from n + 1 on are counted.
LEMMA CountedNumbers ==
    ASSUME NEW n \in Nat, NEW k \in Nat, NEW s, s = [i \in 1..k |-> n + i]
    PROVE  Counted(s, n) /\ Len(s) = k
<1>1. s \in Seq(Nat) /\ Len(s) = k
  <2>1. s \in [1..k -> Nat]  OBVIOUS
  <2> QED BY <2>1
<1> QED BY <1>1 DEF Counted

\* And there is one counted sequence of each length.
LEMMA CountedIs ==
    ASSUME NEW s, NEW n \in Nat, Counted(s, n)
    PROVE  s = [i \in 1..Len(s) |-> n + i] /\ Len(s) \in Nat
BY DEF Counted

\* What a component does is a step of it, or it rests.
LEMMA StepOfOne ==
    ASSUME [Next]_vars
    PROVE  /\ [Queue!Next]_queueVars
           /\ [Map!Next]_mapVars
           /\ [Portal!Next]_portalVars
           /\ [Response!Next]_responseVars
           /\ [Supervisor!Next]_fallbackVars
BY DEF Next, vars, queueVars, mapVars, portalVars, responseVars, fallbackVars
------------------------------------------------------------------------------
(***************************************************************************)
(* StreamResponse: what is written, and what of the batch is left, is the    *)
(* beginning of the chain, unless the time is over.                          *)
(***************************************************************************)
ResponseOrder ==
    /\ Counted(written, 0)
    /\ Counted(batch, Len(written))
    /\ phase = "query" => written = << >> /\ batch = << >>
    /\ phase = "head" => Len(written) + Len(batch) = read
    /\ phase = "tail" => Len(written) + Len(batch) = HeadSize + TailSize
    /\ phase = "done" => Len(written) = HeadSize + TailSize

ResponseInv == Response!TypeOK /\ (~ late => ResponseOrder)

Sockets == [full : BOOLEAN, waiting : BOOLEAN, destroyed : BOOLEAN, fills : 0..MaxFills]

LEMMA SocketRecord ==
    ASSUME NEW full \in BOOLEAN, NEW waiting \in BOOLEAN, NEW destroyed \in BOOLEAN,
           NEW fills \in 0..MaxFills
    PROVE  [full |-> full, waiting |-> waiting, destroyed |-> destroyed,
            fills |-> fills] \in Sockets
BY Zenon DEF Sockets

LEMMA ResponseInit ==
    ASSUME Response!ResponseAssumption, Response!Init
    PROVE  ResponseInv
<1>1. 0 \in 0..MaxFills /\ 0 \in 0..HeadSize  BY DEF Response!ResponseAssumption
<1>2. socket \in Sockets
  <2>1. FALSE \in BOOLEAN  OBVIOUS
  <2> QED BY <1>1, <2>1, SocketRecord, Zenon DEF Response!Init
<1>3. Response!TypeOK
  BY <1>1, <1>2, Zenon DEF Sockets, Response!Init, Response!TypeOK
<1>4. ResponseOrder  BY DEF Response!Init, ResponseOrder, Counted
<1> QED BY <1>3, <1>4 DEF ResponseInv

\* The missing blocks, or the snapshot, are counted.
LEMMA ResponseRange ==
    ASSUME NEW a \in Nat, NEW k \in Nat, NEW from, NEW to, from = a + 1, to = a + k
    PROVE  CountedUpTo(Response!Range(from, to), a, k)
<1>1. Response!Range(from, to) = [i \in 1..k |-> a + i]
  BY DEF Response!Range
<1> QED BY <1>1, CountedNumbers DEF CountedUpTo

\* Every step keeps the types.
LEMMA ResponseTypes ==
    ASSUME Response!ResponseAssumption, ResponseInv, Response!Next
    PROVE  Response!TypeOK'
<1>1. socket' \in Sockets
  <2>1. socket \in Sockets  BY DEF ResponseInv, Response!TypeOK, Sockets
  <2>2. CASE UNCHANGED socket  BY <2>1, <2>2
  <2>3. CASE Response!WaitDrain  BY <2>1, <2>3 DEF Response!WaitDrain, Sockets
  <2>4. CASE Response!Fill
    <3>1. socket.fills \in 0..MaxFills /\ socket.fills < MaxFills /\ MaxFills \in Nat
      BY <2>1, <2>4 DEF Response!Fill, Response!ResponseAssumption, Sockets
    <3>2. socket.fills + 1 \in 0..MaxFills  BY <3>1
    <3>3. socket' = [socket EXCEPT !.full = TRUE, !.fills = socket.fills + 1]
      BY <2>4 DEF Response!Fill
    <3> QED BY <2>1, <3>2, <3>3 DEF Sockets
  <2>5. CASE Response!Drain  BY <2>1, <2>5 DEF Response!Drain, Sockets
  <2>6. CASE Response!Disconnect  BY <2>1, <2>6 DEF Response!Disconnect, Sockets
  <2> QED BY <2>2, <2>3, <2>4, <2>5, <2>6
          DEF Response!Next, Response!FirstBatch, Response!FirstBatchFails, Response!WriteHead,
              Response!LeaveHead, Response!PullBatch, Response!HeadDone, Response!PullFails,
              Response!WriteTail, Response!Finish, Response!Stop, Response!TimePasses
<1>2. read' \in 0..HeadSize
  BY DEF ResponseInv, Response!TypeOK, Response!ResponseAssumption, Response!Next,
         Response!FirstBatch, Response!FirstBatchFails, Response!WriteHead, Response!LeaveHead,
         Response!PullBatch, Response!HeadDone, Response!PullFails, Response!WriteTail,
         Response!Finish, Response!Stop, Response!WaitDrain, Response!Fill, Response!Drain,
         Response!Disconnect, Response!TimePasses
<1>3. /\ phase' \in {"query", "head", "tail", "done", "failed", "gone"}
      /\ source' \in {"open", "released"}
      /\ late' \in BOOLEAN
  BY DEF ResponseInv, Response!TypeOK, Response!Next, Response!End, Response!Release,
         Response!FirstBatch, Response!FirstBatchFails, Response!WriteHead, Response!LeaveHead,
         Response!PullBatch, Response!HeadDone, Response!PullFails, Response!WriteTail,
         Response!Finish, Response!Stop, Response!WaitDrain, Response!Fill, Response!Drain,
         Response!Disconnect, Response!TimePasses
<1> QED BY <1>1, <1>2, <1>3 DEF Response!TypeOK, Sockets

\* And the order of the blocks, as long as there is time.
LEMMA ResponseOrdered ==
    ASSUME Response!ResponseAssumption, ResponseInv, Response!Next, ~ late'
    PROVE  ResponseOrder'
<1>1. ~ late
  BY DEF Response!Next, Response!FirstBatch, Response!FirstBatchFails, Response!WriteHead,
         Response!LeaveHead, Response!PullBatch, Response!HeadDone, Response!PullFails,
         Response!WriteTail, Response!Finish, Response!Stop, Response!WaitDrain, Response!Fill,
         Response!Drain, Response!Disconnect, Response!TimePasses
<1>2. ResponseOrder /\ Counted(written, 0) /\ Counted(batch, Len(written))
  BY <1>1 DEF ResponseInv, ResponseOrder
<1>3. Len(written) \in Nat /\ Len(batch) \in Nat /\ read \in 0..HeadSize
      /\ HeadSize \in Nat \ {0} /\ TailSize \in Nat \ {0} /\ MaxBatch \in Nat \ {0}
  BY <1>2 DEF Counted, ResponseInv, Response!TypeOK, Response!ResponseAssumption
<1>4. CASE Response!FirstBatch
  <2>1. PICK n \in 1..MaxBatch : /\ phase = "query" /\ n <= HeadSize /\ read' = n
                                 /\ batch' = Response!Range(1, n) /\ phase' = "head"
                                 /\ written' = written
    BY <1>4 DEF Response!FirstBatch
  <2>2. written = << >>  BY <1>2, <2>1 DEF ResponseOrder
  <2>3. Counted(batch', 0) /\ Len(batch') = n
    <3>1. 0 \in Nat /\ n \in Nat /\ 1 = 0 + 1 /\ n = 0 + n  BY <1>3
    <3>2. CountedUpTo(Response!Range(1, n), 0, n)  BY <3>1, ResponseRange
    <3> QED BY <2>1, <3>2 DEF CountedUpTo
  <2> QED BY <1>2, <2>1, <2>2, <2>3 DEF ResponseOrder
<1>5. CASE Response!WriteHead \/ Response!WriteTail
  <2>1. /\ phase \in {"head", "tail"} /\ batch # << >>
        /\ written' = Append(written, Head(batch)) /\ batch' = Tail(batch)
        /\ UNCHANGED << phase, read >>
    BY <1>5 DEF Response!WriteHead, Response!WriteTail
  <2>2. /\ Counted(written', 0) /\ Counted(batch', Len(written) + 1)
        /\ Len(written') = Len(written) + 1 /\ Len(batch') = Len(batch) - 1
    BY <1>2, <2>1, CountedMove
  <2> QED BY <1>2, <1>3, <2>1, <2>2, SMTT(40) DEF ResponseOrder
<1>6. CASE Response!PullBatch
  <2>1. PICK n \in 1..MaxBatch : /\ phase = "head" /\ batch = << >> /\ read + n <= HeadSize
                                 /\ read' = read + n
                                 /\ batch' = Response!Range(read + 1, read + n)
                                 /\ UNCHANGED << phase, written >>
    BY <1>6 DEF Response!PullBatch
  <2>2. Len(written) = read  BY <1>2, <1>3, <2>1 DEF ResponseOrder
  <2>3. Counted(batch', read) /\ Len(batch') = n
    <3> DEFINE from == read + 1
               to == read + n
    <3>1. read \in Nat /\ n \in Nat /\ from = read + 1 /\ to = read + n  BY <1>3
    <3> HIDE DEF from, to
    <3>2. CountedUpTo(Response!Range(from, to), read, n)  BY <3>1, ResponseRange
    <3> QED BY <2>1, <3>2 DEF from, to, CountedUpTo
  <2> QED BY <1>2, <1>3, <2>1, <2>2, <2>3 DEF ResponseOrder
<1>7. CASE Response!HeadDone
  <2>1. /\ phase = "head" /\ batch = << >> /\ read = HeadSize /\ phase' = "tail"
        /\ batch' = Response!Snapshot /\ written' = written
    BY <1>7 DEF Response!HeadDone
  <2>2. Len(written) = HeadSize  BY <1>2, <1>3, <2>1 DEF ResponseOrder
  <2>3. Counted(batch', HeadSize) /\ Len(batch') = TailSize
    <3> DEFINE from == HeadSize + 1
               to == HeadSize + TailSize
    <3>1. HeadSize \in Nat /\ TailSize \in Nat /\ from = HeadSize + 1 /\ to = HeadSize + TailSize
      BY <1>3
    <3> HIDE DEF from, to
    <3>2. CountedUpTo(Response!Range(from, to), HeadSize, TailSize)  BY <3>1, ResponseRange
    <3> QED BY <2>1, <3>2 DEF from, to, CountedUpTo, Response!Snapshot
  <2> QED BY <1>2, <1>3, <2>1, <2>2, <2>3 DEF ResponseOrder
<1>8. CASE Response!Finish
  <2>1. phase = "tail" /\ batch = << >> /\ phase' = "done" /\ UNCHANGED << batch, written >>
    BY <1>1, <1>8 DEF Response!Finish, Response!End
  <2> QED BY <1>2, <1>3, <2>1 DEF ResponseOrder
<1>9. CASE Response!FirstBatchFails \/ Response!PullFails \/ Response!Stop
  <2>1. phase' \in {"failed", "gone"} /\ UNCHANGED << batch, written >>
    BY <1>9 DEF Response!FirstBatchFails, Response!PullFails, Response!Stop, Response!End
  <2> QED BY <1>2, <2>1 DEF ResponseOrder
<1>10. CASE Response!WaitDrain \/ Response!Fill \/ Response!Drain \/ Response!Disconnect
  <2>1. UNCHANGED << phase, read, batch, written >>
    BY <1>10 DEF Response!WaitDrain, Response!Fill, Response!Drain, Response!Disconnect
  <2> QED BY <1>2, <2>1 DEF ResponseOrder
<1>11. ~ Response!LeaveHead /\ ~ Response!TimePasses
  BY <1>1 DEF Response!LeaveHead, Response!TimePasses
<1> QED BY <1>4, <1>5, <1>6, <1>7, <1>8, <1>9, <1>10, <1>11 DEF Response!Next

LEMMA ResponseStep ==
    ASSUME Response!ResponseAssumption, ResponseInv, [Response!Next]_responseVars
    PROVE  ResponseInv'
<1>1. CASE Response!Next  BY <1>1, ResponseTypes, ResponseOrdered DEF ResponseInv
<1>2. CASE UNCHANGED responseVars
  <2>1. Response!TypeOK'  BY <1>2 DEF ResponseInv, Response!TypeOK, responseVars
  <2>2. late' = late /\ (ResponseOrder => ResponseOrder')
    BY <1>2 DEF ResponseOrder, responseVars
  <2> QED BY <2>1, <2>2 DEF ResponseInv
<1> QED BY <1>1, <1>2

\* What a data service sends in time is a chain without gaps, and complete when the
\* response ends (data-service.ts:115-156, http-app.ts:169-220).
THEOREM ResponseIsChainAlways == Spec => []ResponseIsChain
<1>1. Response!ResponseAssumption  BY StreamsAssumption DEF StreamsAssumption
<1>2. Init => ResponseInv  BY <1>1, ResponseInit DEF Init
<1>3. ResponseInv /\ [Next]_vars => ResponseInv'  BY <1>1, ResponseStep, StepOfOne
<1>4. ResponseInv => ResponseIsChain
  <2> SUFFICES ASSUME ResponseInv, ~ late
               PROVE  /\ written = Response!Range(1, Len(written))
                      /\ phase = "done" => Len(written) = HeadSize + TailSize
    BY DEF ResponseInv, ResponseIsChain, Response!ResponseIsChain
  <2>1. ResponseOrder  BY DEF ResponseInv
  <2>2. written = [i \in 1..Len(written) |-> 0 + i] /\ Len(written) \in Nat
    BY <2>1, CountedIs DEF ResponseOrder
  <2>3. Response!Range(1, Len(written)) = [i \in 1..Len(written) |-> 0 + i]
    BY <2>2 DEF Response!Range
  <2> QED BY <2>1, <2>2, <2>3 DEF ResponseOrder
<1> QED BY <1>2, <1>3, <1>4, PTL DEF Spec
------------------------------------------------------------------------------
(***************************************************************************)
(* PortalStream: what the consumer has got and what is buffered is what was  *)
(* read; who waits can be woken; the stream ends behind its last block.      *)
(***************************************************************************)
Buffers == [blocks : Seq(Nat), headUpdated : BOOLEAN, state : {"open", "closed", "failed"},
            put : BOOLEAN, take : BOOLEAN, timeouted : BOOLEAN, idle : BOOLEAN, wait : BOOLEAN]

PortalTypes ==
    /\ Portal!TypeOK
    /\ buffer \in Buffers

PortalOrder ==
    /\ Counted(got, 0)
    /\ Counted(buffer.blocks, Len(got))
    /\ Len(got) + Len(buffer.blocks) = fromBlock - 1

\* An open buffer is full only while put() waits, for a take that is not over yet.
PortalWaits ==
    Portal!Open =>
        /\ ingest = "putting" => buffer.put \/ buffer.take
        /\ ingest # "putting" \/ buffer.take => ~ Portal!Full(buffer)
        /\ buffer.put => Portal!HasData(buffer)

PortalEnds ==
    /\ buffer.state = "closed" => consumer = "left" \/ fromBlock = ToBlock + 1
    /\ consumer = "done" => buffer.state = "closed" /\ buffer.blocks = << >>
    /\ consumer = "threw" => buffer.state = "failed" /\ buffer.blocks = << >>

PortalInv == PortalTypes /\ PortalOrder /\ PortalWaits /\ PortalEnds

LEMMA PortalInit ==
    ASSUME Portal!PortalAssumption, Portal!Init
    PROVE  PortalInv
<1>1. buffer \in Buffers  BY DEF Portal!Init, Buffers
<1>2. /\ buffer.blocks = << >> /\ buffer.state = "open" /\ ~ buffer.put
      /\ ingest = "request" /\ fromBlock = 1 /\ consumer = "idle" /\ got = << >> /\ used = 0
  BY DEF Portal!Init
<1>3. Portal!TypeOK  BY <1>2 DEF Portal!PortalAssumption, Portal!TypeOK
<1>4. PortalOrder  BY <1>2 DEF PortalOrder, Counted
<1>5. PortalWaits  BY <1>2 DEF PortalWaits, Portal!Full, Portal!PortalAssumption
<1>6. PortalEnds  BY <1>2 DEF PortalEnds
<1> QED BY <1>1, <1>3, <1>4, <1>5, <1>6 DEF PortalInv, PortalTypes

\* flush(), updateHead(), close() and fail() leave the blocks alone.
LEMMA FlushIs ==
    ASSUME NEW b \in Buffers
    PROVE  /\ Portal!Flush(b) \in Buffers
           /\ Portal!Flush(b).blocks = b.blocks
           /\ Portal!Flush(b).headUpdated = b.headUpdated
           /\ Portal!Flush(b).state = b.state
           /\ Portal!Flush(b).take = b.take
           /\ Portal!HasData(b) => Portal!Flush(b).put
           /\ ~ Portal!HasData(b) => Portal!Flush(b) = b
BY DEF Portal!Flush, Portal!StopTimers, Buffers

LEMMA UpdateHeadIs ==
    ASSUME NEW b \in Buffers
    PROVE  /\ Portal!UpdateHead(b) \in Buffers
           /\ Portal!UpdateHead(b) = [b EXCEPT !.headUpdated = TRUE]
           /\ Portal!UpdateHead(b).headUpdated
           /\ Portal!UpdateHead(b).blocks = b.blocks
           /\ Portal!UpdateHead(b).state = b.state
           /\ Portal!UpdateHead(b).take = b.take
           /\ Portal!UpdateHead(b).put = b.put
BY DEF Portal!UpdateHead, Buffers

LEMMA TerminateIs ==
    ASSUME NEW b \in Buffers, NEW how \in {"closed", "failed"}
    PROVE  /\ Portal!Terminate(b, how) \in Buffers
           /\ Portal!Terminate(b, how).blocks = b.blocks
           /\ b.state = "open" => Portal!Terminate(b, how).state = how
           /\ b.state # "open" => Portal!Terminate(b, how) = b
BY DEF Portal!Terminate, Portal!StopTimers, Buffers

\* put(): a full buffer is shown, and closed to further puts.
LEMMA PutInIs ==
    ASSUME NEW b \in Buffers, NEW blocks \in Seq(Nat), blocks # << >>, MaxBytes \in Nat
    PROVE  /\ Portal!PutIn(b, blocks) \in Buffers
           /\ Portal!PutIn(b, blocks).blocks = b.blocks \o blocks
           /\ Portal!PutIn(b, blocks).state = b.state
           /\ Portal!HasData(Portal!PutIn(b, blocks))
           /\ Portal!Full(Portal!PutIn(b, blocks)) =>
                 Portal!PutIn(b, blocks).put /\ ~ Portal!PutIn(b, blocks).take
<1> DEFINE both == b.blocks \o blocks
           added == [b EXCEPT !.blocks = @ \o blocks, !.idle = FALSE]
           shown == IF b.timeouted \/ Portal!Full(added) THEN Portal!Flush(added) ELSE added
<1>1. added \in Buffers /\ added.blocks = both /\ added.state = b.state
  <2>1. both \in Seq(Nat)  BY DEF Buffers
  <2>2. added = [b EXCEPT !.blocks = both, !.idle = FALSE]  OBVIOUS
  <2> HIDE DEF both, added
  <2> QED BY <2>1, <2>2 DEF Buffers
<1>2. added.blocks # << >>
  BY <1>1 DEF Buffers
<1> HIDE DEF added
<1>3. /\ shown \in Buffers /\ shown.blocks = added.blocks /\ shown.state = added.state
      /\ Portal!Full(added) => shown.put
  BY <1>1, <1>2, FlushIs DEF Portal!HasData
<1> HIDE DEF shown
<1>4. Portal!PutIn(b, blocks) =
        IF Portal!Full(shown) THEN [shown EXCEPT !.take = FALSE] ELSE [shown EXCEPT !.idle = TRUE]
  BY Zenon DEF Portal!PutIn, shown, added
<1>5. Portal!Full(shown) <=> Portal!Full(added)  BY <1>3 DEF Portal!Full
<1>6. CASE Portal!Full(shown)
  <2>1. Portal!PutIn(b, blocks) = [shown EXCEPT !.take = FALSE]  BY <1>4, <1>6
  <2> QED BY <1>1, <1>2, <1>3, <1>5, <1>6, <2>1 DEF Buffers, Portal!HasData
<1>7. CASE ~ Portal!Full(shown)
  <2>1. Portal!PutIn(b, blocks) = [shown EXCEPT !.idle = TRUE]  BY <1>4, <1>7
  <2>2. Portal!PutIn(b, blocks).blocks = shown.blocks  BY <1>3, <2>1 DEF Buffers
  <2>3. ~ Portal!Full(Portal!PutIn(b, blocks))  BY <1>7, <2>2 DEF Portal!Full
  <2> QED BY <1>1, <1>2, <1>3, <2>1, <2>2, <2>3 DEF Buffers, Portal!HasData
<1> QED BY <1>6, <1>7
\* The steps of ingest() that read no block.
LEMMA PortalRequests ==
    ASSUME Portal!PortalAssumption, PortalInv,
           \/ Portal!AnswerData \/ Portal!AnswerNoData \/ Portal!PollAgain \/ Portal!AnswerFails
           \/ Portal!Reset \/ Portal!ResponseEnds \/ Portal!PutResumes \/ Portal!RangeEnds
           \/ Portal!Aborted
    PROVE  PortalInv'
<1>1. buffer \in Buffers /\ fromBlock' = fromBlock /\ got' = got /\ consumer' = consumer
  BY DEF PortalInv, PortalTypes, Portal!AnswerData, Portal!AnswerNoData, Portal!PollAgain,
         Portal!AnswerFails, Portal!Reset, Portal!ResponseEnds, Portal!PutResumes,
         Portal!RangeEnds, Portal!Aborted
<1>2. used \in 0..MaxFaults /\ used' \in 0..MaxFaults
  BY DEF PortalInv, PortalTypes, Portal!TypeOK, Portal!PortalAssumption, Portal!AnswerData,
         Portal!AnswerNoData, Portal!PollAgain, Portal!AnswerFails, Portal!Reset,
         Portal!ResponseEnds, Portal!PutResumes, Portal!RangeEnds, Portal!Aborted
<1> DEFINE Shown(b) ==      \* UpdateHead, Flush, or both, or none
             /\ b \in Buffers /\ b.blocks = buffer.blocks /\ b.state = buffer.state
             /\ b.take = buffer.take
             /\ Portal!HasData(buffer) => Portal!HasData(b)
             /\ b.put => buffer.put \/ Portal!HasData(b)
             /\ buffer.put => b.put
<1>3. Shown(buffer) /\ Shown(Portal!UpdateHead(buffer)) /\ Shown(Portal!Flush(buffer))
      /\ Shown(Portal!Flush(Portal!UpdateHead(buffer)))
  <2>1. Shown(buffer)  BY <1>1
  <2>2. Shown(Portal!UpdateHead(buffer))  BY <1>1, UpdateHeadIs DEF Portal!HasData
  <2>3. Shown(Portal!Flush(buffer))
    BY <1>1, FlushIs DEF Portal!HasData
  <2>4. Shown(Portal!Flush(Portal!UpdateHead(buffer)))
    BY <1>1, UpdateHeadIs, FlushIs DEF Portal!HasData
  <2> QED BY <2>1, <2>2, <2>3, <2>4
<1>4. ASSUME buffer' \in Buffers, buffer'.blocks = buffer.blocks,
             ingest' \in {"request", "reading", "putting", "polling", "ended"}
      PROVE  PortalTypes' /\ PortalOrder'
  BY <1>1, <1>2, <1>4 DEF PortalInv, PortalTypes, PortalOrder, Portal!TypeOK, Buffers
<1>5. ASSUME Portal!Open, Shown(buffer'), ingest # "putting",
             ingest' \in {"request", "reading", "polling"}
      PROVE  PortalInv'
  <2>1. PortalTypes' /\ PortalOrder'  BY <1>4, <1>5
  <2>2. PortalWaits'
    BY <1>5 DEF PortalInv, PortalWaits, Portal!Open, Portal!Full
  <2>3. PortalEnds'  BY <1>1, <1>5 DEF PortalInv, PortalEnds
  <2> QED BY <2>1, <2>2, <2>3 DEF PortalInv
<1>6. ASSUME buffer' \in Buffers, buffer'.blocks = buffer.blocks, ~ Portal!Open',
             ingest' = "ended",
             \/ buffer'.state = buffer.state
             \/ buffer.state = "open" /\ buffer'.state = "failed"
             \/ buffer.state = "open" /\ fromBlock = ToBlock + 1
      PROVE  PortalInv'
  <2>1. PortalTypes' /\ PortalOrder'  BY <1>4, <1>6
  <2>2. PortalWaits'  BY <1>6 DEF PortalWaits
  <2>3. PortalEnds'  BY <1>1, <1>6 DEF PortalInv, PortalEnds
  <2> QED BY <2>1, <2>2, <2>3 DEF PortalInv
<1>7. CASE Portal!AnswerData \/ Portal!AnswerNoData \/ Portal!PollAgain \/ Portal!Reset
           \/ Portal!ResponseEnds
  <2>1. /\ Portal!Open /\ ingest # "putting" /\ ingest' \in {"request", "reading", "polling"}
        /\ \/ buffer' = buffer \/ buffer' = Portal!UpdateHead(buffer)
           \/ buffer' = Portal!Flush(buffer) \/ buffer' = Portal!Flush(Portal!UpdateHead(buffer))
    BY <1>7 DEF Portal!AnswerData, Portal!AnswerNoData, Portal!PollAgain, Portal!Reset,
                Portal!ResponseEnds
  <2>2. Shown(buffer')  BY <1>3, <2>1, Zenon
  <2> QED BY <1>5, <2>1, <2>2
<1>8. CASE Portal!AnswerFails
  <2>1. Portal!Open /\ ingest' = "ended" /\ buffer' = Portal!Terminate(buffer, "failed")
    BY <1>8 DEF Portal!AnswerFails
  <2>2. buffer' \in Buffers /\ buffer'.blocks = buffer.blocks /\ buffer'.state = "failed"
    BY <1>1, <2>1, TerminateIs DEF Portal!Open
  <2> QED BY <1>6, <2>1, <2>2 DEF Portal!Open
<1>9. CASE Portal!RangeEnds
  <2>1. /\ Portal!Open /\ fromBlock > ToBlock /\ ingest' = "ended"
        /\ buffer' = Portal!Terminate(Portal!Flush(buffer), "closed")
    BY <1>9 DEF Portal!RangeEnds
  <2>2. buffer' \in Buffers /\ buffer'.blocks = buffer.blocks /\ buffer'.state = "closed"
    BY <1>1, <2>1, TerminateIs, FlushIs DEF Portal!Open
  <2>3. fromBlock = ToBlock + 1
    BY <2>1 DEF PortalInv, PortalTypes, Portal!TypeOK, Portal!PortalAssumption
  <2> QED BY <1>6, <2>1, <2>2, <2>3 DEF Portal!Open
<1>10. CASE Portal!Aborted
  BY <1>1, <1>6, <1>10 DEF Portal!Aborted, Portal!Open
<1>11. CASE Portal!PutResumes
  <2>1. /\ Portal!Open /\ buffer.take /\ ingest' = "reading"
        /\ buffer' = [buffer EXCEPT !.idle = TRUE]
    BY <1>11 DEF Portal!PutResumes
  <2>2. /\ buffer' \in Buffers /\ buffer'.blocks = buffer.blocks /\ buffer'.state = buffer.state
        /\ buffer'.headUpdated = buffer.headUpdated
        /\ buffer'.put = buffer.put /\ buffer'.take = buffer.take
    BY <1>1, <2>1 DEF Buffers
  <2>3. PortalTypes' /\ PortalOrder'  BY <1>4, <2>1, <2>2
  <2>4. PortalWaits'
    BY <2>1, <2>2 DEF PortalInv, PortalWaits, Portal!Open, Portal!Full, Portal!HasData
  <2>5. PortalEnds'  BY <1>1, <2>2 DEF PortalInv, PortalEnds
  <2> QED BY <2>3, <2>4, <2>5 DEF PortalInv
<1> QED BY <1>7, <1>8, <1>9, <1>10, <1>11

\* A chunk is read: its blocks go on where the buffer ends.
LEMMA PortalReads ==
    ASSUME Portal!PortalAssumption, PortalInv, Portal!ReadChunk
    PROVE  PortalInv'
<1>1. PICK n \in 1..MaxLines :
        /\ ingest = "reading" /\ Portal!Open /\ fromBlock + n - 1 <= ToBlock
        /\ fromBlock' = fromBlock + n
        /\ buffer' = Portal!PutIn(buffer, [i \in 1..n |-> fromBlock + i - 1])
        /\ ingest' = (IF Portal!Full(buffer') THEN "putting" ELSE "reading")
        /\ UNCHANGED << consumer, got, used >>
  BY Zenon DEF Portal!ReadChunk
<1> DEFINE blocks == [i \in 1..n |-> fromBlock + i - 1]
           have == Len(got) + Len(buffer.blocks)
<1>2. /\ buffer \in Buffers /\ Len(got) \in Nat /\ Len(buffer.blocks) \in Nat
      /\ fromBlock = have + 1 /\ n \in Nat \ {0} /\ have \in Nat
      /\ MaxBytes \in Nat \ {0} /\ MaxLines \in Nat \ {0} /\ ToBlock \in Nat \ {0}
  BY <1>1 DEF PortalInv, PortalTypes, PortalOrder, Counted, Portal!TypeOK, Portal!PortalAssumption
<1>3. Counted(blocks, have) /\ Len(blocks) = n
  <2> HIDE DEF have
  <2>1. blocks = [i \in 1..n |-> have + i]  BY <1>2
  <2> QED BY <1>2, <2>1, CountedNumbers
<1>4. blocks \in Seq(Nat) /\ blocks # << >>  BY <1>2, <1>3 DEF Counted
<1>5. buffer' = Portal!PutIn(buffer, blocks)  BY <1>1
<1> HIDE DEF blocks
<1>6. /\ buffer' \in Buffers /\ buffer'.blocks = buffer.blocks \o blocks
      /\ buffer'.state = buffer.state /\ Portal!HasData(buffer')
      /\ Portal!Full(buffer') => buffer'.put /\ ~ buffer'.take
  BY <1>2, <1>4, <1>5, PutInIs
<1>7. Counted(buffer'.blocks, Len(got)) /\ Len(buffer'.blocks) = Len(buffer.blocks) + n
  <2>1. Counted(buffer.blocks, Len(got))  BY DEF PortalInv, PortalOrder
  <2> HIDE DEF have
  <2>2. Counted(blocks, have)  BY <1>3
  <2>3. have = Len(got) + Len(buffer.blocks)  BY DEF have
  <2>4. CountedUpTo(buffer.blocks \o blocks, Len(got), Len(buffer.blocks) + Len(blocks))
    BY <1>2, <2>1, <2>2, <2>3, CountedConcat
  <2> QED BY <1>3, <1>6, <2>4 DEF CountedUpTo
<1>8. PortalOrder'
  <2>1. Len(got') + Len(buffer'.blocks) = fromBlock' - 1
    <3> DEFINE g == Len(got)
               b == Len(buffer.blocks)
    <3>1. Len(got') = g /\ Len(buffer'.blocks) = b + n /\ fromBlock' = fromBlock + n
      BY <1>1, <1>7
    <3>2. g \in Nat /\ b \in Nat /\ n \in Nat /\ fromBlock = g + b + 1  BY <1>2
    <3> HIDE DEF g, b
    <3> QED BY <3>1, <3>2
  <2>2. Counted(got', 0) /\ Counted(buffer'.blocks, Len(got'))
    BY <1>1, <1>7 DEF PortalInv, PortalOrder
  <2> QED BY <2>1, <2>2 DEF PortalOrder
<1>9. Len(buffer.blocks) < MaxBytes
  BY <1>1, <1>2 DEF PortalInv, PortalWaits, Portal!Full
<1>10. PortalTypes'
  <2>1. Len(buffer'.blocks) < MaxBytes + MaxLines  BY <1>1, <1>2, <1>7, <1>9
  <2>2. fromBlock' \in 1..(ToBlock + 1)  BY <1>1, <1>2
  <2>3. ingest' \in {"reading", "putting"}  BY <1>1
  <2>4. buffer'.state \in {"open", "closed", "failed"}  BY <1>6 DEF Buffers
  <2> QED BY <1>1, <1>6, <2>1, <2>2, <2>3, <2>4 DEF PortalInv, PortalTypes, Portal!TypeOK
<1>11. PortalWaits'
  BY <1>1, <1>6 DEF PortalWaits
<1>12. PortalEnds'
  BY <1>1, <1>6 DEF PortalInv, PortalEnds, Portal!Open
<1> QED BY <1>8, <1>10, <1>11, <1>12 DEF PortalInv

\* The timers show what is there to the consumer, and change nothing else.
LEMMA PortalTimers ==
    ASSUME PortalInv, Portal!IdleTimer \/ Portal!WaitTimer
    PROVE  PortalInv'
<1>1. buffer \in Buffers /\ UNCHANGED << ingest, fromBlock, consumer, got, used >>
  BY DEF PortalInv, PortalTypes, Portal!IdleTimer, Portal!WaitTimer
<1>2. /\ buffer' \in Buffers /\ buffer'.blocks = buffer.blocks /\ buffer'.state = buffer.state
      /\ buffer'.headUpdated = buffer.headUpdated /\ buffer'.take = buffer.take
      /\ buffer'.put => buffer.put \/ Portal!HasData(buffer')
      /\ buffer.put => buffer'.put
  <2>1. CASE Portal!IdleTimer
    <3> DEFINE b == [buffer EXCEPT !.idle = FALSE]
    <3>1. /\ b \in Buffers /\ b.blocks = buffer.blocks /\ b.state = buffer.state
          /\ b.headUpdated = buffer.headUpdated /\ b.take = buffer.take /\ b.put = buffer.put
      BY <1>1 DEF Buffers
    <3>2. buffer' = Portal!Flush(b)  BY <2>1 DEF Portal!IdleTimer
    <3> HIDE DEF b
    <3> QED BY <3>1, <3>2, FlushIs DEF Portal!HasData
  <2>2. CASE Portal!WaitTimer
    BY <1>1, <2>2 DEF Portal!WaitTimer, Buffers
  <2> QED BY <2>1, <2>2
<1>3. PortalTypes' /\ PortalOrder'
  BY <1>1, <1>2 DEF PortalInv, PortalTypes, PortalOrder, Portal!TypeOK
<1>4. PortalWaits'
  BY <1>1, <1>2 DEF PortalInv, PortalWaits, Portal!Open, Portal!Full, Portal!HasData
<1>5. PortalEnds'  BY <1>1, <1>2 DEF PortalInv, PortalEnds
<1> QED BY <1>3, <1>4, <1>5 DEF PortalInv
\* The consumer takes what is there, and gets the end behind it.
LEMMA PortalTakes ==
    ASSUME Portal!PortalAssumption, PortalInv, Portal!Take \/ Portal!TakeResumes
    PROVE  PortalInv'
<1>1. /\ buffer \in Buffers /\ Counted(got, 0) /\ Counted(buffer.blocks, Len(got))
      /\ Len(got) + Len(buffer.blocks) = fromBlock - 1
      /\ fromBlock \in 1..(ToBlock + 1) /\ Len(got) \in Nat /\ Len(buffer.blocks) \in Nat
      /\ ToBlock \in Nat \ {0} /\ MaxBytes \in Nat \ {0} /\ MaxLines \in Nat \ {0}
  BY DEF PortalInv, PortalTypes, PortalOrder, Counted, Portal!TypeOK, Portal!PortalAssumption
<1>2. UNCHANGED << ingest, fromBlock, used >> /\ consumer \in {"idle", "taking"}
  BY DEF Portal!Take, Portal!TakeResumes
<1>3. CASE Portal!Open /\ Portal!Take
  <2>1. /\ consumer' = "taking" /\ got' = got
        /\ buffer' = [buffer EXCEPT !.wait = TRUE]
    BY <1>3 DEF Portal!Take
  <2>2. /\ buffer' \in Buffers /\ buffer'.blocks = buffer.blocks /\ buffer'.state = buffer.state
        /\ buffer'.headUpdated = buffer.headUpdated
        /\ buffer'.put = buffer.put /\ buffer'.take = buffer.take
    BY <1>1, <2>1 DEF Buffers
  <2>3. PortalTypes' /\ PortalOrder'
    BY <1>2, <2>1, <2>2 DEF PortalInv, PortalTypes, PortalOrder, Portal!TypeOK
  <2>4. PortalWaits'
    BY <1>2, <2>2 DEF PortalInv, PortalWaits, Portal!Open, Portal!Full, Portal!HasData
  <2>5. PortalEnds'
    BY <1>2, <2>1, <2>2 DEF PortalInv, PortalEnds
  <2> QED BY <2>3, <2>4, <2>5 DEF PortalInv
<1>4. CASE ~ (Portal!Open /\ Portal!Take)
  <2>1. /\ Portal!Collect
        /\ \/ buffer' = Portal!Collected(buffer) /\ ~ Portal!Open
           \/ buffer' = Portal!Taken(buffer) /\ buffer.put
    BY <1>4 DEF Portal!Take, Portal!TakeResumes
  <2>2. /\ buffer' \in Buffers /\ buffer'.blocks = << >> /\ buffer'.state = buffer.state
        /\ Portal!Open => ~ buffer'.put /\ buffer'.take
    <3> DEFINE b == [buffer EXCEPT !.blocks = << >>, !.headUpdated = FALSE]
    <3>1. b \in Buffers /\ b.blocks = << >> /\ b.state = buffer.state
      <4>1. << >> \in Seq(Nat)  OBVIOUS
      <4> QED BY <1>1, <4>1, Zenon DEF Buffers
    <3>2. Portal!Collected(buffer) = b  BY DEF Portal!Collected
    <3> HIDE DEF b
    <3>3. CASE buffer' = Portal!Collected(buffer) /\ ~ Portal!Open  BY <3>1, <3>2, <3>3
    <3>4. CASE buffer' = Portal!Taken(buffer)
      BY <3>1, <3>2, <3>4 DEF Buffers, Portal!Taken
    <3> QED BY <2>1, <3>3, <3>4
  <2>3. Len(buffer'.blocks) = 0  BY <2>2
  <2>4. CASE Portal!HasData(buffer)
    <3>1. consumer' = "idle" /\ got' = got \o buffer.blocks  BY <2>1, <2>4 DEF Portal!Collect
    <3>2. Len(got) = 0 + Len(got) /\ 0 \in Nat  BY <1>1
    <3>3. CountedUpTo(got', 0, Len(got) + Len(buffer.blocks))
      BY <1>1, <3>1, <3>2, CountedConcat
    <3>4. PortalOrder'
      BY <1>1, <1>2, <2>2, <2>3, <3>3 DEF PortalOrder, Counted, CountedUpTo
    <3>5. PortalTypes'
      BY <1>1, <1>2, <2>2, <2>3, <3>1 DEF PortalInv, PortalTypes, Portal!TypeOK
    <3>6. PortalWaits'
      BY <1>1, <1>2, <2>2, <2>3 DEF PortalWaits, Portal!Open, Portal!Full
    <3>7. PortalEnds'
      BY <1>2, <2>2, <3>1 DEF PortalInv, PortalEnds
    <3> QED BY <3>4, <3>5, <3>6, <3>7 DEF PortalInv
  <2>5. CASE ~ Portal!HasData(buffer)
    <3>1. /\ consumer' = (IF buffer.state = "failed" THEN "threw" ELSE "done")
          /\ got' = got /\ buffer.blocks = << >> /\ ~ Portal!Open
      BY <2>1, <2>5 DEF Portal!Collect, Portal!HasData, PortalInv, PortalWaits
    <3>2. buffer.state \in {"closed", "failed"}
      BY <1>1, <3>1 DEF Buffers, Portal!Open
    <3>3. PortalOrder'
      BY <1>1, <1>2, <2>2, <3>1 DEF PortalOrder
    <3>4. PortalTypes'
      BY <1>1, <1>2, <2>2, <2>3, <3>1 DEF PortalInv, PortalTypes, Portal!TypeOK
    <3>5. PortalWaits'
      BY <2>2, <3>1 DEF PortalWaits, Portal!Open
    <3>6. PortalEnds'
      BY <1>2, <2>2, <3>1, <3>2 DEF PortalInv, PortalEnds
    <3> QED BY <3>3, <3>4, <3>5, <3>6 DEF PortalInv
  <2> QED BY <2>4, <2>5
<1> QED BY <1>3, <1>4

LEMMA PortalLeaves ==
    ASSUME PortalInv, Portal!Leave
    PROVE  PortalInv'
<1>1. /\ buffer \in Buffers /\ consumer' = "left"
      /\ buffer' = Portal!Terminate(buffer, "closed")
      /\ UNCHANGED << ingest, fromBlock, got, used >>
  BY DEF PortalInv, PortalTypes, Portal!Leave
<1>2. /\ buffer' \in Buffers /\ buffer'.blocks = buffer.blocks /\ buffer'.state # "open"
  BY <1>1, TerminateIs
<1>3. PortalTypes' /\ PortalOrder'
  BY <1>1, <1>2 DEF PortalInv, PortalTypes, PortalOrder, Portal!TypeOK, Buffers
<1>4. PortalWaits'  BY <1>2 DEF PortalWaits, Portal!Open
<1>5. PortalEnds'  BY <1>1 DEF PortalEnds
<1> QED BY <1>3, <1>4, <1>5 DEF PortalInv

LEMMA PortalStep ==
    ASSUME Portal!PortalAssumption, PortalInv, [Portal!Next]_portalVars
    PROVE  PortalInv'
<1>1. CASE Portal!Next
  BY <1>1, PortalRequests, PortalReads, PortalTimers, PortalTakes, PortalLeaves, Zenon
     DEF Portal!Next
<1>2. CASE UNCHANGED portalVars
  <2>1. UNCHANGED << ingest, fromBlock, buffer, consumer, got, used >>  BY <1>2 DEF portalVars
  <2>2. PortalTypes' /\ PortalOrder'
    BY <2>1 DEF PortalInv, PortalTypes, PortalOrder, Portal!TypeOK
  <2>3. PortalWaits' /\ PortalEnds'
    BY <2>1 DEF PortalInv, PortalWaits, PortalEnds, Portal!Open, Portal!Full, Portal!HasData
  <2> QED BY <2>2, <2>3 DEF PortalInv
<1> QED BY <1>1, <1>2

\* Every block the portal client has read gets to the consumer once and in order; the
\* stream ends or throws only after them, and put() and take() do not wait for each other
\* (client.ts: ingest(), PortalStreamBuffer).
THEOREM StreamIsSoundAlways == Spec => []StreamIsSound
<1>1. Portal!PortalAssumption  BY StreamsAssumption DEF StreamsAssumption
<1>2. Init => PortalInv  BY <1>1, PortalInit DEF Init
<1>3. PortalInv /\ [Next]_vars => PortalInv'  BY <1>1, PortalStep, StepOfOne
<1>4. PortalInv => StreamIsSound
  <2> SUFFICES ASSUME PortalInv
               PROVE  /\ Portal!TypeOK /\ Portal!NothingLost
                      /\ Portal!EndsAfterData /\ Portal!NoStandoff
    BY DEF StreamIsSound, Portal!StreamIsSound
  <2>1. /\ Counted(got, 0) /\ Counted(buffer.blocks, Len(got))
        /\ Len(got) + Len(buffer.blocks) = fromBlock - 1
        /\ Len(got) \in Nat /\ Len(buffer.blocks) \in Nat
    BY DEF PortalInv, PortalOrder, Counted
  <2>2. ASSUME NEW s, Counted(s, 0) PROVE s = Portal!UpTo(Len(s))
    <3>1. s = [i \in 1..Len(s) |-> 0 + i]  BY <2>2, CountedIs
    <3> QED BY <3>1 DEF Portal!UpTo
  <2>3. Counted(got \o buffer.blocks, 0) /\ Len(got \o buffer.blocks) = fromBlock - 1
    <3>1. Len(got) = 0 + Len(got) /\ 0 \in Nat  BY <2>1
    <3>2. CountedUpTo(got \o buffer.blocks, 0, Len(got) + Len(buffer.blocks))
      BY <2>1, <3>1, CountedConcat
    <3> QED BY <2>1, <3>2 DEF CountedUpTo
  <2>4. Portal!NothingLost  BY <2>2, <2>3 DEF Portal!NothingLost
  <2>5. Portal!EndsAfterData
    <3>1. fromBlock \in 1..(ToBlock + 1) /\ ToBlock \in Nat
      BY <1>1 DEF PortalInv, PortalTypes, Portal!TypeOK, Portal!PortalAssumption
    <3>2. consumer = "done" => Len(got) = ToBlock
      BY <2>1, <3>1 DEF PortalInv, PortalEnds
    <3>3. consumer = "threw" => Len(got) = fromBlock - 1
      BY <2>1, <3>1 DEF PortalInv, PortalEnds
    <3>4. got = Portal!UpTo(Len(got))  BY <2>1, <2>2
    <3> QED BY <3>2, <3>3, <3>4 DEF Portal!EndsAfterData
  <2>6. Portal!NoStandoff  BY DEF PortalInv, PortalWaits, Portal!NoStandoff
  <2> QED BY <2>4, <2>5, <2>6 DEF PortalInv, PortalTypes
<1> QED BY <1>2, <1>3, <1>4, PTL DEF Spec
------------------------------------------------------------------------------
(***************************************************************************)
(* Fallback: the batch that is under way begins behind the last block that   *)
(* was processed; and what is known of a source is known of its last life,   *)
(* as long as no probe outlasts a cooldown.                                  *)
(***************************************************************************)
Healths == [state : {"unknown", "healthy", "unhealthy"},
            pass : 0..RecoverThreshold, fail : 0..(FailThreshold - 1),
            capabilityOk : BOOLEAN, probe : {"none", "fresh", "old"}, proven : BOOLEAN]

\* A source is healthy for its capability, and that is proven; an old probe cannot tell,
\* for it meets a source that is still unhealthy.
Sane(h) ==
    /\ h \in Healths
    /\ h.state = "healthy" => h.capabilityOk
    /\ h.capabilityOk => h.proven
    /\ h.probe = "old" => h.state = "unhealthy"

FallbackTypes ==
    /\ Supervisor!TypeOK
    /\ height \in [Supervisor!Source -> Nat]

FallbackHealth == \A s \in Supervisor!Source : Sane(health[s])

FallbackOrder ==
    /\ Counted(given, 0)
    /\ Counted(next.blocks, position)
    /\ position + Len(next.blocks) <= To
    /\ drive = "yielded" => Len(given) = position + Len(next.blocks)
    /\ drive \notin Supervisor!Ended \cup {"yielded"} => Len(given) = position

FallbackInv == FallbackTypes /\ FallbackHealth /\ FallbackOrder

LEMMA TwoMin ==
    ASSUME NEW a \in Int, NEW b \in Int
    PROVE  Supervisor!Min({a, b}) = IF a <= b THEN a ELSE b
BY DEF Supervisor!Min

\* The transitions of SourceHealth.
LEMMA ToUnhealthySane ==
    ASSUME Supervisor!FallbackAssumption, NEW s, NEW h, Sane(h)
    PROVE  Sane(Supervisor!ToUnhealthy(s, h))
<1> DEFINE can == s \notin Probed
           probe == IF h.probe = "none" THEN h.probe ELSE "old"
           failed == [h EXCEPT !.state = "unhealthy", !.pass = 0, !.fail = 0,
                               !.capabilityOk = can, !.probe = probe, !.proven = can]
<1>1. can \in BOOLEAN /\ probe \in {"none", "fresh", "old"} /\ h \in Healths
  BY DEF Sane
<1>2. Supervisor!ToUnhealthy(s, h) = failed
  BY DEF Supervisor!ToUnhealthy
<1>3. 0 \in 0..RecoverThreshold /\ 0 \in 0..(FailThreshold - 1)
  BY DEF Supervisor!FallbackAssumption
<1> HIDE DEF can, probe
<1>4. failed \in Healths  BY <1>1, <1>3, Zenon DEF Healths
<1>5. failed.state = "unhealthy" /\ failed.capabilityOk = can /\ failed.proven = can
  BY <1>1 DEF Healths
<1> HIDE DEF failed
<1> QED BY <1>1, <1>2, <1>4, <1>5 DEF Sane

LEMMA MaybeHealthySane ==
    ASSUME NEW h, Sane(h), h.state # "unhealthy"
    PROVE  Sane(Supervisor!MaybeHealthy(h))
<1>1. CASE h.capabilityOk /\ h.pass >= RecoverThreshold
  <2>1. Supervisor!MaybeHealthy(h) = [h EXCEPT !.state = "healthy"]
    BY <1>1 DEF Supervisor!MaybeHealthy
  <2> QED BY <1>1, <2>1 DEF Sane, Healths
<1>2. CASE ~ (h.capabilityOk /\ h.pass >= RecoverThreshold)
  BY <1>2 DEF Supervisor!MaybeHealthy
<1> QED BY <1>1, <1>2

LEMMA LivenessPassSane ==
    ASSUME Supervisor!FallbackAssumption, NEW h, Sane(h)
    PROVE  Sane(Supervisor!OnLivenessPass(h))
<1>1. CASE h.state = "unhealthy"  BY <1>1 DEF Supervisor!OnLivenessPass
<1>2. CASE h.state # "unhealthy"
  <2> DEFINE pass == Supervisor!Min({h.pass + 1, RecoverThreshold})
             better == [h EXCEPT !.fail = 0, !.pass = pass]
  <2>1. pass \in 0..RecoverThreshold
    <3>1. h.pass \in 0..RecoverThreshold /\ RecoverThreshold \in Nat
      BY DEF Sane, Healths, Supervisor!FallbackAssumption
    <3> QED BY <3>1, TwoMin
  <2>2. 0 \in 0..(FailThreshold - 1)  BY DEF Supervisor!FallbackAssumption
  <2>3. Supervisor!OnLivenessPass(h) = Supervisor!MaybeHealthy(better)
    BY <1>2 DEF Supervisor!OnLivenessPass
  <2> HIDE DEF pass
  <2>4. Sane(better) /\ better.state # "unhealthy"  BY <1>2, <2>1, <2>2 DEF Sane, Healths
  <2> QED BY <2>3, <2>4, MaybeHealthySane
<1> QED BY <1>1, <1>2

LEMMA LivenessFailSane ==
    ASSUME Supervisor!FallbackAssumption, NEW s, NEW h, Sane(h)
    PROVE  Sane(Supervisor!OnLivenessFail(s, h))
<1>1. CASE h.state = "unhealthy"  BY <1>1 DEF Supervisor!OnLivenessFail
<1>2. CASE h.state # "unhealthy" /\ h.fail + 1 >= FailThreshold
  BY <1>2, ToUnhealthySane DEF Supervisor!OnLivenessFail
<1>3. CASE h.state # "unhealthy" /\ ~ (h.fail + 1 >= FailThreshold)
  <2> DEFINE fail == h.fail + 1
  <2>1. fail \in 0..(FailThreshold - 1) /\ 0 \in 0..RecoverThreshold
    <3>1. h.fail \in 0..(FailThreshold - 1) /\ FailThreshold \in Nat /\ RecoverThreshold \in Nat
      BY DEF Sane, Healths, Supervisor!FallbackAssumption
    <3> QED BY <1>3, <3>1
  <2>2. Supervisor!OnLivenessFail(s, h) = [h EXCEPT !.pass = 0, !.fail = fail]
    BY <1>3 DEF Supervisor!OnLivenessFail
  <2> HIDE DEF fail
  <2> QED BY <2>1, <2>2 DEF Sane, Healths
<1> QED BY <1>1, <1>2, <1>3

LEMMA CapableSane ==
    ASSUME NEW h, Sane(h), NEW fresh \in BOOLEAN, h.state # "unhealthy" => fresh \/ h.proven
    PROVE  Sane(Supervisor!OnCapable(h, fresh))
<1>1. CASE h.state = "unhealthy"  BY <1>1 DEF Supervisor!OnCapable
<1>2. CASE h.state # "unhealthy"
  <2> DEFINE able == [h EXCEPT !.capabilityOk = TRUE, !.proven = TRUE]
  <2>1. Sane(able) /\ able.state # "unhealthy"  BY <1>2 DEF Sane, Healths
  <2>2. Supervisor!OnCapable(h, fresh) = Supervisor!MaybeHealthy(able)
    <3>1. (h.proven \/ fresh) = TRUE  BY <1>2 DEF Sane, Healths
    <3>2. Supervisor!OnCapable(h, fresh) =
            Supervisor!MaybeHealthy(
                [h EXCEPT !.capabilityOk = TRUE, !.proven = (h.proven \/ fresh)])
      BY <1>2, Zenon DEF Supervisor!OnCapable
    <3> QED BY <3>1, <3>2
  <2> QED BY <2>1, <2>2, MaybeHealthySane
<1> QED BY <1>1, <1>2

LEMMA IncapableSane ==
    ASSUME Supervisor!FallbackAssumption, NEW s, NEW h, Sane(h)
    PROVE  Sane(Supervisor!OnIncapable(s, h))
BY ToUnhealthySane DEF Supervisor!OnIncapable

\* A probe that settles is gone.
LEMMA ProbeGoneSane ==
    ASSUME NEW h, Sane(h)
    PROVE  Sane([h EXCEPT !.probe = "none"])
BY DEF Sane, Healths

LEMMA ProbeSane ==
    ASSUME NEW s, NEW h, Sane(h)
    PROVE  Sane(Supervisor!MaybeProbeCapability(s, h))
BY DEF Supervisor!MaybeProbeCapability, Sane, Healths
LEMMA FallbackInit ==
    ASSUME Supervisor!FallbackAssumption, Supervisor!Init
    PROVE  FallbackInv
<1>1. ASSUME NEW s \in Supervisor!Source PROVE Sane(health[s])
  <2> DEFINE can == s \notin Probed
  <2>1. health[s] = [state |-> "unknown", pass |-> 0, fail |-> 0, capabilityOk |-> can,
                     probe |-> "none", proven |-> can]
    BY DEF Supervisor!Init, Supervisor!Unknown
  <2>2. can \in BOOLEAN /\ 0 \in 0..RecoverThreshold /\ 0 \in 0..(FailThreshold - 1)
    BY DEF Supervisor!FallbackAssumption
  <2> HIDE DEF can
  <2> DEFINE fresh == [state |-> "unknown", pass |-> 0, fail |-> 0, capabilityOk |-> can,
                       probe |-> "none", proven |-> can]
  <2>3. health[s] \in Healths
    <3>1. "unknown" \in {"unknown", "healthy", "unhealthy"} /\ "none" \in {"none", "fresh", "old"}
      OBVIOUS
    <3>2. fresh \in Healths  BY <2>2, <3>1, Zenon DEF Healths
    <3> QED BY <2>1, <3>2, Zenon
  <2> QED BY <2>1, <2>3 DEF Sane
<1>2. health \in [Supervisor!Source -> Healths]
  <2>1. \A s \in Supervisor!Source : health[s] \in Healths  BY <1>1 DEF Sane
  <2>2. health = [s \in Supervisor!Source |-> health[s]]  BY DEF Supervisor!Init
  <2> QED BY <2>1, <2>2
<1>3. Supervisor!TypeOK
  <2>1. mute \in (SUBSET Supervisor!Source) \ {Supervisor!Source}
    BY Zenon DEF Supervisor!Init
  <2>2. drive = "select" /\ active = 1 /\ position = 0
    BY Zenon DEF Supervisor!Init
  <2>3. 1 \in Supervisor!Source /\ 0 \in 0..To
    BY DEF Supervisor!FallbackAssumption, Supervisor!Source
  <2>4. mute \subseteq Supervisor!Source /\ mute # Supervisor!Source  BY <2>1
  <2>5. drive \in {"select", "next", "stale", "yielded", "lag", "up"} \cup Supervisor!Ended
    BY <2>2
  <2> QED BY <1>2, <2>2, <2>3, <2>4, <2>5, Zenon DEF Supervisor!TypeOK, Healths
<1>4. height \in [Supervisor!Source -> Nat]  BY DEF Supervisor!Init
<1>5. FallbackOrder
  BY DEF Supervisor!Init, Supervisor!Pending, Supervisor!Ended, Supervisor!FallbackAssumption,
         FallbackOrder, Counted
<1> QED BY <1>1, <1>3, <1>4, <1>5 DEF FallbackInv, FallbackTypes, FallbackHealth

\* What is known of one source changes.
LEMMA HealthExcept ==
    ASSUME FallbackInv, NEW s \in Supervisor!Source, NEW h, Sane(h),
           health' = [health EXCEPT ![s] = h]
    PROVE  FallbackHealth' /\ health' \in [Supervisor!Source -> Healths]
<1>1. health \in [Supervisor!Source -> Healths]
  BY DEF FallbackInv, FallbackTypes, Supervisor!TypeOK, Healths
<1>2. h \in Healths  BY DEF Sane
<1> QED BY <1>1, <1>2 DEF FallbackInv, FallbackHealth

\* What is known of the sources stays sane, whatever happens.
LEMMA FallbackHealthStep ==
    ASSUME Supervisor!FallbackAssumption, LongProbes = FALSE, FallbackInv, Supervisor!Next
    PROVE  FallbackHealth' /\ health' \in [Supervisor!Source -> Healths]
<1> DEFINE Good == FallbackHealth' /\ health' \in [Supervisor!Source -> Healths]
<1>1. active \in Supervisor!Source /\ \A s \in Supervisor!Source : Sane(health[s])
  BY DEF FallbackInv, FallbackTypes, FallbackHealth, Supervisor!TypeOK
<1>2. ASSUME UNCHANGED health PROVE Good
  BY <1>2 DEF FallbackInv, FallbackTypes, FallbackHealth, Supervisor!TypeOK, Healths
<1>3. ASSUME NEW s \in Supervisor!Source, NEW h, Sane(h), health' = [health EXCEPT ![s] = h]
      PROVE Good
  BY <1>3, HealthExcept
<1> HIDE DEF Good
<1>4. ASSUME NEW s \in Supervisor!Source, Supervisor!PollPasses(s) PROVE Good
  <2> DEFINE h == Supervisor!MaybeProbeCapability(s, Supervisor!OnLivenessPass(health[s]))
  <2>1. Sane(h)  BY <1>1, LivenessPassSane, ProbeSane
  <2>2. health' = [health EXCEPT ![s] = h]  BY <1>4 DEF Supervisor!PollPasses
  <2> QED BY <1>3, <2>1, <2>2
<1>5. ASSUME NEW s \in Supervisor!Source, Supervisor!PollFails(s) PROVE Good
  <2> DEFINE h == Supervisor!OnLivenessFail(s, health[s])
  <2>1. Sane(h)  BY <1>1, LivenessFailSane
  <2>2. health' = [health EXCEPT ![s] = h]  BY <1>5 DEF Supervisor!PollFails
  <2> QED BY <1>3, <2>1, <2>2
<1>6. ASSUME NEW s \in Supervisor!Source, Supervisor!ProbeSettles(s) PROVE Good
  <2> DEFINE fresh == health[s].probe = "fresh"
             able == Supervisor!OnCapable(health[s], fresh)
             unable == Supervisor!OnIncapable(s, health[s])
  <2>1. health[s].state # "unhealthy" => fresh
    BY <1>1, <1>6 DEF Supervisor!ProbeSettles, Sane, Healths
  <2>2. fresh \in BOOLEAN /\ Sane(health[s])  BY <1>1
  <2>3. \/ health' = [health EXCEPT ![s] = [able EXCEPT !.probe = "none"]]
        \/ health' = [health EXCEPT ![s] = [unable EXCEPT !.probe = "none"]]
    BY <1>6 DEF Supervisor!ProbeSettles
  <2> HIDE DEF fresh
  <2>4. Sane(able)  BY <2>1, <2>2, CapableSane
  <2>5. Sane(unable)  BY <2>2, IncapableSane
  <2> HIDE DEF able, unable
  <2>6. Sane([able EXCEPT !.probe = "none"])  BY <2>4, ProbeGoneSane
  <2>7. Sane([unable EXCEPT !.probe = "none"])  BY <2>5, ProbeGoneSane
  <2> QED BY <1>3, <2>3, <2>6, <2>7
<1>7. ASSUME NEW s \in Supervisor!Source, Supervisor!CooldownEnds(s) PROVE Good
  <2> DEFINE h == [health[s] EXCEPT !.state = "unknown"]
  <2>1. health[s].probe # "old"  BY <1>7 DEF Supervisor!CooldownEnds
  <2>2. Sane(h)  BY <1>1, <2>1 DEF Sane, Healths
  <2>3. health' = [health EXCEPT ![s] = h]  BY <1>7 DEF Supervisor!CooldownEnds
  <2> QED BY <1>3, <2>2, <2>3
<1>8. ASSUME NEW s \in Supervisor!Source, Supervisor!DelegateHead(s) PROVE Good
  <2> DEFINE pass == Supervisor!OnLivenessPass(health[s])
             fail == Supervisor!OnLivenessFail(s, health[s])
  <2>1. Sane(pass) /\ Sane(fail)  BY <1>1, LivenessPassSane, LivenessFailSane
  <2>2. health' = [health EXCEPT ![s] = pass] \/ health' = [health EXCEPT ![s] = fail]
    BY <1>8 DEF Supervisor!DelegateHead
  <2> QED BY <1>3, <2>1, <2>2
<1>9. ASSUME Supervisor!TakeBatch PROVE Good
  <2> DEFINE pass == Supervisor!OnLivenessPass(health[active])
             able == Supervisor!OnCapable(pass, TRUE)
  <2>1. Sane(pass)  BY <1>1, LivenessPassSane
  <2>2. Sane(able)  BY <2>1, CapableSane
  <2>3. health' = [health EXCEPT ![active] = able]  BY <1>9 DEF Supervisor!TakeBatch
  <2> QED BY <1>1, <1>3, <2>2, <2>3
<1>10. ASSUME Supervisor!FailActive PROVE Good
  <2> DEFINE h == Supervisor!ToUnhealthy(active, health[active])
  <2>1. Sane(h)  BY <1>1, ToUnhealthySane
  <2>2. health' = [health EXCEPT ![active] = h]  BY <1>10 DEF Supervisor!FailActive
  <2> QED BY <1>1, <1>3, <2>1, <2>2
<1>11. ASSUME Supervisor!TakeStop \/ Supervisor!StalenessChecked \/ Supervisor!LagChecked
       PROVE  Good
  <2>1. Supervisor!FailActive \/ UNCHANGED health
    BY <1>11 DEF Supervisor!TakeStop, Supervisor!StalenessChecked, Supervisor!LagChecked
  <2> QED BY <1>2, <1>10, <2>1
<1>12. ASSUME \/ Supervisor!Select \/ Supervisor!StalenessTick \/ Supervisor!Resume
              \/ Supervisor!SwitchUpChecked \/ Supervisor!GiveUp \/ Supervisor!Leave
              \/ Supervisor!Deliver \/ Supervisor!StreamStops
              \/ \E s \in Supervisor!Source : Supervisor!NewBlock(s)
       PROVE  Good
  <2>1. UNCHANGED health
    BY <1>12 DEF Supervisor!Select, Supervisor!StalenessTick, Supervisor!Resume,
         Supervisor!SwitchUpChecked, Supervisor!GiveUp, Supervisor!Leave, Supervisor!Deliver,
         Supervisor!StreamStops, Supervisor!NewBlock
  <2> QED BY <1>2, <2>1
<1> QED
  BY <1>4, <1>5, <1>6, <1>7, <1>8, <1>9, <1>11, <1>12, Zenon
     DEF Supervisor!Next, Supervisor!Supervise, Good
\* The types.
LEMMA FallbackTypesStep ==
    ASSUME Supervisor!FallbackAssumption, FallbackInv, Supervisor!Next,
           health' \in [Supervisor!Source -> Healths]
    PROVE  FallbackTypes'
<1>1. /\ active \in Supervisor!Source /\ position \in 0..To /\ To \in Nat
      /\ height \in [Supervisor!Source -> Nat]
      /\ mute \subseteq Supervisor!Source /\ mute # Supervisor!Source
      /\ drive \in {"select", "next", "stale", "yielded", "lag", "up"}
  BY DEF FallbackInv, FallbackTypes, Supervisor!TypeOK, Supervisor!FallbackAssumption,
         Supervisor!Next, Supervisor!Running
<1>2. mute' = mute
  BY DEF Supervisor!Next, Supervisor!Supervise, Supervisor!sources, Supervisor!Select,
         Supervisor!TakeBatch, Supervisor!TakeStop, Supervisor!StalenessTick,
         Supervisor!StalenessChecked, Supervisor!Resume, Supervisor!LagChecked,
         Supervisor!SwitchUpChecked, Supervisor!GiveUp, Supervisor!Leave, Supervisor!Deliver,
         Supervisor!StreamStops, Supervisor!PollPasses, Supervisor!PollFails,
         Supervisor!ProbeSettles, Supervisor!CooldownEnds, Supervisor!DelegateHead,
         Supervisor!NewBlock
<1>3. height' \in [Supervisor!Source -> Nat]
  <2>1. CASE height' = height  BY <1>1, <2>1
  <2>2. CASE \E s \in Supervisor!Source : Supervisor!NewBlock(s)
    <3>1. PICK s \in Supervisor!Source : height' = [height EXCEPT ![s] = height[s] + 1]
      BY <2>2 DEF Supervisor!NewBlock
    <3> QED BY <1>1, <3>1
  <2> QED
    BY <2>1, <2>2
       DEF Supervisor!Next, Supervisor!Supervise, Supervisor!sources, Supervisor!Select,
         Supervisor!TakeBatch, Supervisor!TakeStop, Supervisor!StalenessTick,
         Supervisor!StalenessChecked, Supervisor!Resume, Supervisor!LagChecked,
         Supervisor!SwitchUpChecked, Supervisor!GiveUp, Supervisor!Leave, Supervisor!Deliver,
         Supervisor!StreamStops, Supervisor!PollPasses, Supervisor!PollFails,
         Supervisor!ProbeSettles, Supervisor!CooldownEnds, Supervisor!DelegateHead
<1>4. active' \in Supervisor!Source
  BY <1>1
     DEF Supervisor!Next, Supervisor!Supervise, Supervisor!Select,
         Supervisor!TakeBatch, Supervisor!TakeStop, Supervisor!StalenessTick,
         Supervisor!StalenessChecked, Supervisor!Resume, Supervisor!LagChecked,
         Supervisor!SwitchUpChecked, Supervisor!GiveUp, Supervisor!Leave, Supervisor!Deliver,
         Supervisor!StreamStops, Supervisor!PollPasses, Supervisor!PollFails,
         Supervisor!ProbeSettles, Supervisor!CooldownEnds, Supervisor!DelegateHead,
         Supervisor!NewBlock
<1>5. drive' \in {"select", "next", "stale", "yielded", "lag", "up"} \cup Supervisor!Ended
  BY <1>1
     DEF Supervisor!Next, Supervisor!Supervise, Supervisor!Ended, Supervisor!Select,
         Supervisor!TakeBatch, Supervisor!TakeStop, Supervisor!StalenessTick,
         Supervisor!StalenessChecked, Supervisor!Resume, Supervisor!LagChecked,
         Supervisor!SwitchUpChecked, Supervisor!GiveUp, Supervisor!Leave, Supervisor!Deliver,
         Supervisor!StreamStops, Supervisor!PollPasses, Supervisor!PollFails,
         Supervisor!ProbeSettles, Supervisor!CooldownEnds, Supervisor!DelegateHead,
         Supervisor!NewBlock
<1>6. position' \in 0..To
  <2>1. CASE position' = position  BY <1>1, <2>1
  <2>2. CASE Supervisor!Resume
    <3>1. CASE next.blocks = << >>  BY <1>1, <2>2, <3>1 DEF Supervisor!Resume
    <3>2. CASE next.blocks # << >>
      <4>1. /\ Counted(next.blocks, position) /\ position + Len(next.blocks) <= To
            /\ Len(next.blocks) \in Nat \ {0}
        BY <3>2 DEF FallbackInv, FallbackOrder, Counted
      <4>2. position' = next.blocks[Len(next.blocks)]
        BY <2>2, <3>2 DEF Supervisor!Resume, Supervisor!Last
      <4>3. position' = position + Len(next.blocks)  BY <4>1, <4>2 DEF Counted
      <4> QED BY <1>1, <4>1, <4>3
    <3> QED BY <3>1, <3>2
  <2> QED
    BY <2>1, <2>2
       DEF Supervisor!Next, Supervisor!Supervise, Supervisor!Select,
         Supervisor!TakeBatch, Supervisor!TakeStop, Supervisor!StalenessTick,
         Supervisor!StalenessChecked, Supervisor!LagChecked,
         Supervisor!SwitchUpChecked, Supervisor!GiveUp, Supervisor!Leave, Supervisor!Deliver,
         Supervisor!StreamStops, Supervisor!PollPasses, Supervisor!PollFails,
         Supervisor!ProbeSettles, Supervisor!CooldownEnds, Supervisor!DelegateHead,
         Supervisor!NewBlock
<1> QED
  BY <1>1, <1>2, <1>3, <1>4, <1>5, <1>6, Zenon DEF FallbackTypes, Supervisor!TypeOK, Healths

\* And what is under way.
LEMMA FallbackOrderStep ==
    ASSUME Supervisor!FallbackAssumption, FallbackInv, Supervisor!Next
    PROVE  FallbackOrder'
<1>1. /\ active \in Supervisor!Source /\ position \in Nat /\ To \in Nat /\ position <= To
      /\ height \in [Supervisor!Source -> Nat]
      /\ drive \in {"select", "next", "stale", "yielded", "lag", "up"}
      /\ drive \notin Supervisor!Ended
  BY DEF FallbackInv, FallbackTypes, Supervisor!TypeOK, Supervisor!FallbackAssumption,
         Supervisor!Next, Supervisor!Running, Supervisor!Ended
<1>2. /\ Counted(given, 0) /\ Counted(next.blocks, position)
      /\ position + Len(next.blocks) <= To
      /\ Len(given) \in Nat /\ Len(next.blocks) \in Nat
      /\ drive = "yielded" => Len(given) = position + Len(next.blocks)
      /\ drive # "yielded" => Len(given) = position
  BY <1>1 DEF FallbackInv, FallbackOrder, Counted
<1>3. Counted(<< >>, position) /\ Len(<< >>) = 0  BY DEF Counted
<1>4. ASSUME given' = given, position' = position, next'.blocks \in {next.blocks, << >>},
             \/ drive' = drive /\ next' = next
             \/ drive # "yielded" /\ drive' # "yielded"
             \/ drive = "yielded" /\ drive' \in Supervisor!Ended
      PROVE  FallbackOrder'
  <2>1. Counted(next'.blocks, position') /\ position' + Len(next'.blocks) <= To
    BY <1>1, <1>2, <1>3, <1>4
  <2>2. drive' = "yielded" => drive = "yielded"  BY <1>1, <1>4 DEF Supervisor!Ended
  <2> QED BY <1>1, <1>2, <1>4, <2>1, <2>2 DEF FallbackOrder, Supervisor!Ended
<1>5. CASE \/ Supervisor!Select \/ Supervisor!TakeStop \/ Supervisor!StalenessTick
           \/ Supervisor!StalenessChecked \/ Supervisor!LagChecked \/ Supervisor!SwitchUpChecked
           \/ Supervisor!GiveUp \/ Supervisor!Leave
  <2>1. given' = given /\ position' = position /\ next' \in {next, Supervisor!Pending}
    BY <1>5 DEF Supervisor!Select, Supervisor!TakeStop, Supervisor!StalenessTick,
         Supervisor!StalenessChecked, Supervisor!LagChecked, Supervisor!SwitchUpChecked,
         Supervisor!GiveUp, Supervisor!Leave
  <2>2. next'.blocks \in {next.blocks, << >>}  BY <2>1 DEF Supervisor!Pending
  <2>3. \/ drive # "yielded" /\ drive' # "yielded"
        \/ drive = "yielded" /\ drive' \in Supervisor!Ended
    BY <1>5 DEF Supervisor!Select, Supervisor!TakeStop, Supervisor!StalenessTick,
         Supervisor!StalenessChecked, Supervisor!LagChecked, Supervisor!SwitchUpChecked,
         Supervisor!GiveUp, Supervisor!Leave, Supervisor!Ended
  <2> QED BY <1>4, <2>1, <2>2, <2>3
<1>6. CASE \E s \in Supervisor!Source :
             \/ Supervisor!PollPasses(s) \/ Supervisor!PollFails(s) \/ Supervisor!ProbeSettles(s)
             \/ Supervisor!CooldownEnds(s) \/ Supervisor!DelegateHead(s) \/ Supervisor!NewBlock(s)
  <2>1. UNCHANGED << given, position, next, drive >>
    BY <1>6 DEF Supervisor!PollPasses, Supervisor!PollFails, Supervisor!ProbeSettles,
         Supervisor!CooldownEnds, Supervisor!DelegateHead, Supervisor!NewBlock
  <2> QED BY <1>4, <2>1
<1>7. CASE Supervisor!StreamStops
  <2>1. /\ given' = given /\ position' = position /\ drive' = drive /\ drive # "yielded"
        /\ \E type \in {"done", "error", "fork"} : next' = [Supervisor!Pending EXCEPT !.type = type]
    BY <1>7 DEF Supervisor!StreamStops, Supervisor!Outstanding
  <2>2. next'.blocks = << >>  BY <2>1 DEF Supervisor!Pending
  <2> QED BY <1>4, <2>1, <2>2
<1>8. CASE Supervisor!Deliver
  <2>1. PICK n \in position..Supervisor!Min({height[active], To}) : next' = Supervisor!Batch(n)
    BY <1>8 DEF Supervisor!Deliver
  <2>2. UNCHANGED << given, position, drive >> /\ drive # "yielded"
    BY <1>8 DEF Supervisor!Deliver, Supervisor!Outstanding
  <2>3. n \in Nat /\ position <= n /\ n <= To
    <3>1. height[active] \in Nat  BY <1>1
    <3> QED BY <1>1, <3>1, <2>1, TwoMin
  <2> DEFINE k == n - position
  <2>4. k \in Nat /\ position + k <= To  BY <1>1, <2>3
  <2>5. next'.blocks = [i \in 1..k |-> position + i]  BY <2>1 DEF Supervisor!Batch
  <2> HIDE DEF k
  <2>6. Counted(next'.blocks, position) /\ Len(next'.blocks) = k
    BY <1>1, <2>4, <2>5, CountedNumbers
  <2> QED BY <1>1, <1>2, <2>2, <2>4, <2>6 DEF FallbackOrder
<1>9. CASE Supervisor!TakeBatch
  <2>1. given' = given \o next.blocks /\ drive = "next" /\ drive' = "yielded"
        /\ UNCHANGED << next, position >>
    BY <1>9 DEF Supervisor!TakeBatch
  <2>2. 0 \in Nat /\ Len(given) = position /\ position = 0 + Len(given)  BY <1>1, <1>2, <2>1
  <2>3. CountedUpTo(given \o next.blocks, 0, Len(given) + Len(next.blocks))
    BY <1>2, <2>2, CountedConcat
  <2> QED BY <1>2, <2>1, <2>2, <2>3 DEF FallbackOrder, CountedUpTo, Supervisor!Ended
<1>10. CASE Supervisor!Resume
  <2>1. /\ drive = "yielded" /\ drive' = "lag" /\ given' = given
        /\ position' = (IF next.blocks = << >> THEN position ELSE Supervisor!Last(next.blocks))
        /\ next' = Supervisor!Pending
    BY <1>10 DEF Supervisor!Resume
  <2>2. position' = position + Len(next.blocks)
    <3>1. CASE next.blocks = << >>  BY <1>1, <2>1, <3>1
    <3>2. CASE next.blocks # << >>
      <4>1. Len(next.blocks) \in 1..Len(next.blocks)  BY <1>2, <3>2 DEF Counted
      <4>2. position' = next.blocks[Len(next.blocks)]  BY <2>1, <3>2 DEF Supervisor!Last
      <4> QED BY <1>2, <4>1, <4>2 DEF Counted
    <3> QED BY <3>1, <3>2
  <2>3. next'.blocks = << >>  BY <2>1 DEF Supervisor!Pending
  <2>4. Counted(next'.blocks, position') /\ Len(next'.blocks) = 0  BY <2>3 DEF Counted
  <2>5. position' + Len(next'.blocks) <= To  BY <1>1, <1>2, <2>2, <2>4
  <2> QED BY <1>2, <2>1, <2>2, <2>4, <2>5 DEF FallbackOrder
<1> QED
  BY <1>5, <1>6, <1>7, <1>8, <1>9, <1>10, Zenon DEF Supervisor!Next, Supervisor!Supervise

LEMMA FallbackStep ==
    ASSUME Supervisor!FallbackAssumption, LongProbes = FALSE, FallbackInv,
           [Supervisor!Next]_fallbackVars
    PROVE  FallbackInv'
<1>1. CASE Supervisor!Next
  BY <1>1, FallbackHealthStep, FallbackTypesStep, FallbackOrderStep DEF FallbackInv
<1>2. CASE UNCHANGED fallbackVars
  <2>1. UNCHANGED << mute, height, health, drive, active, next, position, given >>
    BY <1>2 DEF fallbackVars
  <2> QED
    BY <2>1 DEF FallbackInv, FallbackTypes, FallbackHealth, FallbackOrder, Supervisor!TypeOK
<1> QED BY <1>1, <1>2

\* However a stream is handed from source to source, the consumer gets every block once
\* and in order (fallback.ts:161-229); and a source with a capability probe that has
\* failed is healthy again only after it has served its query since (health.ts:15-17), as
\* long as no probe outlasts a cooldown.
THEOREM FallbackIsSoundAlways ==
    ASSUME LongProbes = FALSE
    PROVE  Spec => []FallbackIsSound
<1>1. Supervisor!FallbackAssumption  BY StreamsAssumption DEF StreamsAssumption
<1>2. Init => FallbackInv  BY <1>1, FallbackInit DEF Init
<1>3. FallbackInv /\ [Next]_vars => FallbackInv'  BY <1>1, FallbackStep, StepOfOne
<1>4. FallbackInv => FallbackIsSound
  <2> SUFFICES ASSUME FallbackInv
               PROVE  Supervisor!TypeOK /\ Supervisor!OneStream /\ Supervisor!HealthyIsProven
    BY DEF FallbackIsSound
  <2>1. given = [i \in 1..Len(given) |-> 0 + i]
    BY CountedIs DEF FallbackInv, FallbackOrder
  <2>2. Supervisor!OneStream  BY <2>1 DEF Supervisor!OneStream
  <2>3. Supervisor!HealthyIsProven
    BY DEF FallbackInv, FallbackHealth, Sane, Supervisor!HealthyIsProven
  <2> QED BY <2>2, <2>3 DEF FallbackInv, FallbackTypes
<1> QED BY <1>2, <1>3, <1>4, PTL DEF Spec
------------------------------------------------------------------------------
(***************************************************************************)
(* ConcurrentMap: the results that were handed over, the promise the         *)
(* consumer awaits and the promises in the queue are consecutive items of    *)
(* the stream, and but for the one a closed queue has refused they are all   *)
(* the calls that were started.                                              *)
(***************************************************************************)
\* The results handed over and the item whose promise is awaited.
Passed == Len(out) + (IF awaited \in Map!Items THEN 1 ELSE 0)

\* The error of the stream is the last thing in the queue.
EndsInFailure == Len(fifo) > 0 /\ fifo[Len(fifo)] = Failure

\* The items in the queue.
Buffered == Len(fifo) - (IF EndsInFailure THEN 1 ELSE 0)

\* The calls that were started are those of the first n items.
StartedTo(n) ==
    /\ n \in 0..MaxItems
    /\ \A i \in Map!Items : call[i] # "none" <=> i <= n

MapTypes ==
    /\ Map!TypeOK
    /\ fifo \in Seq(Map!Items \cup {Failure})
    /\ out \in Seq(Map!Items)

\* What is under way is numbered without a gap.
MapNumbered ==
    /\ Map!InStreamOrder
    /\ awaited \in Map!Items => awaited = Len(out) + 1
    /\ \A i \in 1..Len(fifo) :
        \/ fifo[i] = Passed + i /\ fifo[i] # Failure
        \/ fifo[i] = Failure /\ i = Len(fifo) /\ mapper = "failed"
    /\ awaited = Failure => fifo = << >> /\ mapper = "failed"

\* And complete, but for the call whose promise the closed queue refused.
MapComplete(n) ==
    /\ StartedTo(n)
    /\ mapper # "stopped" => n = Passed + Buffered
    /\ mapper = "stopped" => n <= Passed + Buffered + 1

\* The queue is full only while map() waits at it or is over.
MapRoom ==
    /\ Buffered <= Concurrency
    /\ mapper = "pulling" => Len(fifo) < Concurrency

\* Who has closed the queue.
MapClosing ==
    /\ iterator = "running" /\ closed => mapper = "ended"
    /\ mapper = "stopped" => closed
    /\ iterator = "done" => mapper = "ended" /\ awaited = 0 /\ fifo = << >>

MapInv == MapTypes /\ MapNumbered /\ MapRoom /\ MapClosing /\ \E n \in 0..MaxItems : MapComplete(n)

------------------------------------------------------------------------------
\* As many calls are started as the number of the last one.
LEMMA StartedCount ==
    ASSUME Map!MapAssumption, NEW n \in 0..MaxItems, StartedTo(n)
    PROVE  Map!Cardinality(Map!Started) = n
<1>1. Map!Started = 1..n
  BY DEF Map!MapAssumption, StartedTo, Map!Started, Map!Items
<1>2. n \in Nat
  BY DEF Map!MapAssumption
<1>3. Cardinality(1..n) = IF 1 > n THEN 0 ELSE n - 1 + 1
  BY <1>2, FS_Interval
<1>4. Map!Cardinality(1..n) = Cardinality(1..n)
  BY DEF Map!Cardinality, Cardinality
<1> QED BY <1>1, <1>2, <1>3, <1>4

\* The error of the stream is no item, and 0 is neither.
LEMMA MapDistinct ==
    ASSUME Map!MapAssumption
    PROVE  Failure \notin Map!Items /\ Failure # 0 /\ 0 \notin Map!Items /\ Map!Items \subseteq Nat
BY DEF Map!MapAssumption, Map!Items

LEMMA MapInit ==
    ASSUME Map!MapAssumption, Map!Init
    PROVE  MapInv
<1>1. Map!TypeOK
  <2>1. call \in [Map!Items -> {"none", "running", "ok", "error"}]  BY DEF Map!Init
  <2>2. \A i \in DOMAIN fifo : fifo[i] \in Map!Items \cup {Failure}  BY DEF Map!Init
  <2> QED BY <2>1, <2>2 DEF Map!Init, Map!TypeOK
<1>2. MapTypes
  <2>1. fifo \in Seq(Map!Items \cup {Failure}) /\ out \in Seq(Map!Items)  BY DEF Map!Init
  <2> QED BY <1>1, <2>1 DEF MapTypes
<1>3. MapNumbered  BY MapDistinct DEF Map!Init, MapNumbered, Map!InStreamOrder, Passed
<1>4. MapRoom  BY DEF Map!MapAssumption, Map!Init, MapRoom, Buffered, EndsInFailure
<1>5. MapClosing  BY DEF Map!Init, MapClosing
<1>6. MapComplete(0)
  BY MapDistinct DEF Map!MapAssumption, Map!Init, MapComplete, StartedTo, Passed, Buffered,
     EndsInFailure, Map!Items
<1>7. 0 \in 0..MaxItems  BY DEF Map!MapAssumption
<1> QED BY <1>2, <1>3, <1>4, <1>5, <1>6, <1>7 DEF MapInv

\* The stream yields: the next number is started, and put behind the last one.
LEMMA MapPulls ==
    ASSUME Map!MapAssumption, MapInv, Map!Pull
    PROVE  MapInv'
<1> USE MapDistinct DEF MapInv
<1>1. PICK n \in 0..MaxItems : MapComplete(n)  OBVIOUS
<1>2. Map!NextItem = n + 1 /\ n \in Nat /\ n + 1 \in Map!Items /\ n + 1 \in 0..MaxItems
  BY <1>1, StartedCount DEF MapComplete, Map!NextItem, Map!Pull, Map!MapAssumption, Map!Items
<1>3. /\ call' = [call EXCEPT ![n + 1] = "running"]
      /\ mapper = "pulling"
      /\ UNCHANGED << closed, awaited, iterator, out >>
  BY <1>2 DEF Map!Pull
<1>4. StartedTo(n + 1)'
  BY <1>1, <1>2, <1>3 DEF MapComplete, StartedTo, MapTypes, Map!TypeOK, Map!Items
<1>5. call' \in [Map!Items -> {"none", "running", "ok", "error"}]
  BY <1>2, <1>3 DEF MapTypes, Map!TypeOK
<1>6. ~ EndsInFailure /\ n = Passed + Len(fifo)
  BY <1>1, <1>3 DEF MapComplete, Buffered, EndsInFailure, MapNumbered, MapTypes
<1>7. Passed' = Passed /\ Passed \in Nat
  BY <1>3 DEF Passed, MapTypes
<1>8. CASE closed
  <2>1. mapper' = "stopped" /\ fifo' = fifo  BY <1>8 DEF Map!Pull
  <2>2. MapTypes'  BY <1>3, <1>5, <2>1 DEF MapTypes, Map!TypeOK
  <2>3. MapNumbered'  BY <1>3, <1>7, <2>1 DEF MapNumbered, Map!InStreamOrder
  <2>4. Buffered' = Buffered /\ Buffered = Len(fifo)
    BY <1>6, <2>1 DEF Buffered, EndsInFailure, MapTypes
  <2>5. MapRoom'  BY <2>1, <2>4 DEF MapRoom
  <2>6. MapClosing'  BY <1>3, <1>8, <2>1 DEF MapClosing
  <2>7. MapComplete(n + 1)'  BY <1>4, <1>6, <1>7, <2>1, <2>4 DEF MapComplete, MapTypes
  <2> QED BY <1>2, <2>2, <2>3, <2>5, <2>6, <2>7
<1>9. CASE ~ closed
  <2>1. fifo' = Append(fifo, n + 1) /\ mapper' = Map!AfterPut(fifo')  BY <1>2, <1>9 DEF Map!Pull
  <2>2. mapper' \in {"pulling", "putting"}  BY <2>1 DEF Map!AfterPut
  <2>3. /\ fifo' \in Seq(Map!Items \cup {Failure})
        /\ Len(fifo') = Len(fifo) + 1
        /\ fifo'[Len(fifo')] = n + 1
        /\ \A i \in 1..Len(fifo) : fifo'[i] = fifo[i]
    BY <1>2, <2>1 DEF MapTypes
  <2>4. MapTypes'
    <3>1. \A i \in DOMAIN fifo' : fifo'[i] \in Map!Items \cup {Failure}  BY <2>3
    <3> QED BY <1>3, <1>5, <2>2, <2>3, <3>1 DEF MapTypes, Map!TypeOK
  <2>5. MapNumbered'
    <3>1. ASSUME NEW i \in 1..Len(fifo') PROVE fifo'[i] = Passed' + i /\ fifo'[i] # Failure
      <4>1. CASE i = Len(fifo')  BY <1>2, <1>6, <1>7, <2>3, <4>1 DEF MapTypes
      <4>2. CASE i # Len(fifo')
        <5>1. i \in 1..Len(fifo)  BY <2>3, <4>2 DEF MapTypes
        <5> QED BY <1>3, <1>7, <2>3, <5>1 DEF MapNumbered
      <4> QED BY <4>1, <4>2
    <3>2. awaited # Failure  BY <1>3 DEF MapNumbered
    <3> QED BY <1>3, <3>1, <3>2 DEF MapNumbered, Map!InStreamOrder
  <2>6. Buffered' = Len(fifo) + 1
    BY <1>2, <2>3 DEF Buffered, EndsInFailure, MapTypes
  <2>7. MapRoom'
    BY <1>3, <2>1, <2>3, <2>6 DEF MapRoom, Map!AfterPut, MapTypes, Map!MapAssumption
  <2>8. MapClosing'  BY <1>3, <1>9, <2>2 DEF MapClosing
  <2>9. MapComplete(n + 1)'  BY <1>4, <1>6, <1>7, <2>2, <2>6 DEF MapComplete, MapTypes
  <2> QED BY <1>2, <2>4, <2>5, <2>7, <2>8, <2>9
<1> QED BY <1>8, <1>9

\* Steps that leave the queue and what was handed over alone: the stream ends.
LEMMA MapEnds ==
    ASSUME Map!MapAssumption, MapInv, Map!End
    PROVE  MapInv'
<1> USE MapDistinct DEF MapInv
<1>1. PICK n \in 0..MaxItems : MapComplete(n)  OBVIOUS
<1>2. /\ mapper = "pulling" /\ mapper' = "ended" /\ closed' = TRUE
      /\ UNCHANGED << call, fifo, awaited, iterator, out >>
  BY DEF Map!End
<1>3. Passed' = Passed /\ Buffered' = Buffered
  BY <1>2 DEF Passed, Buffered, EndsInFailure
<1>4. MapTypes'  BY <1>2 DEF MapTypes, Map!TypeOK
<1>5. MapNumbered'  BY <1>2, <1>3 DEF MapNumbered, Map!InStreamOrder
<1>6. MapRoom'  BY <1>2, <1>3 DEF MapRoom
<1>7. MapClosing'  BY <1>2 DEF MapClosing
<1>8. MapComplete(n)'  BY <1>1, <1>2, <1>3 DEF MapComplete, StartedTo
<1> QED BY <1>4, <1>5, <1>6, <1>7, <1>8

\* The stream throws: its error is put behind the last item, if at all.
LEMMA MapFails ==
    ASSUME Map!MapAssumption, MapInv, Map!Fail
    PROVE  MapInv'
<1> USE MapDistinct DEF MapInv
<1>1. PICK n \in 0..MaxItems : MapComplete(n)  OBVIOUS
<1>2. /\ mapper = "pulling" /\ mapper' = "failed"
      /\ UNCHANGED << call, closed, awaited, iterator, out >>
  BY DEF Map!Fail
<1>3. ~ EndsInFailure /\ Buffered = Len(fifo) /\ n = Passed + Len(fifo) /\ awaited # Failure
  BY <1>1, <1>2 DEF MapComplete, Buffered, EndsInFailure, MapNumbered, MapTypes
<1>4. Passed' = Passed  BY <1>2 DEF Passed
<1>5. MapClosing'  BY <1>2 DEF MapClosing
<1>6. StartedTo(n)'  BY <1>1, <1>2 DEF MapComplete, StartedTo
<1>7. CASE closed
  <2>1. fifo' = fifo  BY <1>7 DEF Map!Fail
  <2>2. Buffered' = Buffered  BY <2>1 DEF Buffered, EndsInFailure
  <2>3. MapTypes'  BY <1>2, <2>1 DEF MapTypes, Map!TypeOK
  <2>4. MapNumbered'  BY <1>2, <1>3, <1>4, <2>1 DEF MapNumbered, Map!InStreamOrder
  <2>5. MapRoom'  BY <1>2, <2>1, <2>2 DEF MapRoom
  <2>6. MapComplete(n)'  BY <1>2, <1>3, <1>4, <1>6, <2>2 DEF MapComplete
  <2> QED BY <1>5, <2>3, <2>4, <2>5, <2>6
<1>8. CASE ~ closed
  <2>1. fifo' = Append(fifo, Failure)  BY <1>8 DEF Map!Fail
  <2>2. /\ fifo' \in Seq(Map!Items \cup {Failure})
        /\ Len(fifo') = Len(fifo) + 1
        /\ fifo'[Len(fifo')] = Failure
        /\ \A i \in 1..Len(fifo) : fifo'[i] = fifo[i]
    BY <2>1 DEF MapTypes
  <2>3. Buffered' = Len(fifo)  BY <2>2 DEF Buffered, EndsInFailure, MapTypes
  <2>4. MapTypes'
    <3>1. \A i \in DOMAIN fifo' : fifo'[i] \in Map!Items \cup {Failure}  BY <2>2
    <3> QED BY <1>2, <2>2, <3>1 DEF MapTypes, Map!TypeOK
  <2>5. MapNumbered'
    <3>1. ASSUME NEW i \in 1..Len(fifo')
          PROVE  \/ fifo'[i] = Passed' + i /\ fifo'[i] # Failure
                 \/ fifo'[i] = Failure /\ i = Len(fifo') /\ mapper' = "failed"
      <4>1. CASE i = Len(fifo')  BY <1>2, <2>2, <4>1
      <4>2. CASE i # Len(fifo')
        <5>1. i \in 1..Len(fifo)  BY <2>2, <4>2 DEF MapTypes
        <5> QED BY <1>2, <1>4, <2>2, <5>1 DEF MapNumbered
      <4> QED BY <4>1, <4>2
    <3> QED BY <1>2, <1>3, <3>1 DEF MapNumbered, Map!InStreamOrder
  <2>6. MapRoom'  BY <1>2, <1>3, <2>3 DEF MapRoom
  <2>7. MapComplete(n)'  BY <1>2, <1>3, <1>4, <1>6, <2>3 DEF MapComplete
  <2> QED BY <1>5, <2>4, <2>5, <2>6, <2>7
<1> QED BY <1>7, <1>8

\* A call completes: nothing moves.
LEMMA MapSettles ==
    ASSUME Map!MapAssumption, MapInv, NEW m \in Map!Items, Map!Settle(m)
    PROVE  MapInv'
<1> USE MapDistinct DEF MapInv
<1>1. PICK n \in 0..MaxItems : MapComplete(n)  OBVIOUS
<1>2. PICK result \in {"ok", "error"} : call' = [call EXCEPT ![m] = result]
  BY DEF Map!Settle
<1>3. /\ call[m] = "running"
      /\ UNCHANGED << mapper, fifo, closed, awaited, iterator, out >>
  BY DEF Map!Settle
<1>4. Passed' = Passed /\ Buffered' = Buffered
  BY <1>3 DEF Passed, Buffered, EndsInFailure
<1>5. call' \in [Map!Items -> {"none", "running", "ok", "error"}]
  BY <1>2 DEF MapTypes, Map!TypeOK
<1>6. MapTypes'  BY <1>3, <1>5 DEF MapTypes, Map!TypeOK
<1>7. MapNumbered'  BY <1>3, <1>4 DEF MapNumbered, Map!InStreamOrder
<1>8. MapRoom'  BY <1>3, <1>4 DEF MapRoom
<1>9. MapClosing'  BY <1>3 DEF MapClosing
<1>10. \A i \in Map!Items : call'[i] # "none" <=> call[i] # "none"
  BY <1>2, <1>3 DEF MapTypes, Map!TypeOK
<1>11. MapComplete(n)'  BY <1>1, <1>3, <1>4, <1>10 DEF MapComplete, StartedTo
<1> QED BY <1>6, <1>7, <1>8, <1>9, <1>11

\* The consumer takes the next promise: an item, the error of the stream, or the
\* end of a queue that is empty and closed.
LEMMA MapTakes ==
    ASSUME Map!MapAssumption, MapInv, Map!Take
    PROVE  MapInv'
<1> USE MapDistinct DEF MapInv
<1>1. PICK n \in 0..MaxItems : MapComplete(n)  OBVIOUS
<1>2. /\ iterator = "running" /\ awaited = 0
      /\ UNCHANGED << call, closed, out >>
  BY DEF Map!Take
<1>3. Passed = Len(out) /\ Len(out) \in Nat  BY <1>2 DEF Passed, MapTypes
<1>4. StartedTo(n)'  BY <1>1, <1>2 DEF MapComplete, StartedTo
<1>5. CASE fifo = << >>
  <2>1. closed /\ iterator' = "done" /\ UNCHANGED << awaited, fifo, mapper >>
    BY <1>5 DEF Map!Take
  <2>2. mapper = "ended"  BY <1>2, <2>1 DEF MapClosing
  <2>3. Passed' = Passed /\ Buffered' = Buffered
    BY <1>2, <2>1 DEF Passed, Buffered, EndsInFailure
  <2>4. MapTypes'  BY <1>2, <2>1 DEF MapTypes, Map!TypeOK
  <2>5. MapNumbered'  BY <1>2, <2>1, <2>3 DEF MapNumbered, Map!InStreamOrder
  <2>6. MapRoom'  BY <2>1, <2>3 DEF MapRoom
  <2>7. MapClosing'  BY <1>2, <1>5, <2>1, <2>2 DEF MapClosing
  <2>8. MapComplete(n)'  BY <1>1, <1>4, <2>1, <2>3 DEF MapComplete
  <2> QED BY <2>4, <2>5, <2>6, <2>7, <2>8
<1>6. CASE fifo # << >>
  <2>1. /\ awaited' = Head(fifo) /\ fifo' = Tail(fifo) /\ iterator' = iterator
        /\ mapper' = IF mapper = "putting" /\ Len(fifo') < Concurrency
                     THEN "pulling" ELSE mapper
    BY <1>6 DEF Map!Take
  <2>2. /\ Len(fifo) \in Nat /\ Len(fifo) > 0
        /\ fifo' \in Seq(Map!Items \cup {Failure})
        /\ Len(fifo') = Len(fifo) - 1
        /\ \A i \in 1..Len(fifo') : fifo'[i] = fifo[i + 1]
        /\ awaited' = fifo[1] /\ awaited' \in Map!Items \cup {Failure}
    BY <1>6, <2>1 DEF MapTypes
  <2>3. MapTypes'
    <3>1. \A i \in DOMAIN fifo' : fifo'[i] \in Map!Items \cup {Failure}  BY <2>2
    <3>2. mapper' \in {"pulling", "putting", "ended", "failed", "stopped"}
      BY <2>1 DEF MapTypes, Map!TypeOK
    <3> QED BY <1>2, <2>1, <2>2, <3>1, <3>2 DEF MapTypes, Map!TypeOK
  <2>4. MapClosing'  BY <1>2, <2>1 DEF MapClosing
  <2>5. mapper' = mapper \/ (mapper = "putting" /\ mapper' = "pulling")  BY <2>1
  <2>6. mapper' = "pulling" => Len(fifo') < Concurrency
    BY <2>1, <2>2 DEF MapRoom, Map!MapAssumption
  <2>7. CASE fifo[1] = Failure
    <3>1. Len(fifo) = 1 /\ mapper = "failed"  BY <2>2, <2>7 DEF MapNumbered
    <3>2. fifo' = << >> /\ mapper' = "failed" /\ awaited' = Failure
      BY <2>2, <2>5, <2>7, <3>1
    <3>3. Passed' = Passed  BY <1>2, <1>3, <3>2 DEF Passed
    <3>4. Buffered = 0 /\ Buffered' = 0
      BY <2>2, <2>7, <3>1, <3>2 DEF Buffered, EndsInFailure
    <3>5. MapNumbered'  BY <1>2, <3>2 DEF MapNumbered, Map!InStreamOrder
    <3>6. MapRoom'  BY <3>2, <3>4 DEF MapRoom, Map!MapAssumption
    <3>7. MapComplete(n)'  BY <1>1, <1>4, <3>1, <3>2, <3>3, <3>4 DEF MapComplete
    <3> QED BY <2>3, <2>4, <3>5, <3>6, <3>7
  <2>8. CASE fifo[1] # Failure
    <3>1. awaited' = Len(out) + 1 /\ awaited' \in Map!Items
      BY <1>3, <2>2, <2>8 DEF MapNumbered
    <3>2. Passed' = Passed + 1  BY <1>2, <1>3, <3>1 DEF Passed
    <3>3. EndsInFailure' <=> EndsInFailure  BY <2>2, <2>8 DEF EndsInFailure
    <3>4. Buffered \in Nat /\ Buffered' = Buffered - 1
      BY <2>2, <2>8, <3>3 DEF Buffered, EndsInFailure
    <3>5. MapNumbered'
      <4>1. ASSUME NEW i \in 1..Len(fifo')
            PROVE  \/ fifo'[i] = Passed' + i /\ fifo'[i] # Failure
                   \/ fifo'[i] = Failure /\ i = Len(fifo') /\ mapper' = "failed"
        <5>1. i + 1 \in 1..Len(fifo) /\ fifo'[i] = fifo[i + 1]  BY <2>2
        <5>2. CASE fifo[i + 1] = Passed + (i + 1) /\ fifo[i + 1] # Failure
          BY <1>3, <3>2, <5>1, <5>2
        <5>3. CASE fifo[i + 1] = Failure /\ i + 1 = Len(fifo) /\ mapper = "failed"
          BY <2>2, <2>5, <5>1, <5>3
        <5> QED BY <5>1, <5>2, <5>3 DEF MapNumbered
      <4>2. awaited' # Failure  BY <3>1
      <4> QED BY <1>2, <3>1, <4>1, <4>2 DEF MapNumbered, Map!InStreamOrder
    <3>6. MapRoom'  BY <2>6, <3>4 DEF MapRoom, Map!MapAssumption
    <3>7. MapComplete(n)'
      BY <1>1, <1>3, <1>4, <2>5, <3>2, <3>4 DEF MapComplete
    <3> QED BY <2>3, <2>4, <3>5, <3>6, <3>7
  <2> QED BY <2>7, <2>8
<1> QED BY <1>5, <1>6

\* A result is handed over: the awaited item becomes the last of those.
LEMMA MapYields ==
    ASSUME Map!MapAssumption, MapInv, Map!Yield
    PROVE  MapInv'
<1> USE MapDistinct DEF MapInv
<1>1. PICK n \in 0..MaxItems : MapComplete(n)  OBVIOUS
<1>2. /\ iterator = "running" /\ awaited \in Map!Items /\ awaited' = 0
      /\ out' = Append(out, awaited)
      /\ UNCHANGED << mapper, call, fifo, closed, iterator >>
  BY DEF Map!Yield
<1>3. /\ awaited = Len(out) + 1
      /\ out' \in Seq(Map!Items) /\ Len(out) \in Nat /\ Len(out') = Len(out) + 1
      /\ \A i \in 1..Len(out) : out'[i] = out[i]
      /\ out'[Len(out')] = awaited
  BY <1>2 DEF MapNumbered, MapTypes
<1>4. Passed' = Passed /\ Buffered' = Buffered
  BY <1>2, <1>3 DEF Passed, Buffered, EndsInFailure
<1>5. MapTypes'  BY <1>2, <1>3 DEF MapTypes, Map!TypeOK
<1>6. MapNumbered'
  <2>1. \A i \in 1..Len(out') : out'[i] = i
    <3>1. \A i \in 1..Len(out) : out[i] = i  BY DEF MapNumbered, Map!InStreamOrder
    <3> QED BY <1>3, <3>1
  <2>2. out' = [i \in 1..Len(out') |-> i]  BY <1>3, <2>1
  <2> QED BY <1>2, <1>4, <2>2 DEF MapNumbered, Map!InStreamOrder
<1>7. MapRoom'  BY <1>2, <1>4 DEF MapRoom
<1>8. MapClosing'  BY <1>2 DEF MapClosing
<1>9. MapComplete(n)'  BY <1>1, <1>2, <1>4 DEF MapComplete, StartedTo
<1> QED BY <1>5, <1>6, <1>7, <1>8, <1>9

\* The consumer goes away, with an error or of its own: a put() that waits is
\* rejected, what it has put stays in the queue.
LEMMA MapCloses ==
    ASSUME Map!MapAssumption, MapInv, Map!CloseQueue,
           iterator = "running", iterator' \in {"threw", "left"},
           UNCHANGED << call, fifo, awaited, out >>
    PROVE  MapInv'
<1> USE MapDistinct DEF MapInv
<1>1. PICK n \in 0..MaxItems : MapComplete(n)  OBVIOUS
<1>2. closed' = TRUE /\ mapper' = IF mapper = "putting" THEN "stopped" ELSE mapper
  BY DEF Map!CloseQueue
<1>3. Passed' = Passed /\ Buffered' = Buffered
  BY DEF Passed, Buffered, EndsInFailure
<1>4. Passed \in Nat /\ Buffered \in Int
  BY DEF Passed, Buffered, MapTypes
<1>5. MapTypes'  BY <1>2 DEF MapTypes, Map!TypeOK
<1>6. MapNumbered'
  <2>1. mapper = "failed" => mapper' = "failed"  BY <1>2
  <2> QED BY <1>3, <2>1 DEF MapNumbered, Map!InStreamOrder
<1>7. MapRoom'  BY <1>2, <1>3 DEF MapRoom
<1>8. MapClosing'  BY <1>2 DEF MapClosing
<1>9. MapComplete(n)'  BY <1>1, <1>2, <1>3, <1>4 DEF MapComplete, StartedTo
<1> QED BY <1>5, <1>6, <1>7, <1>8, <1>9

LEMMA MapStep ==
    ASSUME Map!MapAssumption, MapInv, [Map!Next]_mapVars
    PROVE  MapInv'
<1>1. CASE Map!Pull  BY <1>1, MapPulls
<1>2. CASE Map!End  BY <1>2, MapEnds
<1>3. CASE Map!Fail  BY <1>3, MapFails
<1>4. CASE \E n \in Map!Items : Map!Settle(n)  BY <1>4, MapSettles
<1>5. CASE Map!Take  BY <1>5, MapTakes
<1>6. CASE Map!Yield  BY <1>6, MapYields
<1>7. CASE Map!Throw  BY <1>7, MapCloses DEF Map!Throw
<1>8. CASE Map!Leave  BY <1>8, MapCloses DEF Map!Leave
<1>9. CASE UNCHANGED mapVars
  <2>1. UNCHANGED << mapper, call, fifo, closed, awaited, iterator, out >>
    BY <1>9 DEF mapVars
  <2>2. MapTypes' /\ MapNumbered' /\ MapRoom' /\ MapClosing'
    BY <2>1 DEF MapInv, MapTypes, Map!TypeOK, MapNumbered, Map!InStreamOrder, Passed, MapRoom,
       Buffered, EndsInFailure, MapClosing
  <2>3. PICK n \in 0..MaxItems : MapComplete(n)  BY DEF MapInv
  <2>4. MapComplete(n)'
    BY <2>1, <2>3 DEF MapComplete, StartedTo, Passed, Buffered, EndsInFailure
  <2> QED BY <2>2, <2>4 DEF MapInv
<1> QED BY <1>1, <1>2, <1>3, <1>4, <1>5, <1>6, <1>7, <1>8, <1>9 DEF Map!Next

\* What the invariant says of the consumer.
LEMMA MapImplies ==
    ASSUME Map!MapAssumption, MapInv
    PROVE  Map!EveryItemInOrder
<1> USE MapDistinct DEF MapInv
<1>1. PICK n \in 0..MaxItems : MapComplete(n)  OBVIOUS
<1>2. Map!Cardinality(Map!Started) = n  BY <1>1, StartedCount DEF MapComplete
<1>3. /\ n \in Nat /\ Len(out) \in Nat /\ Buffered \in Int /\ Concurrency \in Nat
      /\ Buffered <= Concurrency
      /\ Passed \in Nat /\ Passed <= Len(out) + 1
  BY DEF Map!MapAssumption, MapTypes, MapRoom, Passed, Buffered
<1>4. Map!BoundedConcurrency
  <2>1. CASE mapper = "stopped"
    BY <1>1, <1>2, <1>3, <2>1 DEF Map!BoundedConcurrency, MapComplete
  <2>2. CASE mapper # "stopped"
    BY <1>1, <1>2, <1>3, <2>2 DEF Map!BoundedConcurrency, MapComplete
  <2> QED BY <2>1, <2>2
<1>5. Map!NoSilentEnd
  <2>1. SUFFICES ASSUME iterator = "done"
                 PROVE  mapper = "ended" /\ Len(out) = n
    BY <1>2 DEF Map!NoSilentEnd
  <2>2. mapper = "ended" /\ awaited = 0 /\ fifo = << >>  BY <2>1 DEF MapClosing
  <2>3. Buffered = 0 /\ Passed = Len(out)
    BY <1>3, <2>2 DEF Buffered, EndsInFailure, Passed
  <2> QED BY <1>1, <1>3, <2>2, <2>3 DEF MapComplete
<1> QED BY <1>4, <1>5 DEF Map!EveryItemInOrder, MapTypes, MapNumbered

\* concurrentMap() for every concurrency, every length of the stream and every order in
\* which its calls settle and fail: the consumer is handed every item once and in order,
\* no more calls than allowed are ahead of it, and it takes the iteration for complete
\* only if the stream was (async.ts:178-212).
THEOREM EveryItemInOrderAlways == Spec => []EveryItemInOrder
<1>1. Map!MapAssumption  BY StreamsAssumption DEF StreamsAssumption
<1>2. Init => MapInv  BY <1>1, MapInit DEF Init
<1>3. MapInv /\ [Next]_vars => MapInv'  BY <1>1, MapStep, StepOfOne
<1>4. MapInv => EveryItemInOrder  BY <1>1, MapImplies DEF EveryItemInOrder
<1> QED BY <1>2, <1>3, <1>4, PTL DEF Spec
------------------------------------------------------------------------------
(***************************************************************************)
(* AsyncQueue: the ring buffer holds a sequence of values, and what was      *)
(* received, followed by it, is what was sent.                               *)
(***************************************************************************)
\* A queue of n slots.
Shaped(q, n) ==
    /\ n \in Nat \ {0}
    /\ q \in [maxsize : Nat \ {0}, buf : [0..(n - 1) -> Nat \cup {Undefined}],
              pos : 0..(n - 1), size : 0..n, closed : BOOLEAN,
              putFutures : SUBSET Producer, taking : BOOLEAN]

\* The queue of n slots holds the values of s, the first of them at its position.
Slot(q, n, i) == (q.pos + i) % n

Holds(q, n, s) ==
    /\ Shaped(q, n)
    /\ s \in Seq(Nat) /\ Len(s) = q.size
    /\ \A i \in 1..q.size : q.buf[Slot(q, n, i - 1)] = s[i]

\* Going round a ring of n slots, at most once.
LEMMA AroundTheRing ==
    ASSUME NEW n \in Nat \ {0}, NEW a \in 0..(n - 1), NEW k \in 0..n
    PROVE  (a + k) % n = IF a + k < n THEN a + k ELSE a + k - n
OBVIOUS

LEMMA SlotIs ==
    ASSUME NEW q, NEW n, Shaped(q, n), NEW i \in 0..n
    PROVE  /\ Slot(q, n, i) = IF q.pos + i < n THEN q.pos + i ELSE q.pos + i - n
           /\ Slot(q, n, i) \in 0..(n - 1)
<1> DEFINE pos == q.pos
<1>1. n \in Nat \ {0} /\ pos \in 0..(n - 1)  BY DEF Shaped
<1>2. Slot(q, n, i) = (pos + i) % n  BY DEF Slot
<1> HIDE DEF pos
<1>3. Slot(q, n, i) = IF pos + i < n THEN pos + i ELSE pos + i - n
  BY <1>1, <1>2, AroundTheRing
<1>4. Slot(q, n, i) \in 0..(n - 1)  BY <1>1, <1>3
<1> QED BY <1>3, <1>4 DEF pos

\* Different values are in different slots.
LEMMA SlotsDiffer ==
    ASSUME NEW q, NEW n, Shaped(q, n), NEW i \in 0..(n - 1), NEW j \in 0..(n - 1), i # j
    PROVE  Slot(q, n, i) # Slot(q, n, j)
<1> DEFINE pos == q.pos
<1>1. n \in Nat \ {0} /\ pos \in 0..(n - 1) /\ i \in 0..n /\ j \in 0..n  BY DEF Shaped
<1>2. /\ Slot(q, n, i) = IF pos + i < n THEN pos + i ELSE pos + i - n
      /\ Slot(q, n, j) = IF pos + j < n THEN pos + j ELSE pos + j - n
  BY <1>1, SlotIs
<1> HIDE DEF pos
<1> QED BY <1>1, <1>2

LEMMA ShapedLength ==
    ASSUME NEW q, NEW n, Shaped(q, n)
    PROVE  Queue!BufLength(q) = n /\ DOMAIN q.buf = 0..(n - 1)
<1>1. n \in Nat \ {0} /\ DOMAIN q.buf = 0..(n - 1)  BY DEF Shaped
<1>2. Cardinality(0..(n - 1)) = IF 0 > n - 1 THEN 0 ELSE n - 1 - 0 + 1
  <2> DEFINE m == n - 1
  <2>1. m \in Int /\ 0 \in Int  BY <1>1
  <2> HIDE DEF m
  <2>2. Cardinality(0..m) = IF 0 > m THEN 0 ELSE m - 0 + 1  BY <2>1, FS_Interval
  <2> QED BY <2>2 DEF m
<1>3. Cardinality(0..(n - 1)) = n  BY <1>1, <1>2
<1>4. Queue!Cardinality(0..(n - 1)) = Cardinality(0..(n - 1))
  BY DEF Queue!Cardinality, Cardinality
<1> QED BY <1>1, <1>3, <1>4 DEF Queue!BufLength

\* What is buffered is the content of the queue.
LEMMA HoldsContent ==
    ASSUME NEW q, NEW n, NEW s, Holds(q, n, s)
    PROVE  Queue!Content(q) = s
<1>1. /\ Queue!BufLength(q) = n /\ s \in Seq(Nat) /\ Len(s) = q.size
      /\ q.pos \in Nat /\ q.size \in Nat
  <2>1. Shaped(q, n) /\ s \in Seq(Nat) /\ Len(s) = q.size  BY DEF Holds
  <2>2. q.pos \in 0..(n - 1) /\ q.size \in 0..n  BY <2>1 DEF Shaped
  <2> QED BY <2>1, <2>2, ShapedLength
<1>2. ASSUME NEW i \in 1..q.size PROVE q.buf[(q.pos + i - 1) % n] = s[i]
  <2>1. q.pos + i - 1 = q.pos + (i - 1)  BY <1>1
  <2> QED BY <2>1 DEF Holds, Slot
<1>3. Queue!Content(q) = [i \in 1..q.size |-> s[i]]
  BY <1>1, <1>2 DEF Queue!Content
<1> QED BY <1>1, <1>3

\* What does not touch the buffer leaves the values there.
LEMMA HoldsSame ==
    ASSUME NEW q, NEW n, NEW s, NEW r, Holds(q, n, s), Shaped(r, n),
           r.buf = q.buf, r.pos = q.pos, r.size = q.size
    PROVE  Holds(r, n, s)
BY DEF Holds, Slot

\* A value is put behind the last one ...
LEMMA HoldsPush ==
    ASSUME NEW q, NEW n, NEW s, Holds(q, n, s), q.size < n, NEW v \in Nat
    PROVE  Holds([q EXCEPT !.buf[(q.pos + q.size) % n] = v, !.size = @ + 1], n, Append(s, v))
<1> DEFINE at == Slot(q, n, q.size)
           buf == [q.buf EXCEPT ![at] = v]
           size == q.size + 1
           r == [q EXCEPT !.buf = buf, !.size = size]
<1>1. /\ Shaped(q, n) /\ n \in Nat \ {0} /\ q.size \in 0..(n - 1) /\ q.size \in 0..n
      /\ q.buf \in [0..(n - 1) -> Nat \cup {Undefined}]
      /\ s \in Seq(Nat) /\ Len(s) = q.size
  BY DEF Holds, Shaped
<1>2. at \in 0..(n - 1)  BY <1>1, SlotIs
<1>3. [q EXCEPT !.buf[(q.pos + q.size) % n] = v, !.size = @ + 1] = r
  BY DEF Slot
<1>4. size \in 0..n /\ size \in Nat  BY <1>1
<1>5. buf \in [0..(n - 1) -> Nat \cup {Undefined}]
  <2> HIDE DEF at
  <2> QED BY <1>1, <1>2
<1>6. Shaped(r, n) /\ r.buf = buf /\ r.size = size /\ r.pos = q.pos
  <2> HIDE DEF buf, size
  <2> QED BY <1>1, <1>4, <1>5 DEF Shaped
<1>7. Append(s, v) \in Seq(Nat) /\ Len(Append(s, v)) = size  BY <1>1
<1>8. ASSUME NEW i \in 1..size PROVE buf[Slot(r, n, i - 1)] = Append(s, v)[i]
  <2> HIDE DEF r
  <2>1. Slot(r, n, i - 1) = Slot(q, n, i - 1)  BY <1>6 DEF Slot
  <2>2. CASE i = size
    <3>1. i - 1 = q.size  BY <1>1, <2>2
    <3>2. buf[at] = v  BY <1>1, <1>2
    <3>3. Append(s, v)[i] = v  BY <1>1, <2>2
    <3> QED BY <2>1, <3>1, <3>2, <3>3
  <2>3. CASE i # size
    <3> DEFINE j == i - 1
    <3>1. j \in 0..(n - 1) /\ j # q.size /\ i \in 1..q.size /\ j \in 0..n  BY <1>1, <2>3
    <3>2. Slot(q, n, j) # at  BY <1>1, <3>1, SlotsDiffer
    <3>3. Slot(q, n, j) \in 0..(n - 1)  BY <1>1, <3>1, SlotIs
    <3>4. q.buf[Slot(q, n, j)] = s[i]  BY <3>1 DEF Holds
    <3>5. Append(s, v)[i] = s[i]  BY <1>1, <3>1
    <3> HIDE DEF at, j
    <3>6. buf[Slot(q, n, j)] = q.buf[Slot(q, n, j)]  BY <1>1, <3>2, <3>3
    <3>7. Slot(r, n, i - 1) = Slot(q, n, j)  BY <2>1 DEF j
    <3> QED BY <3>4, <3>5, <3>6, <3>7
  <2> QED BY <2>2, <2>3
<1> HIDE DEF r, buf, size
<1> QED BY <1>3, <1>6, <1>7, <1>8 DEF Holds
\* ... or in its place ...
LEMMA HoldsReplace ==
    ASSUME NEW q, NEW n, NEW s, Holds(q, n, s), q.size > 0, NEW v \in Nat
    PROVE  Holds([q EXCEPT !.buf[(q.pos + q.size - 1) % n] = v], n,
                 Append(SubSeq(s, 1, Len(s) - 1), v))
<1> DEFINE last == q.size - 1
           at == Slot(q, n, last)
           buf == [q.buf EXCEPT ![at] = v]
           r == [q EXCEPT !.buf = buf]
           t == Append(SubSeq(s, 1, Len(s) - 1), v)
<1>1. /\ Shaped(q, n) /\ n \in Nat \ {0} /\ q.size \in 1..n
      /\ q.pos \in Nat /\ last \in 0..(n - 1) /\ last \in 0..n
      /\ q.buf \in [0..(n - 1) -> Nat \cup {Undefined}]
      /\ s \in Seq(Nat) /\ Len(s) = q.size
  BY DEF Holds, Shaped
<1>2. at \in 0..(n - 1)
  <2> HIDE DEF last
  <2> QED BY <1>1, SlotIs
<1>3. [q EXCEPT !.buf[(q.pos + q.size - 1) % n] = v] = r
  <2>1. q.pos + q.size - 1 = q.pos + last  BY <1>1
  <2> QED BY <2>1 DEF Slot
<1>4. buf \in [0..(n - 1) -> Nat \cup {Undefined}]
  <2> HIDE DEF at
  <2> QED BY <1>1, <1>2
<1>5. Shaped(r, n) /\ r.buf = buf /\ r.size = q.size /\ r.pos = q.pos
  <2> HIDE DEF buf
  <2> QED BY <1>1, <1>4 DEF Shaped
<1>6. /\ t \in Seq(Nat) /\ Len(t) = q.size /\ t[q.size] = v
      /\ \A i \in 1..last : t[i] = s[i]
  BY <1>1, SMTT(40)
<1>7. ASSUME NEW i \in 1..q.size PROVE buf[Slot(r, n, i - 1)] = t[i]
  <2> HIDE DEF r, t
  <2>1. Slot(r, n, i - 1) = Slot(q, n, i - 1)  BY <1>5 DEF Slot
  <2>2. CASE i = q.size
    <3>1. buf[at] = v  BY <1>1, <1>2
    <3> QED BY <1>6, <2>1, <2>2, <3>1
  <2>3. CASE i # q.size
    <3> DEFINE j == i - 1
    <3>1. j \in 0..(n - 1) /\ j # last /\ i \in 1..last /\ j \in 0..n  BY <1>1, <2>3
    <3> HIDE DEF last
    <3>2. Slot(q, n, j) # at  BY <1>1, <3>1, SlotsDiffer
    <3>3. Slot(q, n, j) \in 0..(n - 1)  BY <1>1, <3>1, SlotIs
    <3>4. q.buf[Slot(q, n, j)] = s[i]  BY DEF Holds
    <3>5. t[i] = s[i]  BY <1>6, <3>1
    <3> HIDE DEF at, j
    <3>6. buf[Slot(q, n, j)] = q.buf[Slot(q, n, j)]  BY <1>1, <3>2, <3>3
    <3>7. Slot(r, n, i - 1) = Slot(q, n, j)  BY <2>1 DEF j
    <3> QED BY <3>4, <3>5, <3>6, <3>7
  <2> QED BY <2>2, <2>3
<1> HIDE DEF r, buf, t, last
<1>8. Holds(r, n, t)  BY <1>5, <1>6, <1>7 DEF Holds
<1> QED BY <1>3, <1>8 DEF t

\* ... and the first one is taken.
LEMMA HoldsTake ==
    ASSUME NEW q, NEW n, NEW s, Holds(q, n, s), q.size > 0
    PROVE  /\ q.buf[q.pos] = Head(s) /\ Head(s) \in Nat /\ s # << >>
           /\ Holds(Queue!TakeFrom(q), n, Tail(s))
<1> DEFINE at == q.pos
           buf == [q.buf EXCEPT ![at] = Undefined]
           pos == Slot(q, n, 1)
           size == q.size - 1
           futures == IF q.size - 1 < q.maxsize THEN {} ELSE q.putFutures
           r == [q EXCEPT !.buf = buf, !.pos = pos, !.size = size, !.putFutures = futures]
<1>1. /\ Shaped(q, n) /\ n \in Nat \ {0} /\ q.size \in 1..n
      /\ at \in 0..(n - 1) /\ 1 \in 0..n /\ 0 \in 0..(n - 1)
      /\ q.buf \in [0..(n - 1) -> Nat \cup {Undefined}] /\ q.putFutures \in SUBSET Producer
      /\ s \in Seq(Nat) /\ Len(s) = q.size
  BY DEF Holds, Shaped
<1>2. pos \in 0..(n - 1) /\ pos = (IF at + 1 < n THEN at + 1 ELSE at + 1 - n)
  <2>1. Slot(q, n, 1) \in 0..(n - 1)  BY <1>1, SlotIs
  <2>2. Slot(q, n, 1) = IF q.pos + 1 < n THEN q.pos + 1 ELSE q.pos + 1 - n  BY <1>1, SlotIs
  <2> QED BY <2>1, <2>2
<1>3. Queue!TakeFrom(q) = r
  <2>1. Queue!BufLength(q) = n  BY <1>1, ShapedLength
  <2> QED BY <2>1 DEF Queue!TakeFrom, Slot
<1>4. Slot(q, n, 0) = at
  <2>1. 0 \in 0..n  BY <1>1
  <2>2. Slot(q, n, 0) = IF q.pos + 0 < n THEN q.pos + 0 ELSE q.pos + 0 - n  BY <1>1, <2>1, SlotIs
  <2> QED BY <1>1, <2>2
<1>5. q.buf[at] = Head(s) /\ Head(s) \in Nat /\ s # << >>
  <2>1. q.buf[Slot(q, n, 1 - 1)] = s[1]  BY <1>1 DEF Holds
  <2>2. Head(s) = s[1] /\ s[1] \in Nat /\ s # << >>  BY <1>1
  <2> QED BY <1>4, <2>1, <2>2
<1>6. buf \in [0..(n - 1) -> Nat \cup {Undefined}]  BY <1>1
<1>7. size \in 0..n /\ futures \in SUBSET Producer  BY <1>1
<1>8. Shaped(r, n) /\ r.buf = buf /\ r.size = size /\ r.pos = pos
  <2> HIDE DEF buf, size, pos, futures
  <2> QED BY <1>1, <1>2, <1>6, <1>7 DEF Shaped
<1>9. /\ Tail(s) \in Seq(Nat) /\ Len(Tail(s)) = size
      /\ \A i \in 1..size : Tail(s)[i] = s[i + 1]
  BY <1>1
<1>10. ASSUME NEW i \in 1..size PROVE buf[Slot(r, n, i - 1)] = Tail(s)[i]
  <2> HIDE DEF r
  <2>1. i \in 0..(n - 1) /\ i \in 0..n /\ i # 0 /\ i + 1 \in 1..q.size /\ i - 1 \in 0..n
        /\ i + 1 - 1 = i
    BY <1>1
  <2>2. Slot(r, n, i - 1) = Slot(q, n, i)
    <3> DEFINE j == i - 1
    <3>1. Slot(r, n, j) = IF r.pos + j < n THEN r.pos + j ELSE r.pos + j - n
      BY <1>8, <2>1, SlotIs
    <3>2. Slot(q, n, i) = IF at + i < n THEN at + i ELSE at + i - n
      BY <1>1, <2>1, SlotIs
    <3> HIDE DEF at, pos
    <3> QED BY <1>1, <1>2, <1>8, <2>1, <3>1, <3>2
  <2>3. Slot(q, n, i) # at  BY <1>1, <1>4, <2>1, SlotsDiffer
  <2>4. Slot(q, n, i) \in 0..(n - 1)  BY <1>1, <2>1, SlotIs
  <2>5. q.buf[Slot(q, n, i)] = s[i + 1]
    <3>1. q.buf[Slot(q, n, (i + 1) - 1)] = s[i + 1]  BY <2>1 DEF Holds
    <3> QED BY <2>1, <3>1
  <2>6. Tail(s)[i] = s[i + 1]  BY <1>9
  <2>7. buf[Slot(q, n, i)] = q.buf[Slot(q, n, i)]  BY <1>1, <2>3, <2>4
  <2> QED BY <2>2, <2>5, <2>6, <2>7
<1> HIDE DEF r, buf, size, pos
<1>11. Holds(r, n, Tail(s))  BY <1>8, <1>9, <1>10 DEF Holds
<1> QED BY <1>3, <1>5, <1>11

\* A full buffer that begins at its first slot gets one more.
LEMMA HoldsEnlarge ==
    ASSUME NEW q, NEW n, NEW s, Holds(q, n, s), q.size = n, q.pos = 0
    PROVE  Holds(Queue!EnlargeBuffer(q), n + 1, s)
<1> DEFINE buf == [i \in 0..n |-> IF i = n THEN Undefined ELSE q.buf[i]]
           r == [q EXCEPT !.buf = buf]
<1>1. /\ Shaped(q, n) /\ n \in Nat \ {0} /\ n + 1 - 1 = n
      /\ q.buf \in [0..(n - 1) -> Nat \cup {Undefined}]
      /\ s \in Seq(Nat) /\ Len(s) = q.size
  BY DEF Holds, Shaped
<1>2. buf \in [0..n -> Nat \cup {Undefined}]  BY <1>1
<1>3. Queue!EnlargeBuffer(q) = r
  <2>1. ASSUME NEW i \in 0..n
        PROVE  (CASE i = q.size -> Undefined
                  [] i < q.pos - 1 -> q.buf[i + 1]
                  [] OTHER -> q.buf[i])
                 = IF i = n THEN Undefined ELSE q.buf[i]
    <3>1. ~ i < 0 - 1  BY <1>1
    <3> QED BY <3>1, Zenon
  <2> DEFINE slots == [i \in 0..q.size |->
                         CASE i = q.size -> Undefined
                           [] i < q.pos - 1 -> q.buf[i + 1]
                           [] OTHER -> q.buf[i]]
  <2>2. slots = buf  BY <2>1, Zenon
  <2>3. Queue!EnlargeBuffer(q) = [q EXCEPT !.buf = slots]  BY Zenon DEF Queue!EnlargeBuffer
  <2> HIDE DEF slots, buf
  <2> QED BY <2>2, <2>3
<1>4. Shaped(r, n + 1) /\ r.buf = buf /\ r.size = n /\ r.pos = 0
  <2> HIDE DEF buf
  <2>1. n + 1 \in Nat \ {0} /\ n \in 0..(n + 1) /\ 0 \in 0..n  BY <1>1
  <2> QED BY <1>1, <1>2, <2>1 DEF Shaped
<1>5. ASSUME NEW i \in 1..n PROVE buf[Slot(r, n + 1, i - 1)] = s[i]
  <2> DEFINE j == i - 1
             m == n + 1
  <2>1. j \in 0..(n - 1) /\ j \in 0..n /\ j \in 0..m /\ j # n  BY <1>1
  <2>2. Slot(q, n, j) = j
    <3>1. Slot(q, n, j) = IF 0 + j < n THEN 0 + j ELSE 0 + j - n  BY <1>1, <2>1, SlotIs
    <3> QED BY <1>1, <2>1, <3>1
  <2>3. Slot(r, m, j) = j
    <3> HIDE DEF r
    <3>1. Slot(r, m, j) = IF r.pos + j < m THEN r.pos + j ELSE r.pos + j - m
      BY <1>4, <2>1, SlotIs
    <3> QED BY <1>1, <1>4, <2>1, <3>1
  <2>4. q.buf[j] = s[i]
    <3>1. q.buf[Slot(q, n, i - 1)] = s[i]  BY DEF Holds
    <3> QED BY <2>2, <3>1
  <2>5. buf[j] = q.buf[j]  BY <1>1, <2>1
  <2> HIDE DEF buf, r
  <2> QED BY <2>3, <2>4, <2>5
<1> HIDE DEF r, buf
<1> QED BY <1>1, <1>3, <1>4, <1>5 DEF Holds

------------------------------------------------------------------------------
Slots == Queue!BufLength(queue)

\* No more than two callers put into a queue at a time.
AtMostTwo == \A p, q, r \in Producer : p = q \/ q = r \/ p = r

\* A caller that has no put to make now.
Idle(p) == p \in queue.putFutures \/ producer[p] # "put"

QueueTypes ==
    /\ sent \in Seq(Nat) /\ received \in Seq(Nat)
    /\ producer \in [Producer -> {"put", "force", "stopped"}]
    /\ reader \in {"running", "done"}
    /\ \A p, r \in Producer : producer[p] = "put" => producer[r] # "force"

QueueRing ==
    /\ Holds(queue, Slots, Queue!Content(queue))
    /\ received \o Queue!Content(queue) = sent

\* Who may put finds a free slot, or the only slot taken: the buffer grows only while
\* it begins at its first slot.
QueueRoom ==
    ~ queue.closed =>
        /\ queue.maxsize > 1 =>
              /\ Slots = queue.maxsize
              /\ \A p, r \in Producer : producer[p] = "put" /\ producer[r] = "put" => p = r
              /\ queue.size >= queue.maxsize => \A p \in Producer : Idle(p)
        /\ queue.maxsize = 1 =>
              /\ Slots \in {1, 2}
              /\ queue.size >= 1 => \E p \in Producer : Idle(p)
              /\ queue.size >= 2 => \A p \in Producer : Idle(p)

QueueInv == QueueTypes /\ QueueRing /\ Queue!NoIdleWaiters /\ QueueRoom

LEMMA TwoAreFinite ==
    ASSUME AtMostTwo, NEW S, S \subseteq Producer
    PROVE  IsFiniteSet(S)
<1>1. CASE S = {}  BY <1>1, FS_EmptySet
<1>2. CASE S # {}
  <2>1. PICK p \in S : TRUE  BY <1>2
  <2>2. PICK r \in S : S = {p, r}
    <3>1. CASE S = {p}  BY <3>1
    <3>2. CASE S # {p}
      <4>1. PICK r \in S : r # p  BY <2>1, <3>2
      <4>2. S = {p, r}  BY <2>1, <4>1 DEF AtMostTwo
      <4> QED BY <4>2
    <3> QED BY <3>1, <3>2
  <2>3. IsFiniteSet({p} \cup {r})  BY FS_Singleton, FS_Union
  <2>4. {p} \cup {r} = S  BY <2>2
  <2> QED BY <2>3, <2>4
<1> QED BY <1>1, <1>2

\* The rest of a step follows from where the ring is after it.
LEMMA RingAt ==
    ASSUME NEW n, NEW s, Holds(queue', n, s), received' \o s = sent'
    PROVE  QueueRing' /\ Slots' = n
<1>1. Queue!Content(queue') = s  BY HoldsContent
<1>2. Queue!BufLength(queue') = n  BY ShapedLength DEF Holds
<1> QED BY <1>1, <1>2 DEF QueueRing, Slots

LEMMA QueueInit == ASSUME StreamsAssumption, AtMostTwo, Shared = FALSE PROVE Init => QueueInv
<1> SUFFICES ASSUME Init PROVE QueueInv
  OBVIOUS
<1>1. MaxSize \in Nat \ {0} /\ reader = "running" /\ sent = << >> /\ received = << >>
  BY DEF StreamsAssumption, Queue!QueueAssumption, Init, Queue!Init
<1>2. PICK maxsize \in 1..MaxSize, how \in {"put", "force"}, callers \in SUBSET Producer :
          /\ maxsize > 1 => Queue!Cardinality(callers) = 1
          /\ queue = Queue!Empty(maxsize)
          /\ producer = [p \in Producer |-> IF p \in callers THEN how ELSE "stopped"]
  BY DEF Init, Queue!Init
<1> DEFINE buf == [i \in 0..(maxsize - 1) |-> Undefined]
<1>3. /\ queue = [maxsize |-> maxsize, buf |-> buf, pos |-> 0,
                  size |-> 0, closed |-> FALSE, putFutures |-> {}, taking |-> FALSE]
      /\ maxsize \in Nat \ {0}
  BY <1>1, <1>2 DEF Queue!Empty
<1>4. buf \in [0..(maxsize - 1) -> Nat \cup {Undefined}]  OBVIOUS
<1>5. Shaped(queue, maxsize)
  <2>1. 0 \in 0..(maxsize - 1) /\ 0 \in 0..maxsize  BY <1>3
  <2> HIDE DEF buf
  <2>2. /\ {} \in SUBSET Producer /\ FALSE \in BOOLEAN
        /\ queue \in [maxsize : Nat \ {0}, buf : [0..(maxsize - 1) -> Nat \cup {Undefined}],
                      pos : 0..(maxsize - 1), size : 0..maxsize, closed : BOOLEAN,
                      putFutures : SUBSET Producer, taking : BOOLEAN]
    BY <1>3, <1>4, <2>1, Zenon
  <2> QED BY <1>3, <2>2 DEF Shaped
<1>6. Holds(queue, maxsize, << >>)
  <2>1. queue.size = 0  BY <1>3
  <2> QED BY <1>5, <2>1 DEF Holds
<1>7. QueueRing /\ Slots = maxsize
  <2>1. Queue!Content(queue) = << >>  BY <1>6, HoldsContent
  <2>2. Slots = maxsize  BY <1>5, ShapedLength DEF Slots
  <2> QED BY <1>1, <1>6, <2>1, <2>2 DEF QueueRing
<1>8. QueueTypes  BY <1>1, <1>2 DEF QueueTypes
<1>9. maxsize > 1 => \A p, r \in callers : p = r
  <2> SUFFICES ASSUME maxsize > 1, NEW p \in callers, NEW r \in callers PROVE p = r
    OBVIOUS
  <2>1. Cardinality(callers) = 1
    BY <1>2 DEF Queue!Cardinality, Cardinality
  <2>2. IsFiniteSet(callers)  BY TwoAreFinite
  <2> QED BY <2>1, <2>2, FS_Singleton
<1>10. QueueRoom
  <2>1. queue.maxsize = maxsize /\ queue.size = 0  BY <1>3
  <2> QED BY <1>2, <1>3, <1>7, <1>9, <2>1 DEF QueueRoom
<1>11. Queue!NoIdleWaiters  BY <1>3 DEF Queue!NoIdleWaiters
<1> QED BY <1>7, <1>8, <1>10, <1>11 DEF QueueInv

\* What put() leaves: r is q with a value more, p waits if it is full.
PutLeaves(q, p, r) ==
    /\ r.size = q.size + 1 /\ r.maxsize = q.maxsize
    /\ r.closed = q.closed /\ r.taking = q.taking
    /\ r.putFutures = IF q.size + 1 >= q.maxsize THEN q.putFutures \cup {p} ELSE q.putFutures

LEMMA PutIntoIs ==
    ASSUME NEW q, NEW n, NEW s, Holds(q, n, s), NEW p \in Producer, NEW v \in Nat,
           q.size = n => n = 1,
           NEW m, m = (IF q.size = n THEN 2 ELSE n), NEW r, r = Queue!PutInto(q, p, v)
    PROVE  Holds(r, m, Append(s, v)) /\ PutLeaves(q, p, r)
<1> DEFINE room == IF q.size = n THEN Queue!EnlargeBuffer(q) ELSE q
           pushed == [room EXCEPT !.buf[(room.pos + room.size) % m] = v, !.size = @ + 1]
           t == Append(s, v)
<1>1. Shaped(q, n) /\ n \in Nat \ {0} /\ q.size \in 0..n /\ q.pos \in 0..(n - 1)
  BY DEF Holds, Shaped
<1>2. /\ Holds(room, m, s) /\ room.size < m
      /\ room.pos = q.pos /\ room.size = q.size /\ room.maxsize = q.maxsize
      /\ room.closed = q.closed /\ room.taking = q.taking /\ room.putFutures = q.putFutures
  <2>1. CASE q.size = n
    <3>1. n = 1 /\ q.pos = 0 /\ n + 1 = 2 /\ m = 2  BY <1>1, <2>1
    <3>2. Holds(Queue!EnlargeBuffer(q), n + 1, s)  BY <2>1, <3>1, HoldsEnlarge
    <3>3. /\ Queue!EnlargeBuffer(q).pos = q.pos /\ Queue!EnlargeBuffer(q).size = q.size
          /\ Queue!EnlargeBuffer(q).maxsize = q.maxsize
          /\ Queue!EnlargeBuffer(q).closed = q.closed
          /\ Queue!EnlargeBuffer(q).taking = q.taking
          /\ Queue!EnlargeBuffer(q).putFutures = q.putFutures
      <4> DEFINE buf == [i \in 0..q.size |-> CASE i = q.size -> Undefined
                            [] i < q.pos - 1 -> q.buf[i + 1] [] OTHER -> q.buf[i]]
      <4>1. Queue!EnlargeBuffer(q) = [q EXCEPT !.buf = buf]
        BY Zenon DEF Queue!EnlargeBuffer
      <4> HIDE DEF buf
      <4> QED BY <1>1, <4>1 DEF Shaped
    <3> QED BY <2>1, <3>1, <3>2, <3>3
  <2>2. CASE q.size # n  BY <1>1, <2>2
  <2> QED BY <2>1, <2>2
<1>3. Queue!Push(q, v) = pushed
  <2>1. Queue!BufLength(q) = n  BY <1>1, ShapedLength
  <2>2. Queue!BufLength(room) = m  BY <1>2, ShapedLength DEF Holds
  <2>3. Queue!Push(q, v)
          = [room EXCEPT !.buf[(q.pos + q.size) % Queue!BufLength(room)] = v, !.size = @ + 1]
    BY <2>1 DEF Queue!Push
  <2> HIDE DEF room
  <2> QED BY <1>2, <2>2, <2>3
<1> HIDE DEF room
<1>4. /\ Holds(pushed, m, t) /\ Shaped(pushed, m)
      /\ pushed.size = q.size + 1 /\ pushed.maxsize = q.maxsize
      /\ pushed.closed = q.closed /\ pushed.taking = q.taking
      /\ pushed.putFutures = q.putFutures
  <2>1. Holds(pushed, m, t)  BY <1>2, HoldsPush
  <2>2. Shaped(room, m)  BY <1>2 DEF Holds
  <2> QED BY <1>2, <2>1, <2>2 DEF Shaped, Holds
<1> HIDE DEF pushed, t
<1>5. r = IF pushed.size >= q.maxsize
          THEN [pushed EXCEPT !.putFutures = @ \cup {p}] ELSE pushed
  BY <1>3 DEF Queue!PutInto
<1>6. CASE pushed.size >= q.maxsize
  <2>1. r = [pushed EXCEPT !.putFutures = q.putFutures \cup {p}]  BY <1>4, <1>5, <1>6
  <2>2. q.putFutures \cup {p} \in SUBSET Producer  BY <1>1 DEF Shaped
  <2>3. Shaped(r, m) /\ r.buf = pushed.buf /\ r.pos = pushed.pos /\ r.size = pushed.size
        /\ r.maxsize = pushed.maxsize /\ r.closed = pushed.closed
        /\ r.taking = pushed.taking /\ r.putFutures = q.putFutures \cup {p}
    BY <1>4, <2>1, <2>2 DEF Shaped
  <2>4. Holds(r, m, t)  BY <1>4, <2>3, HoldsSame
  <2> QED BY <1>4, <1>6, <2>3, <2>4 DEF t, PutLeaves
<1>7. CASE ~ pushed.size >= q.maxsize
  BY <1>4, <1>5, <1>7 DEF t, PutLeaves
<1> QED BY <1>6, <1>7

\* What a step of the queue may rest on.
LEMMA QueueFacts ==
    ASSUME QueueInv
    PROVE  /\ Holds(queue, Slots, Queue!Content(queue)) /\ Shaped(queue, Slots)
           /\ Queue!Content(queue) \in Seq(Nat)
           /\ Len(Queue!Content(queue)) = queue.size
           /\ Slots \in Nat \ {0} /\ queue.size \in 0..Slots
           /\ queue.maxsize \in Nat \ {0} /\ queue.putFutures \in SUBSET Producer
           /\ queue.closed \in BOOLEAN /\ queue.taking \in BOOLEAN
BY DEF QueueInv, QueueRing, Holds, Shaped

LEMMA SentNat ==
    ASSUME QueueInv
    PROVE  Len(sent) + 1 \in Nat /\ sent \in Seq(Nat) /\ received \in Seq(Nat)
BY DEF QueueInv, QueueTypes

LEMMA AppendBehind ==
    ASSUME NEW r \in Seq(Nat), NEW s \in Seq(Nat), NEW v \in Nat
    PROVE  Append(r \o s, v) = r \o Append(s, v)
<1>1. r \o s \in Seq(Nat) /\ << v >> \in Seq(Nat)  OBVIOUS
<1>2. Append(r \o s, v) = (r \o s) \o << v >>  BY <1>1, AppendIsConcat
<1>3. Append(s, v) = s \o << v >>  BY AppendIsConcat
<1> QED BY <1>1, <1>2, <1>3, ConcatAssociative

LEMMA ReplaceLast ==
    ASSUME NEW r \in Seq(Nat), NEW s \in Seq(Nat), s # << >>, NEW v \in Nat
    PROVE  Append(SubSeq(r \o s, 1, Len(r \o s) - 1), v)
             = r \o Append(SubSeq(s, 1, Len(s) - 1), v)
<1> DEFINE t == SubSeq(r \o s, 1, Len(r \o s) - 1)
           u == SubSeq(s, 1, Len(s) - 1)
           a == Len(r)
           b == Len(s) - 1
<1>1. a \in Nat /\ b \in Nat /\ Len(r \o s) - 1 = a + b /\ b < Len(s)
  <2>1. Len(s) \in Nat \ {0} /\ Len(r) \in Nat /\ Len(r \o s) = Len(r) + Len(s)  OBVIOUS
  <2> QED BY <2>1
<1>2. t \in Seq(Nat) /\ Len(t) = a + b /\ u \in Seq(Nat) /\ Len(u) = b
  <2> DEFINE c == Len(r \o s) - 1
  <2>1. c = a + b /\ r \o s \in Seq(Nat) /\ c = Len(r \o s) - 1  BY <1>1
  <2>2. ASSUME NEW w \in Seq(Nat), NEW k \in Nat, k < Len(w)
        PROVE  SubSeq(w, 1, k) \in Seq(Nat) /\ Len(SubSeq(w, 1, k)) = k
    <3>1. \A i \in 1..k : w[i] \in Nat  BY <2>2
    <3> QED BY <3>1, SubSeqProperties
  <2>3. c \in Nat /\ c < Len(r \o s)  BY <1>1
  <2> HIDE DEF b, c
  <2> QED BY <1>1, <2>1, <2>2, <2>3 DEF b, c
<1>3. r \o u \in Seq(Nat) /\ Len(r \o u) = a + b  BY <1>1, <1>2
<1>4. ASSUME NEW i \in 1..(a + b) PROVE t[i] = (r \o u)[i]
  <2>1. t[i] = (r \o s)[i]  BY <1>1
  <2>2. CASE i <= a  BY <1>1, <1>2, <2>1, <2>2
  <2>3. CASE i > a
    <3> DEFINE j == i - a
    <3>1. j \in 1..b  BY <1>1, <2>3
    <3>2. (r \o s)[i] = s[j] /\ u[j] = s[j]  BY <1>1, <2>3, <3>1
    <3>3. (r \o u)[i] = u[j]  BY <1>1, <1>2, <2>3, <3>1
    <3> QED BY <2>1, <3>2, <3>3
  <2> QED BY <1>1, <2>2, <2>3
<1>5. t = r \o u
  <2> HIDE DEF t, u, a, b
  <2> QED BY <1>2, <1>3, <1>4, SeqEqual
<1> HIDE DEF t, u
<1>6. Append(r \o u, v) = r \o Append(u, v)  BY <1>2, AppendBehind
<1> QED BY <1>5, <1>6 DEF t, u

LEMMA MoveFirst ==
    ASSUME NEW r \in Seq(Nat), NEW s \in Seq(Nat), s # << >>
    PROVE  Append(r, Head(s)) \o Tail(s) = r \o s
<1>1. Head(s) \in Nat /\ << Head(s) >> \in Seq(Nat) /\ Tail(s) \in Seq(Nat)  OBVIOUS
<1>2. s = << Head(s) >> \o Tail(s)
  <2> DEFINE t == << Head(s) >> \o Tail(s)
  <2>1. t \in Seq(Nat) /\ Len(t) = Len(s)  BY <1>1
  <2>2. \A i \in 1..Len(s) : s[i] = t[i]  BY <1>1
  <2> HIDE DEF t
  <2>3. s = t  BY <2>1, <2>2, SeqEqual
  <2> QED BY <2>3 DEF t
<1>3. Append(r, Head(s)) = r \o << Head(s) >>  BY <1>1, AppendIsConcat
<1>4. (r \o << Head(s) >>) \o Tail(s) = r \o (<< Head(s) >> \o Tail(s))
  BY <1>1, ConcatAssociative
<1> QED BY <1>2, <1>3, <1>4

\* put().
LEMMA QueuePuts ==
    ASSUME AtMostTwo, QueueInv, NEW p \in Producer, Queue!Put(p)
    PROVE  QueueInv'
<1> DEFINE s == Queue!Content(queue)
           val == Len(sent) + 1
<1>1. /\ Holds(queue, Slots, s) /\ Shaped(queue, Slots) /\ s \in Seq(Nat)
      /\ Len(s) = queue.size
      /\ Slots \in Nat \ {0} /\ queue.size \in 0..Slots
      /\ queue.maxsize \in Nat \ {0} /\ queue.putFutures \in SUBSET Producer
  BY QueueFacts
<1>2. val \in Nat /\ sent \in Seq(Nat) /\ received \in Seq(Nat)  BY SentNat
<1>3. received \o s = sent  BY DEF QueueInv, QueueRing
<1>4. /\ producer[p] = "put" /\ p \notin queue.putFutures /\ ~ queue.closed
      /\ sent' = Append(sent, val) /\ producer' = producer /\ reader' = reader
      /\ queue.taking => /\ queue' = [queue EXCEPT !.taking = FALSE]
                         /\ received' = Append(received, val)
      /\ ~ queue.taking => queue' = Queue!PutInto(queue, p, val) /\ received' = received
  BY DEF Queue!Put
<1>5. QueueTypes'
  <2> HIDE DEF val
  <2>1. Append(sent, val) \in Seq(Nat) /\ Append(received, val) \in Seq(Nat)  BY <1>2
  <2>2. received' = received \/ received' = Append(received, val)  BY <1>4, Zenon
  <2> QED BY <1>2, <1>4, <2>1, <2>2 DEF QueueInv, QueueTypes
<1> HIDE DEF s, val
<1>6. CASE queue.taking
  <2>1. queue.size = 0 /\ s = << >> /\ queue.putFutures = {}
    BY <1>1, <1>6 DEF QueueInv, Queue!NoIdleWaiters
  <2>2. /\ Shaped(queue', Slots) /\ queue'.buf = queue.buf /\ queue'.pos = queue.pos
        /\ queue'.size = queue.size /\ queue'.maxsize = queue.maxsize
        /\ queue'.closed = queue.closed /\ queue'.putFutures = queue.putFutures
        /\ queue'.taking = FALSE
    BY <1>1, <1>4, <1>6 DEF Shaped
  <2>3. Holds(queue', Slots, s)  BY <1>1, <2>2, HoldsSame
  <2>4. received' \o s = sent'  BY <1>2, <1>3, <1>4, <1>6, <2>1
  <2>5. QueueRing' /\ Slots' = Slots  BY <2>3, <2>4, RingAt
  <2>6. Queue!NoIdleWaiters'  BY <2>1, <2>2 DEF Queue!NoIdleWaiters
  <2>7. QueueRoom'  BY <1>1, <1>4, <2>1, <2>2, <2>5 DEF QueueInv, QueueRoom, Idle
  <2> QED BY <1>5, <2>5, <2>6, <2>7 DEF QueueInv
<1>7. CASE ~ queue.taking
  <2> DEFINE m == IF queue.size = Slots THEN 2 ELSE Slots
  <2>1. queue.size = Slots => Slots = 1 /\ queue.maxsize = 1
    BY <1>1, <1>4 DEF QueueInv, QueueRoom, Idle
  <2>2. /\ Holds(queue', m, Append(s, val))
        /\ queue'.size = queue.size + 1 /\ queue'.maxsize = queue.maxsize
        /\ queue'.closed = queue.closed /\ queue'.taking = queue.taking
        /\ queue'.putFutures = IF queue.size + 1 >= queue.maxsize
                               THEN queue.putFutures \cup {p} ELSE queue.putFutures
    <3>1. /\ Holds(queue, Slots, s) /\ val \in Nat /\ (queue.size = Slots => Slots = 1)
          /\ m = (IF queue.size = Slots THEN 2 ELSE Slots)
          /\ queue' = Queue!PutInto(queue, p, val)
      BY <1>1, <1>2, <1>4, <1>7, <2>1
    <3> HIDE DEF m
    <3>2. Holds(queue', m, Append(s, val)) /\ PutLeaves(queue, p, queue')
      BY <3>1, PutIntoIs
    <3> QED BY <3>2 DEF PutLeaves
  <2>3. received' \o Append(s, val) = sent'
    <3>1. received' = received /\ sent' = Append(sent, val)  BY <1>4, <1>7, Zenon
    <3>2. Append(received \o s, val) = received \o Append(s, val)
      BY <1>1, <1>2, AppendBehind
    <3> QED BY <1>3, <3>1, <3>2
  <2> HIDE DEF m
  <2>4. QueueRing' /\ Slots' = m  BY <2>2, <2>3, RingAt
  <2>5. Queue!NoIdleWaiters'
    BY <1>1, <1>4, <1>7, <2>2 DEF QueueInv, Queue!NoIdleWaiters
  <2>6. QueueRoom'
    <3>1. ASSUME queue.maxsize > 1
          PROVE  /\ m = queue.maxsize
                 /\ \A r, t \in Producer : producer[r] = "put" /\ producer[t] = "put" => r = t
                 /\ queue.size + 1 >= queue.maxsize => \A r \in Producer : Idle(r)'
      <4>1. /\ Slots = queue.maxsize
            /\ \A r, t \in Producer : producer[r] = "put" /\ producer[t] = "put" => r = t
        BY <1>4, <3>1 DEF QueueInv, QueueRoom
      <4>2. m = Slots  BY <2>1, <3>1 DEF m
      <4> QED BY <1>4, <2>2, <4>1, <4>2 DEF Idle
    <3>2. ASSUME queue.maxsize = 1
          PROVE  /\ m \in {1, 2}
                 /\ \E r \in Producer : Idle(r)'
                 /\ queue.size + 1 >= 2 => \A r \in Producer : Idle(r)'
      <4>1. /\ Slots \in {1, 2}
            /\ queue.size >= 1 => \E r \in Producer : Idle(r)
        BY <1>4, <3>2 DEF QueueInv, QueueRoom
      <4>2. queue'.putFutures = queue.putFutures \cup {p}
        <5>1. queue.size \in Nat  BY <1>1
        <5>2. queue.size + 1 >= queue.maxsize  BY <3>2, <5>1
        <5> QED BY <2>2, <5>2
      <4>3. ASSUME queue.size + 1 >= 2, NEW r \in Producer PROVE Idle(r)'
        <5>1. PICK t \in Producer : Idle(t)  BY <1>1, <4>1, <4>3
        <5>2. t # p  BY <1>4, <5>1 DEF Idle
        <5>3. r = p \/ r = t  BY <5>2 DEF AtMostTwo
        <5>4. Idle(p)'  BY <4>2 DEF Idle
        <5>5. Idle(t)'  BY <1>4, <4>2, <5>1 DEF Idle
        <5> QED BY <5>3, <5>4, <5>5
      <4>4. Idle(p)'  BY <4>2 DEF Idle
      <4> QED BY <4>1, <4>3, <4>4 DEF m
    <3> QED BY <1>1, <1>4, <2>2, <2>4, <3>1, <3>2 DEF QueueRoom
  <2> QED BY <1>5, <2>4, <2>5, <2>6 DEF QueueInv
<1> QED BY <1>6, <1>7

\* What a step leaves that changes nothing but the flags and the waiting callers.
LEMMA SameRing ==
    ASSUME QueueInv, NEW r, NEW closes \in BOOLEAN,
           r = IF closes THEN Queue!Closed(queue)
               ELSE [queue EXCEPT !.taking = TRUE],
           queue' = r, sent' = sent, received' = received
    PROVE  /\ QueueRing' /\ Slots' = Slots
           /\ queue'.size = queue.size /\ queue'.maxsize = queue.maxsize
           /\ queue'.closed = IF closes THEN TRUE ELSE queue.closed
           /\ queue'.taking = IF closes THEN FALSE ELSE TRUE
           /\ queue'.putFutures = IF closes THEN {} ELSE queue.putFutures
<1> DEFINE s == Queue!Content(queue)
<1>1. Holds(queue, Slots, s) /\ Shaped(queue, Slots) /\ received \o s = sent
  BY QueueFacts DEF QueueInv, QueueRing
<1> HIDE DEF s
<1>2. /\ Shaped(queue', Slots) /\ queue'.buf = queue.buf /\ queue'.pos = queue.pos
      /\ queue'.size = queue.size /\ queue'.maxsize = queue.maxsize
      /\ queue'.closed = IF closes THEN TRUE ELSE queue.closed
      /\ queue'.taking = IF closes THEN FALSE ELSE TRUE
      /\ queue'.putFutures = IF closes THEN {} ELSE queue.putFutures
  <2>1. CASE closes
    <3>1. queue' = [queue EXCEPT !.closed = TRUE, !.putFutures = {}, !.taking = FALSE]
      BY <2>1 DEF Queue!Closed
    <3>2. /\ Shaped(queue', Slots) /\ queue'.buf = queue.buf /\ queue'.pos = queue.pos
          /\ queue'.size = queue.size /\ queue'.maxsize = queue.maxsize
          /\ queue'.closed = TRUE /\ queue'.taking = FALSE /\ queue'.putFutures = {}
      BY <1>1, <3>1 DEF Shaped
    <3> QED BY <2>1, <3>2
  <2>2. CASE ~ closes
    <3>1. queue' = [queue EXCEPT !.taking = TRUE]  BY <2>2
    <3>2. /\ Shaped(queue', Slots) /\ queue'.buf = queue.buf /\ queue'.pos = queue.pos
          /\ queue'.size = queue.size /\ queue'.maxsize = queue.maxsize
          /\ queue'.closed = queue.closed /\ queue'.taking = TRUE
          /\ queue'.putFutures = queue.putFutures
      BY <1>1, <3>1 DEF Shaped
    <3> QED BY <2>2, <3>2
  <2> QED BY <2>1, <2>2
<1>3. Holds(queue', Slots, s)  BY <1>1, <1>2, HoldsSame
<1>4. received' \o s = sent'  BY <1>1
<1> QED BY <1>2, <1>3, <1>4, RingAt

\* forcePut().
LEMMA QueueForcePuts ==
    ASSUME AtMostTwo, QueueInv, NEW p \in Producer, Queue!ForcePut(p)
    PROVE  QueueInv'
<1> DEFINE s == Queue!Content(queue)
           val == Len(sent) + 1
<1>1. /\ Holds(queue, Slots, s) /\ Shaped(queue, Slots) /\ s \in Seq(Nat)
      /\ Len(s) = queue.size
      /\ Slots \in Nat \ {0} /\ queue.size \in 0..Slots
      /\ queue.maxsize \in Nat \ {0} /\ queue.putFutures \in SUBSET Producer
  BY QueueFacts
<1>2. val \in Nat /\ sent \in Seq(Nat) /\ received \in Seq(Nat)  BY SentNat
<1>3. received \o s = sent  BY DEF QueueInv, QueueRing
<1>4. /\ producer[p] # "stopped" /\ p \notin queue.putFutures /\ ~ queue.closed
      /\ producer' = [producer EXCEPT ![p] = IF @ = "force" THEN @ ELSE "stopped"]
      /\ reader' = reader
  BY DEF Queue!ForcePut
<1>5. /\ queue.taking => /\ queue' = [queue EXCEPT !.taking = FALSE]
                         /\ received' = Append(received, val) /\ sent' = Append(sent, val)
      /\ ~ queue.taking => queue' = Queue!ForcePutInto(queue, val) /\ received' = received
      /\ ~ queue.taking /\ queue.size < Slots => sent' = Append(sent, val)
      /\ ~ queue.taking /\ ~ queue.size < Slots
           => sent' = Append(SubSeq(sent, 1, Len(sent) - 1), val)
  BY DEF Queue!ForcePut, Slots, Queue!Front
<1> HIDE DEF s, val
<1>6. \A r \in Producer : producer'[r] # "put" \/ (r # p /\ producer'[r] = producer[r])
  BY <1>4 DEF QueueInv, QueueTypes
<1>7. /\ producer' \in [Producer -> {"put", "force", "stopped"}]
      /\ \A r, t \in Producer : producer'[r] = "put" => producer'[t] # "force"
  BY <1>4 DEF QueueInv, QueueTypes
<1>8. (\E r \in Producer : producer'[r] = "put") => producer[p] = "put"
  BY <1>4, <1>6 DEF QueueInv, QueueTypes
\* What is left to show: where the ring is, and that nobody else can put into a full one.
<1>9. ASSUME NEW m \in {0, 1}, QueueRing', Slots' = Slots, queue'.size = queue.size + m,
             received' \in Seq(Nat), sent' \in Seq(Nat),
             queue'.maxsize = queue.maxsize, queue'.closed = queue.closed,
             queue'.putFutures = queue.putFutures, queue'.taking = FALSE
      PROVE  QueueInv'
  <2>1. QueueTypes'  BY <1>4, <1>7, <1>9 DEF QueueInv, QueueTypes
  <2>2. Queue!NoIdleWaiters'
    BY <1>1, <1>9 DEF QueueInv, Queue!NoIdleWaiters
  <2>3. ASSUME NEW r \in Producer, Idle(r) PROVE Idle(r)'
    BY <1>6, <1>9, <2>3 DEF Idle
  <2>4. Idle(p)'  BY <1>6 DEF Idle
  <2>5. ASSUME queue.maxsize > 1
        PROVE  /\ Slots = queue.maxsize
               /\ \A r, t \in Producer : producer'[r] = "put" /\ producer'[t] = "put" => r = t
               /\ \A r \in Producer : Idle(r)'
    <3>1. /\ Slots = queue.maxsize
          /\ \A r, t \in Producer : producer[r] = "put" /\ producer[t] = "put" => r = t
      BY <1>4, <2>5 DEF QueueInv, QueueRoom
    <3>2. ASSUME NEW r \in Producer PROVE producer'[r] # "put"
      BY <1>6, <1>8, <3>1
    <3> QED BY <3>1, <3>2 DEF Idle
  <2>6. ASSUME queue.maxsize = 1
        PROVE  /\ Slots \in {1, 2}
               /\ queue'.size >= 2 => \A r \in Producer : Idle(r)'
    <3>1. /\ Slots \in {1, 2}
          /\ queue.size >= 1 => \E r \in Producer : Idle(r)
      BY <1>4, <2>6 DEF QueueInv, QueueRoom
    <3>2. ASSUME queue'.size >= 2, NEW r \in Producer PROVE Idle(r)'
      <4>1. CASE producer[p] = "put"
        <5>1. queue.size \in Nat /\ queue.size >= 1  BY <1>1, <1>9, <3>2
        <5>2. PICK t \in Producer : Idle(t)  BY <3>1, <5>1
        <5>3. t # p  BY <1>4, <4>1, <5>2 DEF Idle
        <5>4. r = p \/ r = t  BY <5>3 DEF AtMostTwo
        <5> QED BY <2>3, <2>4, <5>2, <5>4
      <4>2. CASE producer[p] # "put"  BY <1>8, <4>2 DEF Idle
      <4> QED BY <4>1, <4>2
    <3> QED BY <3>1, <3>2
  <2>7. QueueRoom'
    <3>1. CASE queue.maxsize > 1  BY <1>9, <2>5, <3>1 DEF QueueRoom
    <3>2. CASE queue.maxsize = 1  BY <1>9, <2>4, <2>6, <3>2 DEF QueueRoom
    <3> QED BY <1>1, <3>1, <3>2
  <2> QED BY <1>9, <2>1, <2>2, <2>7 DEF QueueInv
<1>10. Append(sent, val) \in Seq(Nat) /\ Append(received, val) \in Seq(Nat)  BY <1>2
<1>11. CASE queue.taking
  <2>1. queue.size = 0 /\ s = << >>
    BY <1>1, <1>11 DEF QueueInv, Queue!NoIdleWaiters
  <2>2. /\ Shaped(queue', Slots) /\ queue'.buf = queue.buf /\ queue'.pos = queue.pos
        /\ queue'.size = queue.size /\ queue'.maxsize = queue.maxsize
        /\ queue'.closed = queue.closed /\ queue'.putFutures = queue.putFutures
        /\ queue'.taking = FALSE
    BY <1>1, <1>5, <1>11 DEF Shaped
  <2>3. Holds(queue', Slots, s)  BY <1>1, <2>2, HoldsSame
  <2>4. received' \o s = sent'  BY <1>2, <1>3, <1>5, <1>11, <2>1
  <2>5. QueueRing' /\ Slots' = Slots  BY <2>3, <2>4, RingAt
  <2>6. queue'.size = queue.size + 0  BY <1>1, <2>2
  <2> QED BY <1>5, <1>9, <1>10, <1>11, <2>2, <2>5, <2>6
<1>12. CASE ~ queue.taking /\ queue.size < Slots
  <2>1. queue' = [queue EXCEPT !.buf[(queue.pos + queue.size) % Slots] = val, !.size = @ + 1]
    BY <1>5, <1>12 DEF Queue!ForcePutInto, Slots
  <2>2. Holds(queue', Slots, Append(s, val))  BY <1>1, <1>2, <1>12, <2>1, HoldsPush
  <2>3. /\ queue'.size = queue.size + 1 /\ queue'.maxsize = queue.maxsize
        /\ queue'.closed = queue.closed /\ queue'.putFutures = queue.putFutures
        /\ queue'.taking = FALSE
    BY <1>1, <1>12, <2>1 DEF Shaped
  <2>4. received' \o Append(s, val) = sent'
    <3>1. received' = received /\ sent' = Append(sent, val)  BY <1>5, <1>12
    <3>2. Append(received \o s, val) = received \o Append(s, val)
      BY <1>1, <1>2, AppendBehind
    <3> QED BY <1>3, <3>1, <3>2
  <2>5. QueueRing' /\ Slots' = Slots  BY <2>2, <2>4, RingAt
  <2>6. received' \in Seq(Nat) /\ sent' \in Seq(Nat)  BY <1>2, <1>5, <1>10, <1>12
  <2> QED BY <1>9, <2>3, <2>5, <2>6
<1>13. CASE ~ queue.taking /\ ~ queue.size < Slots
  <2> DEFINE t == Append(SubSeq(s, 1, Len(s) - 1), val)
  <2>1. queue' = [queue EXCEPT !.buf[(queue.pos + queue.size - 1) % Slots] = val]
    BY <1>5, <1>13 DEF Queue!ForcePutInto, Slots
  <2>2. queue.size > 0 /\ s # << >>  BY <1>1, <1>13
  <2>3. Holds(queue', Slots, t)  BY <1>1, <1>2, <2>1, <2>2, HoldsReplace
  <2>4. /\ queue'.size = queue.size /\ queue'.maxsize = queue.maxsize
        /\ queue'.closed = queue.closed /\ queue'.putFutures = queue.putFutures
        /\ queue'.taking = FALSE
    BY <1>1, <1>13, <2>1 DEF Shaped
  <2>5. received' = received /\ sent' = Append(SubSeq(sent, 1, Len(sent) - 1), val)
    BY <1>5, <1>13
  <2>6. received' \o t = sent'  BY <1>1, <1>2, <1>3, <2>2, <2>5, ReplaceLast
  <2>7. t \in Seq(Nat) /\ received' \o t \in Seq(Nat)
    <3>1. t \in Seq(Nat)  BY <2>3 DEF Holds
    <3> HIDE DEF t
    <3> QED BY <1>2, <2>5, <3>1
  <2> HIDE DEF t
  <2>8. QueueRing' /\ Slots' = Slots  BY <2>3, <2>6, RingAt
  <2>9. queue'.size = queue.size + 0  BY <1>1, <2>4
  <2>10. received' \in Seq(Nat) /\ sent' \in Seq(Nat)  BY <1>2, <2>5, <2>6, <2>7
  <2> QED BY <1>9, <2>4, <2>8, <2>9, <2>10
<1> QED BY <1>11, <1>12, <1>13

\* What closes the queue, and a take() that waits, leave the ring as it is.
LEMMA QueueFlags ==
    ASSUME QueueInv, NEW closes \in BOOLEAN,
           queue' = IF closes THEN Queue!Closed(queue)
                    ELSE [queue EXCEPT !.taking = TRUE],
           ~ closes => queue.size = 0 /\ ~ queue.closed,
           QueueTypes', sent' = sent, received' = received,
           closes \/ producer' = producer
    PROVE  QueueInv'
<1>1. /\ QueueRing' /\ Slots' = Slots
      /\ queue'.size = queue.size /\ queue'.maxsize = queue.maxsize
      /\ queue'.closed = IF closes THEN TRUE ELSE queue.closed
      /\ queue'.taking = IF closes THEN FALSE ELSE TRUE
      /\ queue'.putFutures = IF closes THEN {} ELSE queue.putFutures
  BY SameRing
<1>2. Queue!NoIdleWaiters'  BY <1>1 DEF QueueInv, Queue!NoIdleWaiters
<1>3. QueueRoom'
  <2>1. CASE closes  BY <1>1, <2>1 DEF QueueRoom
  <2>2. CASE ~ closes  BY <1>1, <2>2 DEF QueueInv, QueueRoom, Idle
  <2> QED BY <2>1, <2>2
<1> QED BY <1>1, <1>2, <1>3 DEF QueueInv

\* close(), the finally of iterate() and a put() on a closed queue.
LEMMA QueueCloses ==
    ASSUME QueueInv,
           \/ Queue!Leave
           \/ \E p \in Producer : Queue!Close(p) \/ Queue!PutAfterClose(p)
    PROVE  QueueInv'
<1>1. sent' = sent /\ received' = received
  BY DEF Queue!Leave, Queue!Close, Queue!PutAfterClose
<1>2. QueueTypes'
  <2>1. reader' \in {"running", "done"}
    BY DEF QueueInv, QueueTypes, Queue!Leave, Queue!Close, Queue!PutAfterClose
  <2>2. \/ producer' = producer
        \/ \E p \in Producer : producer' = [producer EXCEPT ![p] = "stopped"]
    BY DEF Queue!Leave, Queue!Close, Queue!PutAfterClose
  <2> QED BY <1>1, <2>1, <2>2 DEF QueueInv, QueueTypes
<1>3. CASE Queue!Leave \/ \E p \in Producer : Queue!Close(p)
  <2>1. queue' = Queue!Closed(queue)  BY <1>3 DEF Queue!Leave, Queue!Close
  <2> QED BY <1>1, <1>2, <2>1, QueueFlags
<1>4. CASE \E p \in Producer : Queue!PutAfterClose(p)
  <2>1. queue' = queue /\ queue.closed  BY <1>4 DEF Queue!PutAfterClose
  <2> QED
    BY <1>1, <1>2, <2>1
    DEF QueueInv, QueueRing, QueueRoom, Queue!NoIdleWaiters, Slots
<1> QED BY <1>3, <1>4

\* The loop of iterate().
LEMMA QueueTakes == ASSUME Undefined \notin Nat, QueueInv, Queue!Take PROVE QueueInv'
<1> DEFINE s == Queue!Content(queue)
           val == queue.buf[queue.pos]
<1>1. /\ Holds(queue, Slots, s) /\ Shaped(queue, Slots) /\ s \in Seq(Nat)
      /\ Len(s) = queue.size
      /\ Slots \in Nat \ {0} /\ queue.size \in 0..Slots
      /\ queue.maxsize \in Nat \ {0} /\ queue.putFutures \in SUBSET Producer
  BY QueueFacts
<1>2. sent \in Seq(Nat) /\ received \in Seq(Nat)  BY SentNat
<1>3. received \o s = sent  BY DEF QueueInv, QueueRing
<1>4. /\ ~ queue.taking /\ producer' = producer /\ sent' = sent
      /\ queue.size > 0 /\ val # Undefined =>
            /\ queue' = Queue!TakeFrom(queue) /\ received' = Append(received, val)
            /\ reader' = reader
      /\ ~ queue.size > 0 /\ queue.closed =>
            queue' = queue /\ received' = received /\ reader' = "done"
      /\ ~ queue.size > 0 /\ ~ queue.closed =>
            /\ queue' = [queue EXCEPT !.taking = TRUE]
            /\ received' = received /\ reader' = reader
  BY DEF Queue!Take
<1> HIDE DEF s, val
<1>5. CASE queue.size > 0
  <2>1. /\ val = Head(s) /\ val \in Nat /\ s # << >>
        /\ Holds(Queue!TakeFrom(queue), Slots, Tail(s))
    BY <1>1, <1>5, HoldsTake DEF val
  <2>2. /\ queue' = Queue!TakeFrom(queue) /\ received' = Append(received, val)
        /\ reader' = reader
    BY <1>4, <1>5, <2>1
  <2>3. received' \o Tail(s) = sent'
    <3>1. Append(received, Head(s)) \o Tail(s) = received \o s  BY <1>1, <1>2, <2>1, MoveFirst
    <3> QED BY <1>3, <1>4, <2>1, <2>2, <3>1
  <2>4. QueueRing' /\ Slots' = Slots  BY <2>1, <2>2, <2>3, RingAt
  <2>5. QueueTypes'
    <3>1. received' \in Seq(Nat)  BY <1>2, <2>1, <2>2
    <3> QED BY <1>2, <1>4, <2>2, <3>1 DEF QueueInv, QueueTypes
  <2>6. /\ queue'.size = queue.size - 1 /\ queue'.maxsize = queue.maxsize
        /\ queue'.closed = queue.closed /\ queue'.taking = queue.taking
        /\ queue'.putFutures = IF queue.size - 1 < queue.maxsize THEN {} ELSE queue.putFutures
    <3> DEFINE futures == IF queue.size - 1 < queue.maxsize THEN {} ELSE queue.putFutures
               slot == (queue.pos + 1) % Queue!BufLength(queue)
    <3>1. queue' = [queue EXCEPT !.buf[queue.pos] = Undefined, !.pos = slot,
                                 !.size = @ - 1, !.putFutures = futures]
      BY <2>2 DEF Queue!TakeFrom
    <3> HIDE DEF futures, slot
    <3>2. /\ queue'.size = queue.size - 1 /\ queue'.maxsize = queue.maxsize
          /\ queue'.closed = queue.closed /\ queue'.taking = queue.taking
          /\ queue'.putFutures = futures
      BY <1>1, <3>1 DEF Shaped
    <3> QED BY <3>2 DEF futures
  <2>7. Queue!NoIdleWaiters'
    BY <1>1, <1>4, <2>6 DEF QueueInv, Queue!NoIdleWaiters
  <2>8. QueueRoom'
    <3> SUFFICES ASSUME ~ queue.closed PROVE QueueRoom'
      BY <2>6 DEF QueueRoom
    <3>1. ASSUME queue.maxsize > 1
          PROVE  /\ Slots = queue.maxsize
                 /\ \A p, r \in Producer : producer[p] = "put" /\ producer[r] = "put" => p = r
                 /\ ~ queue.size - 1 >= queue.maxsize
      BY <1>1, <3>1 DEF QueueInv, QueueRoom
    <3>2. ASSUME queue.maxsize = 1
          PROVE  /\ Slots \in {1, 2} /\ ~ queue.size - 1 >= 2
                 /\ queue.size - 1 >= 1 => \E p \in Producer : Idle(p)'
      <4>1. /\ Slots \in {1, 2}
            /\ queue.size >= 1 => \E p \in Producer : Idle(p)
        BY <3>2 DEF QueueInv, QueueRoom
      <4>2. ASSUME queue.size - 1 >= 1 PROVE \E p \in Producer : Idle(p)'
        <5>1. queue.size \in Nat /\ queue.size >= 1 /\ ~ queue.size - 1 < queue.maxsize
          BY <1>1, <3>2, <4>2
        <5>2. queue'.putFutures = queue.putFutures  BY <2>6, <5>1
        <5>3. PICK p \in Producer : Idle(p)  BY <4>1, <5>1
        <5>4. Idle(p)'  BY <1>4, <5>2, <5>3 DEF Idle
        <5> QED BY <5>4
      <4>3. ~ queue.size - 1 >= 2  BY <1>1, <4>1
      <4> QED BY <4>1, <4>2, <4>3
    <3>3. CASE queue.maxsize > 1  BY <1>4, <2>4, <2>6, <3>1, <3>3 DEF QueueRoom
    <3>4. CASE queue.maxsize = 1  BY <1>4, <2>4, <2>6, <3>2, <3>4 DEF QueueRoom
    <3> QED BY <1>1, <3>3, <3>4
  <2> QED BY <2>4, <2>5, <2>7, <2>8 DEF QueueInv
<1>6. CASE ~ queue.size > 0 /\ queue.closed
  <2>1. queue' = queue /\ received' = received /\ reader' = "done"  BY <1>4, <1>6
  <2>2. QueueTypes'  BY <1>2, <1>4, <2>1 DEF QueueInv, QueueTypes
  <2> QED
    BY <1>4, <1>6, <2>1, <2>2 DEF QueueInv, QueueRing, QueueRoom, Queue!NoIdleWaiters, Slots
<1>7. CASE ~ queue.size > 0 /\ ~ queue.closed
  <2>1. /\ queue' = [queue EXCEPT !.taking = TRUE]
        /\ received' = received /\ reader' = reader /\ queue.size = 0
    BY <1>1, <1>4, <1>7
  <2>2. QueueTypes'  BY <1>2, <1>4, <2>1 DEF QueueInv, QueueTypes
  <2>3. queue' = IF FALSE THEN Queue!Closed(queue) ELSE [queue EXCEPT !.taking = TRUE]
    BY <2>1
  <2> QED BY <1>4, <1>7, <2>1, <2>2, <2>3, QueueFlags
<1> QED BY <1>5, <1>6, <1>7

LEMMA QueueStep ==
    ASSUME AtMostTwo, Undefined \notin Nat, QueueInv, [Queue!Next]_queueVars
    PROVE  QueueInv'
<1>1. CASE UNCHANGED queueVars
  <2>1. /\ queue' = queue /\ producer' = producer /\ reader' = reader
        /\ sent' = sent /\ received' = received
    BY <1>1 DEF queueVars
  <2> QED
    BY <2>1
    DEF QueueInv, QueueTypes, QueueRing, QueueRoom, Queue!NoIdleWaiters, Slots, Idle
<1>2. CASE Queue!Take  BY <1>2, QueueTakes
<1>3. CASE Queue!Leave  BY <1>3, QueueCloses
<1>4. ASSUME NEW p \in Producer, Queue!Put(p) PROVE QueueInv'
  BY <1>4, QueuePuts
<1>5. ASSUME NEW p \in Producer, Queue!ForcePut(p) PROVE QueueInv'
  BY <1>5, QueueForcePuts
<1>6. ASSUME NEW p \in Producer, Queue!PutAfterClose(p) \/ Queue!Close(p) PROVE QueueInv'
  BY <1>6, QueueCloses
<1> QED BY <1>1, <1>2, <1>3, <1>4, <1>5, <1>6 DEF Queue!Next

LEMMA QueueImplies == ASSUME StreamsAssumption, QueueInv PROVE NothingForgotten
<1> DEFINE s == Queue!Content(queue)
<1>1. Holds(queue, Slots, s) /\ Shaped(queue, Slots)  BY QueueFacts
<1>2. Queue!BufLength(queue) = Slots /\ DOMAIN queue.buf = 0..(Slots - 1)
  BY <1>1, ShapedLength
<1>3. Queue!TypeOK
  BY <1>1, <1>2 DEF Shaped, QueueInv, QueueTypes, Queue!TypeOK
<1>4. Queue!FirstInFirstOut  BY DEF QueueInv, QueueRing, Queue!FirstInFirstOut
<1> QED BY <1>3, <1>4 DEF QueueInv, Queue!NothingForgotten, NothingForgotten

\* AsyncQueue: nothing is lost, doubled or out of order on its way through the ring
\* buffer, and nobody sleeps at it without a reason, for every capacity: a queue that is
\* longer than one has a single caller that puts, a queue of one has two of them.
\* (With three a queue of one that has been read from can lose a value: enlargeBuffer()
\* clears the slot it has just moved a wrapped value to.)
THEOREM NothingForgottenAlways ==
    ASSUME Shared = FALSE, AtMostTwo
    PROVE  Spec => []NothingForgotten
<1>1. StreamsAssumption  BY StreamsAssumption
<1>2. Undefined \notin Nat  BY <1>1 DEF StreamsAssumption, Queue!QueueAssumption
<1>3. Init => QueueInv  BY <1>1, QueueInit
<1>4. QueueInv /\ [Next]_vars => QueueInv'  BY <1>2, QueueStep, StepOfOne
<1>5. QueueInv => NothingForgotten  BY <1>1, QueueImplies
<1> QED BY <1>3, <1>4, <1>5, PTL DEF Spec
=============================================================================
