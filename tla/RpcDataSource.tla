---------------------------- MODULE RpcDataSource ----------------------------
(***************************************************************************)
(* A stream of blocks from an RPC node (evm/evm-rpc/src/data-source): strides *)
(* of finalized blocks requested ahead of time, a poll near the head, a       *)
(* continuity check, and a loop that probes which of the delivered blocks     *)
(* have become final.                                                         *)
(*                                                                            *)
(* request   its commitment, "latest" or "finalized", and the end of its range *)
(* node      the node: tip, fin, and prior, the fork it left last, which some *)
(*           of its replicas still serve                                      *)
(* tracked   the last value of finalizedHeadTracker                           *)
(* beg       the next block number of jobs(); strides is the range that is    *)
(*           being cut in strides, poll the fields of PollStream (None is     *)
(*           undefined), jobs what concurrentMap() has started                *)
(* parent    parentHash of ensureContinuity()                                 *)
(* finalizer current and queue of Finalizer, and the probes of a request in   *)
(*           flight                                                           *)
(* out       the output queue of finalize()                                   *)
(* pos, told, ended   the consumer: its last block, the finalized head of the *)
(*           last batch, how the stream ended                                 *)
(***************************************************************************)
EXTENDS BlockTree, SequencesExt

CONSTANTS
    Requests,       \* requests that may be made
    Start,          \* the block a request builds on: from and parentHash
    StrideSize,     \* strideSize
    Concurrency,    \* strideConcurrency
    ProbeSize,      \* blocks probed at once, 5
    MaxQueue,       \* blocks waiting for finality, 50
    MaxReorgs,      \* bound: fork switches
    MaxErrors       \* bound: failed requests

ASSUME SourceAssumption ==
    /\ Requests \subseteq [commitment : {"latest", "finalized"}, to : Nat \ {0}]
    /\ Start \in Ref
    /\ {StrideSize, Concurrency, ProbeSize, MaxQueue} \subseteq Nat \ {0}
    /\ {MaxReorgs, MaxErrors} \subseteq Nat

VARIABLES request, node, tracked, beg, strides, poll, jobs, parent, finalizer, out,
          pos, told, ended, used

vars == << request, node, tracked, beg, strides, poll, jobs, parent, finalizer, out,
           pos, told, ended, used >>

nodeVars == << node, used >>
ingestVars == << tracked, beg, strides, poll, jobs >>
emitVars == << parent, finalizer, out >>
consumerVars == << request, pos, told, ended >>

Commitment == request.commitment
To == request.to

None == -1
Infinity == 99

Least(a, b) == IF a < b THEN a ELSE b

Parent(b) == IF Len(Path[b]) > 1 THEN Path[b][Len(Path[b]) - 1] ELSE Origin

Higher(r, t) == IF Height(r) < Height(t) THEN t ELSE r

\* The blocks number from .. to of the chain of t, as far as they exist.
Blocks(t, from, to) == SubSeq(Path[t], from + 1, Least(to + 1, Len(Path[t])))

------------------------------------------------------------------------------
(***************************************************************************)
(* The node.                                                                *)
(***************************************************************************)
NewBlock ==
    \E b \in Block :
        /\ Parent(b) = node.tip
        /\ node' = [node EXCEPT !.tip = b]
        /\ UNCHANGED << used, ingestVars, emitVars, consumerVars >>

Reorg ==
    \E b \in Block :
        /\ used.reorgs < MaxReorgs
        /\ On(node.fin, b)
        /\ ~ On(node.tip, b) /\ ~ On(b, node.tip)
        /\ node' = [node EXCEPT !.tip = b, !.prior = node.tip]
        /\ used' = [used EXCEPT !.reorgs = @ + 1]
        /\ UNCHANGED << ingestVars, emitVars, consumerVars >>

NodeFinalizes ==
    \E b \in Block :
        /\ Parent(b) = node.fin
        /\ On(b, node.tip)
        /\ node' = [node EXCEPT !.fin = b]
        /\ UNCHANGED << used, ingestVars, emitVars, consumerVars >>

ReplicasAgree ==
    /\ ~ On(node.prior, node.tip)
    /\ node' = [node EXCEPT !.prior = node.tip]
    /\ UNCHANGED << used, ingestVars, emitVars, consumerVars >>

\* The numbers getLatestBlockhash() may answer.
Heads ==
    IF Commitment = "finalized" THEN {Height(node.fin)}
    ELSE {Height(node.tip), Height(node.prior)}

\* getBlockBatch(): a chain from the first number on, cut where a block is missing
\* or is not the child of the one before.  Which fork is read, and how far a replica
\* has got, is open.
GetBlockBatch(from, to) ==
    LET served == IF Commitment = "finalized" THEN {node.fin} ELSE {node.tip, node.prior}
    IN  {<< >>} \cup UNION { {SubSeq(Path[t], from + 1, k) :
                                k \in (from + 1)..Least(to + 1, Len(Path[t]))} : t \in served }

------------------------------------------------------------------------------
(***************************************************************************)
(* ingest()                                                                 *)
(***************************************************************************)
\* finalizedHeadTracker: another answer, maybe of a replica that trails.
Track(r) ==
    /\ ended = "no"
    /\ r \in Block
    /\ On(r, node.fin)
    /\ tracked' = r
    /\ UNCHANGED << nodeVars, beg, strides, poll, jobs, emitVars, consumerVars >>

\* concurrentMap() pulls as long as there is room for another job.
Room == Len(jobs) < Concurrency

CanPull == ended = "no" /\ Room /\ beg <= To

Top == Least(Height(tracked), To)

\* splitRange(): the end of the next stride.
StrideEnd(s) == Least(s.next + StrideSize - 1, s.top)

\* Far below the finalized head: a run of strides.
PlanStrides ==
    /\ CanPull
    /\ strides.next > strides.top
    /\ Top - beg > StrideSize
    /\ strides' = [next |-> beg, top |-> Top, fh |-> tracked]
    /\ beg' = Top + 1
    /\ UNCHANGED << nodeVars, tracked, poll, jobs, emitVars, consumerVars >>

YieldStride ==
    /\ ended = "no"
    /\ Room
    /\ strides.next <= strides.top
    /\ jobs' = Append(jobs, [state |-> "running", fh |-> strides.fh,
                             blocks |-> Blocks(strides.fh, strides.next, StrideEnd(strides)),
                             finalized |-> Origin])
    /\ strides' = [strides EXCEPT !.next = StrideEnd(strides) + 1]
    /\ UNCHANGED << nodeVars, tracked, beg, poll, emitVars, consumerVars >>

\* getBlocks() has got all of its blocks; in any order.
Settle(i) ==
    /\ ended = "no"
    /\ jobs[i].state = "running"
    /\ jobs' = [jobs EXCEPT ![i].state = "done",
                            ![i].finalized = Higher(jobs[i].fh, tracked)]
    /\ UNCHANGED << nodeVars, tracked, beg, strides, poll, emitVars, consumerVars >>

\* ... or has given up after 5 retries.
JobFails(i) ==
    /\ ended = "no"
    /\ jobs[i].state = "running"
    /\ used.errors < MaxErrors
    /\ jobs' = [jobs EXCEPT ![i].state = "error"]
    /\ used' = [used EXCEPT !.errors = @ + 1]
    /\ UNCHANGED << node, tracked, beg, strides, poll, emitVars, consumerVars >>

\* Zero is falsy: a poll that has read block 0 is still at its start.
Position(p) == IF p.lastRead > 0 THEN p.lastRead + 1 ELSE p.from

Reset(n) == [from |-> n, lastRead |-> None, head |-> None]

\* makePlan(): the last number of the plan; a head of 0 is none, too.
PlanEnd(p) == Least(Position(p) + StrideSize, IF p.head > 0 THEN p.head ELSE Infinity)

\* Bug: the head is asked for once.
NeedsHeadOnce(p) == p.head = None

\* next(): all blocks up to the known head have been read.
NeedsHead(p) == p.lastRead = None \/ p.head = None \/ p.lastRead >= p.head

UpToEnd(blocks) == SelectSeq(blocks, LAMBDA b : Height(b) <= To)

PollJob(blocks) ==
    [state |-> "done", fh |-> Origin, blocks |-> UpToEnd(blocks),
     finalized |-> IF Commitment = "finalized" THEN Last(UpToEnd(blocks)) ELSE Origin]

\* Near the head: poll.next() and the rest of the loop body.
Poll ==
    LET p     == IF Position(poll) # beg THEN Reset(beg) ELSE poll
        fetch == NeedsHead(p)
    IN  /\ CanPull
        /\ strides.next > strides.top
        /\ Top - beg <= StrideSize
        /\ \E h \in IF fetch THEN Heads ELSE {p.head} :
             LET q == [p EXCEPT !.head = h]
             IN  IF fetch /\ p.lastRead # None /\ h <= p.lastRead
                 THEN poll' = q /\ UNCHANGED jobs
                 ELSE \E blocks \in GetBlockBatch(Position(q), PlanEnd(q)) :
                        IF blocks = << >>
                        THEN poll' = q /\ UNCHANGED jobs
                        ELSE /\ poll' = [q EXCEPT !.lastRead = Height(Last(blocks))]
                             /\ jobs' = Append(jobs, PollJob(blocks))
        /\ beg' = Position(poll')
        /\ UNCHANGED << nodeVars, tracked, strides, emitVars, consumerVars >>

------------------------------------------------------------------------------
(***************************************************************************)
(* ensureContinuity() and Finalizer.                                        *)
(***************************************************************************)
\* Bug: only the first block of a request is checked.
LinkedOnce(p, b) == p # Start \/ Parent(b) = p

\* A missing parent hash matches every block.
Linked(p, b) == p = Origin \/ Parent(b) = p

\* The length of the part of the batch that continues the chain.
Continuing(blocks) ==
    LET Ok(n) == \A i \in 1..n : Linked(IF i = 1 THEN parent ELSE blocks[i - 1], blocks[i])
    IN  CHOOSE n \in 0..Len(blocks) : Ok(n) /\ (n < Len(blocks) => ~ Ok(n + 1))

\* visit(): blocks that are not known to be final are queued for probing, the last
\* one in place of the one before when the queue is full.
Enqueue(queue, b) ==
    IF Len(queue) > MaxQueue THEN Append(Front(queue), b) ELSE Append(queue, b)

Visited(fz, blocks, finalized) ==
    IF finalized # Origin THEN [fz EXCEPT !.queue = << >>, !.current = Last(blocks)]
    ELSE [fz EXCEPT !.queue = FoldLeft(Enqueue, @, blocks)]

Batch(blocks, finalized) ==
    [kind |-> "batch", tip |-> Last(blocks),
     final |-> IF finalized # Origin THEN finalized ELSE finalizer.current]

Over(how) == [kind |-> how, tip |-> Origin, final |-> Origin]

\* The next batch passes the check and goes to the output queue, which holds one.
Transform ==
    LET job == Head(jobs)
        n   == Continuing(job.blocks)
        ok  == SubSeq(job.blocks, 1, n)
    IN  /\ ended = "no"
        /\ out = << >>
        /\ jobs # << >>
        /\ job.state = "done"
        /\ IF n = 0
           THEN /\ out' = << [Over("fork") EXCEPT !.tip = job.blocks[1]] >>
                /\ UNCHANGED << jobs, parent, finalizer >>
           ELSE /\ out' = << Batch(ok, job.finalized) >>
                /\ parent' = Last(ok)
                /\ finalizer' = IF Commitment = "finalized" THEN finalizer
                                ELSE Visited(finalizer, ok, job.finalized)
                /\ jobs' = IF n = Len(job.blocks) THEN Tail(jobs)
                           ELSE [jobs EXCEPT ![1].blocks = SubSeq(@, n + 1, Len(@))]
        /\ UNCHANGED << nodeVars, tracked, beg, strides, poll, consumerVars >>

TransformFails ==
    /\ ended = "no"
    /\ out = << >>
    /\ jobs # << >>
    /\ Head(jobs).state = "error"
    /\ out' = << Over("error") >>
    /\ UNCHANGED << nodeVars, ingestVars, parent, finalizer, consumerVars >>

\* The requested range has been read.
TransformEnds ==
    /\ ended = "no"
    /\ out = << >>
    /\ jobs = << >>
    /\ strides.next > strides.top
    /\ beg > To
    /\ out' = << Over("end") >>
    /\ UNCHANGED << nodeVars, ingestVars, parent, finalizer, consumerVars >>

\* finalizationLoop(): the oldest blocks are probed.
StartProbe ==
    LET n == Least(ProbeSize, Len(finalizer.queue))
    IN  /\ ended = "no"
        /\ finalizer.probes = << >>
        /\ n > 0
        /\ finalizer' = [finalizer EXCEPT !.probes = SubSeq(finalizer.queue, 1, n),
                                          !.queue = SubSeq(@, n + 1, Len(@))]
        /\ UNCHANGED << nodeVars, ingestVars, parent, out, consumerVars >>

\* How many of the probes getFinalizedBlockBatch() answers: those at or below the
\* finalized head, up to the first gap in their numbers.
Answered(probes) ==
    LET Ok(n) == \A i \in 1..n : /\ Height(probes[i]) <= Height(node.fin)
                                 /\ i > 1 => Height(probes[i]) = Height(probes[i - 1]) + 1
    IN  CHOOSE n \in 0..Len(probes) : Ok(n) /\ (n < Len(probes) => ~ Ok(n + 1))

\* probe() with k answers: from the last one down, to the first that is of the
\* stream or at most the current head; the others are not final and never will be.
ProbeResult(fz, k) ==
    LET probes == fz.probes
        found  == {i \in 1..k : probes[i] = Path[node.fin][Height(probes[i]) + 1]}
        stop   == {i \in 1..k : Height(probes[i]) <= Height(fz.current)}
        last   == CHOOSE i \in 0..k : /\ i > 0 => i \in found \cup stop
                                      /\ \A j \in found \cup stop : j <= i
    IN  [current |-> IF last \in found \ stop THEN probes[last] ELSE fz.current,
         probes |-> << >>,
         queue |-> SubSeq(probes, k + 1, Len(probes)) \o fz.queue]

EndProbe(k) ==
    /\ ended = "no"
    /\ finalizer.probes # << >>
    /\ k <= Answered(finalizer.probes)
    /\ finalizer' = ProbeResult(finalizer, k)
    /\ UNCHANGED << nodeVars, ingestVars, parent, out, consumerVars >>

\* The request fails: output.put(err)
ProbeFails ==
    /\ ended = "no"
    /\ finalizer.probes # << >>
    /\ used.errors < MaxErrors
    /\ finalizer' = [finalizer EXCEPT !.probes = << >>]
    /\ out' = Append(out, Over("error"))
    /\ used' = [used EXCEPT !.errors = @ + 1]
    /\ UNCHANGED << node, ingestVars, parent, consumerVars >>

\* The consumer takes the next item.
Consume ==
    /\ ended = "no"
    /\ out # << >>
    /\ out' = Tail(out)
    /\ IF Head(out).kind = "batch"
       THEN /\ pos' = Head(out).tip
            /\ told' = Head(out).final
            /\ UNCHANGED ended
       ELSE /\ ended' = Head(out).kind
            /\ UNCHANGED << pos, told >>
    /\ UNCHANGED << request, nodeVars, ingestVars, parent, finalizer >>

------------------------------------------------------------------------------
Init ==
    /\ request \in Requests
    /\ \E b \in Block : /\ Height(b) = 0
                        /\ node = [tip |-> b, fin |-> b, prior |-> b]
                        /\ tracked = b
    /\ beg = Height(Start) + 1
    /\ strides = [next |-> 1, top |-> 0, fh |-> Origin]
    /\ poll = Reset(Height(Start) + 1)
    /\ jobs = << >>
    /\ parent = Start
    /\ finalizer = [current |-> Origin, queue |-> << >>, probes |-> << >>]
    /\ out = << >>
    /\ pos = Start
    /\ told = Origin
    /\ ended = "no"
    /\ used = [reorgs |-> 0, errors |-> 0]

Next ==
    \/ NewBlock \/ Reorg \/ NodeFinalizes \/ ReplicasAgree
    \/ \E r \in Block : Track(r)
    \/ PlanStrides \/ YieldStride \/ Poll
    \/ \E i \in DOMAIN jobs : Settle(i) \/ JobFails(i)
    \/ Transform \/ TransformFails \/ TransformEnds
    \/ StartProbe \/ ProbeFails
    \/ \E k \in 0..ProbeSize : EndProbe(k)
    \/ Consume

\* The event loop runs what is ready, requests are answered and replicas agree in the
\* end; an answer that is up to date comes again and again.
Fairness ==
    /\ WF_vars(ReplicasAgree)
    /\ WF_vars(Track(node.fin) /\ tracked' # tracked)
    /\ WF_vars(PlanStrides) /\ WF_vars(YieldStride) /\ SF_vars(Poll /\ jobs' # jobs)
    /\ \A i \in 1..Concurrency : WF_vars(i \in DOMAIN jobs /\ Settle(i))
    /\ WF_vars(Transform \/ TransformFails \/ TransformEnds)
    /\ WF_vars(StartProbe)
    /\ SF_vars(EndProbe(Answered(finalizer.probes)))
    /\ WF_vars(Consume)

Spec == Init /\ [][Next]_vars /\ Fairness

------------------------------------------------------------------------------
\* Types: no more jobs than strideConcurrency, and bounded queues of blocks to probe and
\* of batches for the consumer.
TypeOK ==
    /\ node \in [tip : Block, fin : Block, prior : Block]
    /\ tracked \in Block
    /\ beg \in Nat
    /\ Len(jobs) <= Concurrency
    /\ poll.lastRead \in Nat \cup {None} /\ poll.head \in Nat \cup {None}
    /\ {parent, pos, told, finalizer.current} \subseteq Ref
    /\ Len(finalizer.queue) <= MaxQueue + 1 + ProbeSize
    /\ Len(out) <= 2
    /\ ended \in {"no", "end", "fork", "error"}

\* A ForkException is about the block that follows what was delivered.
ForkFollows ==
    out # << >> /\ Head(out).kind = "fork" => Height(Head(out).tip) = Height(pos) + 1

\* The end of the requested range comes after all of its blocks.
EndIsComplete == ended = "end" => Height(pos) = To

\* BlockStream, with the consumer's view of this stream.
Contract == INSTANCE BlockStream WITH
    node <- [tip |-> node.tip, fin |-> node.fin], ended <- ended # "no"

\* What the consumers of the stream rely on: batches that continue one another, and
\* finalized heads that are final and of the stream's chain, forks and replicas that
\* disagree notwithstanding; a fork is reported where it is, and the end comes at the end.
KeepsContract == Contract!StreamSpec /\ [](ForkFollows /\ EndIsComplete)

\* The stream follows a quiet node up to its tip, or to its finalized block, and knows
\* of its finality when all is final.  A fork of the same height is only seen when it
\* grows.
ReachesHead ==
    LET top == IF Commitment = "finalized" THEN node.fin ELSE node.tip
    IN  <>[](\/ ended # "no"
             \/ /\ Height(top) <= Height(pos)
                /\ (Commitment = "latest" /\ node.fin = pos /\ pos # Start)
                       => finalizer.current = pos)

==============================================================================
