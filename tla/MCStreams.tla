------------------------------ MODULE MCStreams ------------------------------
(***************************************************************************)
(* The small machines that blocks flow through: AsyncQueue, concurrentMap(), *)
(* the buffered stream from a portal, the streamed response of a data        *)
(* service and the source that falls back on others.  They share no state,   *)
(* and a behaviour of this module is one of a single one of them: it is      *)
(* chosen at the start, and the others rest.                                 *)
(***************************************************************************)
EXTENDS Naturals

CONSTANTS
    Producer, MaxSize, Shared, Undefined, MaxPuts,
    Concurrency, Failure, MaxItems,
    ToBlock, MaxBytes, MaxLines, MaxFaults,
    HeadSize, TailSize, MaxBatch, TimeLimit, MaxFills,
    Ranks, Probed, To, FailThreshold, RecoverThreshold, MaxLag, LongProbes, MaxUpsets

VARIABLES
    running,
    queue, producer, reader, sent, received,
    mapper, call, fifo, closed, awaited, iterator, out,
    ingest, fromBlock, buffer, consumer, got, used,
    phase, source, read, batch, written, socket, late,
    mute, height, health, cache, answers, drive, active, next, position, armed, eager, given, upsets

queueVars == << queue, producer, reader, sent, received >>
mapVars == << mapper, call, fifo, closed, awaited, iterator, out >>
portalVars == << ingest, fromBlock, buffer, consumer, got, used >>
responseVars == << phase, source, read, batch, written, socket, late >>
fallbackVars == << mute, height, health, cache, answers, drive, active, next, position, armed,
                   eager, given, upsets >>

vars == << running, queueVars, mapVars, portalVars, responseVars, fallbackVars >>

Queue == INSTANCE AsyncQueue WITH consumer <- reader
Map == INSTANCE ConcurrentMap WITH consumer <- iterator
Portal == INSTANCE PortalStream
Response == INSTANCE StreamResponse
Supervisor == INSTANCE Fallback WITH phase <- drive, got <- given

ASSUME StreamsAssumption ==
    /\ Queue!QueueAssumption
    /\ Map!MapAssumption
    /\ Portal!PortalAssumption
    /\ Response!ResponseAssumption
    /\ Supervisor!FallbackAssumption

Init ==
    /\ running \in {"queue", "map", "portal", "response", "fallback"}
    /\ Queue!Init
    /\ Map!Init
    /\ Portal!Init
    /\ Response!Init
    /\ Supervisor!Init
    /\ running # "queue" => queue.maxsize = 1 /\ \A p \in Producer : producer[p] = "put"
    /\ running # "fallback" => mute = {} /\ eager

Next ==
    /\ UNCHANGED running
    /\ \/ /\ running = "queue"
          /\ Queue!Next
          /\ UNCHANGED << mapVars, portalVars, responseVars, fallbackVars >>
       \/ /\ running = "map"
          /\ Map!Next
          /\ UNCHANGED << queueVars, portalVars, responseVars, fallbackVars >>
       \/ /\ running = "portal"
          /\ Portal!Next
          /\ UNCHANGED << queueVars, mapVars, responseVars, fallbackVars >>
       \/ /\ running = "response"
          /\ Response!Next
          /\ UNCHANGED << queueVars, mapVars, portalVars, fallbackVars >>
       \/ /\ running = "fallback"
          /\ Supervisor!Next
          /\ UNCHANGED << queueVars, mapVars, portalVars, responseVars >>

\* The fairness of the component that runs.
QueueFairness ==
    /\ WF_queueVars(running = "queue" /\ Queue!Take)
    /\ \A p \in Producer : WF_queueVars(running = "queue" /\ Queue!PutAfterClose(p))

MapFairness ==
    /\ WF_mapVars(running = "map" /\ Map!Take)
    /\ WF_mapVars(running = "map" /\ Map!Yield)
    /\ WF_mapVars(running = "map" /\ Map!Throw)
    /\ \A n \in 1..MaxItems : WF_mapVars(running = "map" /\ Map!Settle(n))
    /\ WF_mapVars(running = "map" /\ (Map!Pull \/ Map!End \/ Map!Fail))

PortalFairness ==
    /\ WF_portalVars(running = "portal" /\ Portal!IdleTimer)
    /\ WF_portalVars(running = "portal" /\ Portal!WaitTimer)
    /\ WF_portalVars(running = "portal" /\ Portal!PutResumes)
    /\ WF_portalVars(running = "portal" /\ Portal!RangeEnds)
    /\ WF_portalVars(running = "portal" /\ Portal!PollAgain)
    /\ WF_portalVars(/\ running = "portal" /\ ingest = "request"
                     /\ Portal!AnswerData \/ Portal!AnswerNoData \/ Portal!AnswerFails)
    /\ WF_portalVars(running = "portal" /\ (Portal!Take \/ Portal!Leave))
    /\ WF_portalVars(running = "portal" /\ Portal!TakeResumes)

ResponseFairness ==
    /\ WF_responseVars(/\ running = "response"
                       /\ Response!FirstBatch \/ Response!FirstBatchFails)
    /\ WF_responseVars(running = "response" /\ Response!WriteHead)
    /\ WF_responseVars(running = "response" /\ Response!LeaveHead)
    /\ WF_responseVars(/\ running = "response"
                       /\ Response!PullBatch \/ Response!HeadDone \/ Response!PullFails)
    /\ WF_responseVars(running = "response" /\ Response!WriteTail)
    /\ WF_responseVars(running = "response" /\ Response!Finish)
    /\ WF_responseVars(running = "response" /\ Response!Stop)
    /\ WF_responseVars(running = "response" /\ Response!WaitDrain)
    /\ WF_responseVars(running = "response" /\ Response!Drain)

FallbackFairness ==
    /\ WF_fallbackVars(running = "fallback" /\ Supervisor!Supervise)
    /\ WF_fallbackVars(running = "fallback" /\ Supervisor!Deliver)
    /\ \A s \in 1..Ranks :
        /\ WF_fallbackVars(running = "fallback" /\ Supervisor!Running /\ Supervisor!PollPasses(s))
        /\ WF_fallbackVars(running = "fallback" /\ Supervisor!Running /\ Supervisor!ProbeSettles(s))
        /\ WF_fallbackVars(running = "fallback" /\ Supervisor!Running /\ Supervisor!CooldownEnds(s))
        /\ WF_fallbackVars(/\ running = "fallback" /\ Supervisor!Running
                           /\ s \notin mute /\ Supervisor!NewBlock(s))

Spec ==
    /\ Init
    /\ [][Next]_vars
    /\ QueueFairness /\ MapFairness /\ PortalFairness /\ ResponseFairness /\ FallbackFairness

------------------------------------------------------------------------------
\* AsyncQueue loses, doubles and reorders nothing, whatever mix of put, forcePut and
\* take has moved and grown its ring buffer, and nobody sleeps at it without a reason: a
\* take waits only for an empty open queue, a put only for a full open one.
NothingForgotten == Queue!NothingForgotten

\* concurrentMap() hands over every result once and in the order of the stream, however
\* they settle; it ends without an error only if the stream did and all were handed over.
EveryItemInOrder == Map!EveryItemInOrder

\* Every put to an AsyncQueue is answered; an iteration of concurrentMap() ends, and the
\* stream behind it is released.
NobodyWaitsForEver ==
    /\ running = "queue" => Queue!PutsReturn
    /\ running = "map" => Map!EndsAndReleases

\* Every block the portal client has read gets to the consumer once and in order, across
\* resets, full buffers and timers; the stream ends or throws only after them, and put()
\* and take() do not wait for each other.
StreamIsSound == Portal!StreamIsSound

\* A block that was read is not kept by the buffer of the portal client, even if the
\* portal sends nothing more.
BlocksMoveOn == Portal!BlocksMoveOn

\* What a data service sends in time is a chain without gaps, and complete.
ResponseIsChain == Response!TypeOK /\ Response!ResponseIsChain

\* Every request to the data service ends and the stream behind it is released, unless
\* the client leaves while the handler waits for it to read.
ReleasedUnlessAbandoned ==
    running = "response" => Response!ReleasedUnlessAbandoned

\* However a stream is handed from source to source by the fallback, the consumer gets
\* every block once and in order; and a source with a capability probe that has failed is
\* healthy again only after it has served its query since.
FallbackIsSound == Supervisor!TypeOK /\ Supervisor!OneStream /\ Supervisor!HealthyIsProven

\* As long as one of two sources works, the consumer of the fallback gets its blocks.
WorkingSourceServes == running = "fallback" => Supervisor!WorkingSourceServes

==============================================================================
