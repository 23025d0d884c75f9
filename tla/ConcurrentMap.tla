---------------------------- MODULE ConcurrentMap ----------------------------
(***************************************************************************)
(* concurrentMap() of util/util-internal/src/async.ts: a stream is mapped by *)
(* an asynchronous function, a bounded number of calls ahead of the          *)
(* consumer, and the results are handed over in the order of the stream.     *)
(* The ingestion of RPC data sources runs its requests through it.  The      *)
(* AsyncQueue in the middle is taken by what AsyncQueue.tla shows of it: a   *)
(* first-in-first-out buffer whose put() waits while the buffer is full.     *)
(*                                                                          *)
(* Items are the numbers 1, 2, ...; Failure in the queue is the error of the  *)
(* stream itself.                                                            *)
(***************************************************************************)
EXTENDS Integers, Sequences, FiniteSets

CONSTANTS
    Concurrency,    \* concurrency
    Failure,        \* the rejected promise of a failed stream
    MaxItems        \* bound: items of the stream

MapAssumption ==
    /\ Concurrency \in Nat \ {0}
    /\ MaxItems \in Nat
    /\ Failure \notin Nat

VARIABLES
    mapper,     \* map(): "pulling" the stream, "putting", or how it ended
    call,       \* the calls of f: "none", "running", "ok" or "error"
    fifo,       \* the queue
    closed,     \* queue.isClosed()
    awaited,    \* what the consumer awaits the promise of, 0 for nothing
    consumer,   \* "running", "done", "threw" or "left"
    out         \* the items whose results were handed over

vars == << mapper, call, fifo, closed, awaited, consumer, out >>

Items == 1..MaxItems

Started == {n \in Items : call[n] # "none"}

\* The item the stream yields next.
NextItem == Cardinality(Started) + 1

\* put() returns at once while there is room.
AfterPut(queue) == IF Len(queue) >= Concurrency THEN "putting" ELSE "pulling"

\* The stream yields: f is called and its promise is put into the queue.  A put
\* into a closed queue ends the loop, and with it the stream.
Pull ==
    /\ mapper = "pulling"
    /\ NextItem <= MaxItems
    /\ call' = [call EXCEPT ![NextItem] = "running"]
    /\ IF closed
       THEN mapper' = "stopped" /\ UNCHANGED fifo
       ELSE /\ fifo' = Append(fifo, NextItem)
            /\ mapper' = AfterPut(fifo')
    /\ UNCHANGED << closed, awaited, consumer, out >>

\* The stream ends: the queue is closed.
End ==
    /\ mapper = "pulling"
    /\ mapper' = "ended"
    /\ closed' = TRUE
    /\ UNCHANGED << call, fifo, awaited, consumer, out >>

\* The stream throws: a rejected promise is put behind what was read, tryPut().
Fail ==
    /\ mapper = "pulling"
    /\ mapper' = "failed"
    /\ fifo' = IF closed THEN fifo ELSE Append(fifo, Failure)
    /\ UNCHANGED << call, closed, awaited, consumer, out >>

\* A call of f completes, in any order.
Settle(n) ==
    /\ call[n] = "running"
    /\ \E result \in {"ok", "error"} : call' = [call EXCEPT ![n] = result]
    /\ UNCHANGED << mapper, fifo, closed, awaited, consumer, out >>

\* queue.iterate(): the oldest promise is taken; a waiting put() is resolved.
Take ==
    /\ consumer = "running"
    /\ awaited = 0
    /\ IF fifo # << >>
       THEN /\ awaited' = Head(fifo)
            /\ fifo' = Tail(fifo)
            /\ mapper' = IF mapper = "putting" /\ Len(fifo') < Concurrency
                         THEN "pulling" ELSE mapper
            /\ UNCHANGED consumer
       ELSE /\ closed
            /\ consumer' = "done"
            /\ UNCHANGED << awaited, fifo, mapper >>
    /\ UNCHANGED << call, closed, out >>

\* Bug: the first result that is ready is handed over.
YieldFirstReady ==
    \E n \in Items :
        /\ consumer = "running"
        /\ awaited # 0
        /\ call[n] = "ok"
        /\ \A i \in DOMAIN out : out[i] # n
        /\ out' = Append(out, n)
        /\ awaited' = 0
        /\ UNCHANGED << mapper, call, fifo, closed, consumer >>

\* The promise is resolved: its value is handed over.
Yield ==
    /\ consumer = "running"
    /\ awaited \in Items
    /\ call[awaited] = "ok"
    /\ out' = Append(out, awaited)
    /\ awaited' = 0
    /\ UNCHANGED << mapper, call, fifo, closed, consumer >>

\* Bug: the queue is left as it is.
CloseQueueNever == UNCHANGED << closed, mapper >>

\* close() in the finally of iterate(): a put() that waits is rejected, which
\* ends map().
CloseQueue ==
    /\ closed' = TRUE
    /\ mapper' = IF mapper = "putting" THEN "stopped" ELSE mapper

\* The promise is rejected: the consumer gets the error.
Throw ==
    /\ consumer = "running"
    /\ awaited # 0
    /\ awaited \in Items => call[awaited] = "error"
    /\ consumer' = "threw"
    /\ CloseQueue
    /\ UNCHANGED << call, fifo, awaited, out >>

\* The consumer breaks out of its loop after a value.
Leave ==
    /\ consumer = "running"
    /\ awaited = 0
    /\ out # << >>
    /\ consumer' = "left"
    /\ CloseQueue
    /\ UNCHANGED << call, fifo, awaited, out >>

Init ==
    /\ mapper = "pulling"
    /\ call = [n \in Items |-> "none"]
    /\ fifo = << >>
    /\ closed = FALSE
    /\ awaited = 0
    /\ consumer = "running"
    /\ out = << >>

Next ==
    \/ Pull
    \/ End
    \/ Fail
    \/ \E n \in Items : Settle(n)
    \/ Take
    \/ Yield
    \/ Throw
    \/ Leave

\* The event loop runs what is ready, and every request is answered.
Fairness ==
    /\ WF_vars(Take) /\ WF_vars(Yield) /\ WF_vars(Throw)
    /\ \A n \in Items : WF_vars(Settle(n))
    /\ WF_vars(Pull \/ End \/ Fail)

Spec == Init /\ [][Next]_vars /\ Fairness

------------------------------------------------------------------------------
\* Types: concurrentMap() puts nothing but promises of items into its queue.
TypeOK ==
    /\ mapper \in {"pulling", "putting", "ended", "failed", "stopped"}
    /\ call \in [Items -> {"none", "running", "ok", "error"}]
    /\ \A i \in DOMAIN fifo : fifo[i] \in Items \cup {Failure}
    /\ closed \in BOOLEAN
    /\ awaited \in Items \cup {0, Failure}
    /\ consumer \in {"running", "done", "threw", "left"}

\* The results come in the order of the stream, however the calls of f complete.
InStreamOrder == out = [i \in 1..Len(out) |-> i]

\* No more than the configured number of calls is ahead of the consumer, next to
\* the one it waits for and the one the stream was stopped at.
BoundedConcurrency ==
    Cardinality(Started) - Len(out)
        <= Concurrency + 1 + (IF mapper = "stopped" THEN 1 ELSE 0)

\* The iteration ends without an error only if the stream did, and then every
\* item of the stream was handed over.
NoSilentEnd ==
    consumer = "done" => mapper = "ended" /\ Len(out) = Cardinality(Started)

\* Whatever settles first and whatever fails: the consumer gets every item once and in
\* order, up to an error, with no more calls ahead of it than allowed.
EveryItemInOrder == TypeOK /\ InStreamOrder /\ BoundedConcurrency /\ NoSilentEnd

\* The iteration ends, and whichever way it does, the stream is released: it ends,
\* fails or is returned.
EndsAndReleases ==
    /\ <>(consumer # "running")
    /\ <>(mapper \in {"ended", "failed", "stopped"})

==============================================================================
