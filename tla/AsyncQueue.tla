------------------------------ MODULE AsyncQueue ------------------------------
(***************************************************************************)
(* The queue behind the streams of the SDK                                  *)
(* (util/util-internal/src/async.ts): a ring buffer, callers that wait for   *)
(* room, at most one caller that waits for a value.  JavaScript runs a       *)
(* method up to its first await without interruption, so a method is a step. *)
(*                                                                          *)
(* queue.buf, pos, size  the ring buffer; buf is indexed from 0              *)
(* queue.putFutures      the producers whose put() has not been resolved     *)
(* queue.taking          takeFuture is set                                   *)
(* queue.maxsize         the capacity                                        *)
(* producer[p]           "put" or "force" for the method p calls, "stopped"  *)
(*                       for one that has gone or that never was             *)
(* consumer              "running" or "done"                                 *)
(* sent                  the values accepted by the queue, without those a   *)
(*                       forcePut() has replaced                             *)
(* received              the values take() has returned                      *)
(***************************************************************************)
EXTENDS Integers, Sequences, SequencesExt

CONSTANTS
    Producer,   \* the callers of put()
    MaxSize,    \* the largest maxsize
    Shared,     \* queues longer than one have several producers, too
    Undefined,  \* an empty slot, and what take() returns at the end
    MaxPuts     \* bound: values put

QueueAssumption ==
    /\ MaxSize \in Nat \ {0}
    /\ Shared \in BOOLEAN
    /\ MaxPuts \in Nat
    /\ Undefined \notin Nat

VARIABLES queue, producer, consumer, sent, received

vars == << queue, producer, consumer, sent, received >>

Empty(maxsize) ==
    [maxsize |-> maxsize, buf |-> [i \in 0..(maxsize - 1) |-> Undefined], pos |-> 0,
     size |-> 0, closed |-> FALSE, putFutures |-> {}, taking |-> FALSE]

BufLength(q) == Cardinality(DOMAIN q.buf)

\* The buffered values, the oldest first.
Content(q) == [i \in 1..q.size |-> q.buf[(q.pos + i - 1) % BufLength(q)]]

\* enlargeBuffer(): one slot more.  The slots that were wrapped around move down
\* by one, the first of them to the end of the buffer; then the last slot is
\* cleared, and with it the value that was moved there: hence Shared.
EnlargeBuffer(q) ==
    [q EXCEPT !.buf = [i \in 0..q.size |->
        CASE i = q.size     -> Undefined
          [] i < q.pos - 1  -> q.buf[i + 1]
          [] OTHER          -> q.buf[i]]]

Push(q, val) ==
    LET room == IF q.size = BufLength(q) THEN EnlargeBuffer(q) ELSE q
    IN  [room EXCEPT !.buf[(q.pos + q.size) % BufLength(room)] = val,
                     !.size = @ + 1]

\* put() by p on an open queue that nobody waits for.
PutInto(q, p, val) ==
    LET pushed == Push(q, val)
    IN  IF pushed.size >= q.maxsize
        THEN [pushed EXCEPT !.putFutures = @ \cup {p}]
        ELSE pushed

\* forcePut(): the value at the end of a full buffer is replaced.
ForcePutInto(q, val) ==
    IF q.size < BufLength(q)
    THEN [q EXCEPT !.buf[(q.pos + q.size) % BufLength(q)] = val, !.size = @ + 1]
    ELSE [q EXCEPT !.buf[(q.pos + q.size - 1) % BufLength(q)] = val]

\* Bug: the position wraps at maxsize, not at the end of an enlarged buffer.
TakeFromWrapped(q) ==
    [q EXCEPT !.buf[q.pos] = Undefined,
              !.pos = (q.pos + 1) % q.maxsize,
              !.size = @ - 1,
              !.putFutures = IF q.size - 1 < q.maxsize THEN {} ELSE @]

\* take() from a buffer that is not empty.
TakeFrom(q) ==
    [q EXCEPT !.buf[q.pos] = Undefined,
              !.pos = (q.pos + 1) % BufLength(q),
              !.size = @ - 1,
              !.putFutures = IF q.size - 1 < q.maxsize THEN {} ELSE @]

\* close(): waiting callers are sent home, buffered values can still be taken.
Closed(q) == [q EXCEPT !.closed = TRUE, !.putFutures = {}, !.taking = FALSE]

------------------------------------------------------------------------------
\* put(): the value goes to the consumer that waits, or into the buffer.
Put(p) ==
    LET val == Len(sent) + 1
    IN  /\ producer[p] = "put"
        /\ p \notin queue.putFutures
        /\ Len(sent) < MaxPuts
        /\ ~ queue.closed
        /\ sent' = Append(sent, val)
        /\ IF queue.taking
           THEN /\ queue' = [queue EXCEPT !.taking = FALSE]
                /\ received' = Append(received, val)
           ELSE /\ queue' = PutInto(queue, p, val)
                /\ UNCHANGED received
        /\ UNCHANGED << producer, consumer >>

\* put() and forcePut() throw ClosedQueueError.
PutAfterClose(p) ==
    /\ producer[p] # "stopped"
    /\ queue.closed
    /\ producer' = [producer EXCEPT ![p] = "stopped"]
    /\ UNCHANGED << queue, consumer, sent, received >>

\* forcePut() by a caller that never waits, or as the last word of one that does:
\* the error of a failed producer.
ForcePut(p) ==
    LET val == Len(sent) + 1
    IN  /\ producer[p] # "stopped"
        /\ p \notin queue.putFutures
        /\ Len(sent) < MaxPuts
        /\ ~ queue.closed
        /\ IF queue.taking
           THEN /\ queue' = [queue EXCEPT !.taking = FALSE]
                /\ received' = Append(received, val)
                /\ sent' = Append(sent, val)
           ELSE /\ queue' = ForcePutInto(queue, val)
                /\ sent' = IF queue.size < BufLength(queue) THEN Append(sent, val)
                           ELSE Append(Front(sent), val)
                /\ UNCHANGED received
        /\ producer' = [producer EXCEPT ![p] = IF @ = "force" THEN @ ELSE "stopped"]
        /\ UNCHANGED consumer

\* The loop of iterate(): take() returns a value, ends the iteration, or waits.
\* An undefined value is taken for the end; the iteration closes the queue.
Take ==
    /\ consumer = "running"
    /\ ~ queue.taking
    /\ IF queue.size > 0
       THEN LET val == queue.buf[queue.pos]
            IN  IF val = Undefined
                THEN /\ queue' = Closed(TakeFrom(queue))
                     /\ consumer' = "done"
                     /\ UNCHANGED received
                ELSE /\ queue' = TakeFrom(queue)
                     /\ received' = Append(received, val)
                     /\ UNCHANGED consumer
       ELSE IF queue.closed
       THEN /\ consumer' = "done"
            /\ UNCHANGED << queue, received >>
       ELSE /\ queue' = [queue EXCEPT !.taking = TRUE]
            /\ UNCHANGED << consumer, received >>
    /\ UNCHANGED << producer, sent >>

\* The consumer leaves its loop: finally { this.close() }
Leave ==
    /\ consumer = "running"
    /\ ~ queue.taking
    /\ consumer' = "done"
    /\ queue' = Closed(queue)
    /\ UNCHANGED << producer, sent, received >>

\* A producer has nothing more to put.
Close(p) ==
    /\ producer[p] # "stopped"
    /\ p \notin queue.putFutures
    /\ producer' = [producer EXCEPT ![p] = "stopped"]
    /\ queue' = Closed(queue)
    /\ UNCHANGED << consumer, sent, received >>

------------------------------------------------------------------------------
Init ==
    /\ \E maxsize \in 1..MaxSize, how \in {"put", "force"}, callers \in SUBSET Producer :
        /\ callers # {}
        /\ maxsize > 1 /\ ~ Shared => Cardinality(callers) = 1
        /\ queue = Empty(maxsize)
        /\ producer = [p \in Producer |-> IF p \in callers THEN how ELSE "stopped"]
    /\ consumer = "running"
    /\ sent = << >>
    /\ received = << >>

Next ==
    \/ \E p \in Producer : Put(p) \/ ForcePut(p) \/ PutAfterClose(p) \/ Close(p)
    \/ Take
    \/ Leave

\* The consumer keeps iterating and a producer that has been stopped notices.
Fairness ==
    WF_vars(Take) /\ \A p \in Producer : WF_vars(PutAfterClose(p))

Spec == Init /\ [][Next]_vars /\ Fairness

------------------------------------------------------------------------------
\* Types: the ring buffer of AsyncQueue never counts more than it has slots.
TypeOK ==
    /\ queue.pos \in DOMAIN queue.buf
    /\ queue.size \in 0..BufLength(queue)
    /\ \A i \in DOMAIN queue.buf : queue.buf[i] \in Nat \cup {Undefined}
    /\ queue.closed \in BOOLEAN /\ queue.taking \in BOOLEAN
    /\ queue.putFutures \subseteq Producer
    /\ producer \in [Producer -> {"put", "force", "stopped"}]
    /\ consumer \in {"running", "done"}

\* Nothing is lost, doubled or out of order on its way through the ring buffer,
\* whatever mix of put, forcePut and take has moved and grown it: what was
\* received and what is buffered is what was sent.
FirstInFirstOut == received \o Content(queue) = sent

\* Nobody sleeps without a reason: a take waits only for an empty open queue, a
\* put only for a full open one.
NoIdleWaiters ==
    /\ queue.taking => queue.size = 0 /\ ~ queue.closed
    /\ queue.putFutures # {} => queue.size >= queue.maxsize /\ ~ queue.closed

\* No value and nobody who waits is forgotten by the queue.
NothingForgotten == TypeOK /\ FirstInFirstOut /\ NoIdleWaiters

\* A put is always answered: the value is taken or the queue is closed.
PutsReturn == \A p \in Producer : p \in queue.putFutures ~> p \notin queue.putFutures

==============================================================================
