------------------------------ MODULE HeadLoop ------------------------------
(***************************************************************************)
(* The loop that follows a subscription to new heads                         *)
(* (evm/evm-processor/src/ds-rpc/client.ts; substrate's datasource.ts has    *)
(* the same one): heads wait in an AsyncQueue(1), where the next replaces    *)
(* the last, and when none comes for newHeadTimeout the connection is reset. *)
(*                                                                          *)
(* queue   the AsyncQueue: value (None, a head or Failure, an Error put as a  *)
(*         value), taking (takeFuture is set), closed                        *)
(* loop    "take", "waiting" for take(), "handling" a head, "threw", "ended" *)
(* taken   the number of the newest head taken from the queue                *)
(* last    lastHead.height                                                   *)
(* tries   attempts at the head that is handled                              *)
(* sent    how many heads were sent                                          *)
(* failed  the subscription, or the handler of a head, has failed            *)
(***************************************************************************)
EXTENDS Integers

CONSTANTS
    MaxHeads,       \* bound: on the heads sent
    MaxHeight       \* bound: on their heights

HeadLoopAssumption == MaxHeads \in Nat /\ MaxHeight \in Nat

VARIABLES queue, loop, taken, last, tries, sent, failed

vars == << queue, loop, taken, last, tries, sent, failed >>

None == [number |-> 0, height |-> 0]
Failure == [number |-> -1, height |-> 0]

\* The loop goes on with what take() gave: an error is thrown, a head below the last one
\* is passed over.
Given(val) ==
    IF val = Failure
    THEN /\ loop' = "threw"
         /\ UNCHANGED << taken, last, tries >>
    ELSE /\ taken' = val.number
         /\ tries' = 0
         /\ loop' = IF val.height >= last THEN "handling" ELSE "take"
         /\ last' = IF val.height >= last THEN val.height ELSE last

\* Bug: a full queue keeps its value.
ForcePutOldest(val, closed) ==
    IF queue.taking
    THEN /\ Given(val)
         /\ queue' = [queue EXCEPT !.taking = FALSE, !.closed = closed]
    ELSE /\ queue' = [queue EXCEPT !.value = IF @ = None THEN val ELSE @, !.closed = closed]
         /\ UNCHANGED << loop, taken, last, tries >>

\* forcePut(), and close() after an error.
ForcePut(val, closed) ==
    IF queue.taking
    THEN /\ Given(val)
         /\ queue' = [queue EXCEPT !.taking = FALSE, !.closed = closed]
    ELSE /\ queue' = [queue EXCEPT !.value = val, !.closed = closed]
         /\ UNCHANGED << loop, taken, last, tries >>

\* onMessage()
OnMessage ==
    /\ sent < MaxHeads
    /\ ~ queue.closed
    /\ sent' = sent + 1
    /\ \E h \in 1..MaxHeight : ForcePut([number |-> sent + 1, height |-> h], FALSE)
    /\ UNCHANGED failed

\* onError(), or a message that is not a head.
OnError ==
    /\ ~ queue.closed
    /\ failed' = TRUE
    /\ ForcePut(Failure, TRUE)
    /\ UNCHANGED sent

\* take(): a second one at the same time is refused, and the loop leaves with the error.
TakeNext ==
    \/ /\ queue.value # None
       /\ Given(queue.value)
       /\ queue' = [queue EXCEPT !.value = None]
    \/ /\ queue.value = None
       /\ queue.taking
       /\ loop' = "threw"
       /\ queue' = [queue EXCEPT !.taking = FALSE, !.closed = TRUE]
       /\ UNCHANGED << taken, last, tries >>
    \/ /\ queue.value = None
       /\ ~ queue.taking
       /\ loop' = "waiting"
       /\ queue' = [queue EXCEPT !.taking = TRUE]
       /\ UNCHANGED << taken, last, tries >>

Take ==
    /\ loop = "take"
    /\ TakeNext
    /\ UNCHANGED << sent, failed >>

\* addTimeout() with newHeadTimeout: the connection is reset and the loop turns, in the
\* same turn of the event loop.  The take() it gave up stays in the queue.
TimeoutFires ==
    /\ loop = "waiting"
    /\ TakeNext
    /\ UNCHANGED << sent, failed >>

\* The handler: done, or tried again after a consistency error, three times and not
\* if there is a newer head, or failed.
Handled ==
    /\ loop = "handling"
    /\ loop' = "take"
    /\ UNCHANGED << queue, taken, last, tries, sent, failed >>

Inconsistent ==
    /\ loop = "handling"
    /\ tries' = tries + 1
    /\ loop' = IF tries + 1 = 3 \/ queue.value # None THEN "take" ELSE "handling"
    /\ UNCHANGED << queue, taken, last, sent, failed >>

HandlerFails ==
    /\ loop = "handling"
    /\ loop' = "threw"
    /\ failed' = TRUE
    /\ queue' = [queue EXCEPT !.closed = TRUE]
    /\ UNCHANGED << taken, last, tries, sent >>

\* isEnd()
End ==
    /\ loop = "take"
    /\ loop' = "ended"
    /\ queue' = [queue EXCEPT !.closed = TRUE]
    /\ UNCHANGED << taken, last, tries, sent, failed >>

Init ==
    /\ queue = [value |-> None, taking |-> FALSE, closed |-> FALSE]
    /\ loop = "take"
    /\ taken = 0
    /\ last = -1
    /\ tries = 0
    /\ sent = 0
    /\ failed = FALSE

Next ==
    \/ OnMessage \/ OnError \/ Take \/ TimeoutFires
    \/ Handled \/ Inconsistent \/ HandlerFails \/ End

\* The loop and its handler go on; nothing is assumed of the node.
Fairness ==
    WF_vars(Take) /\ WF_vars(Handled \/ Inconsistent \/ HandlerFails)

Spec == Init /\ [][Next]_vars /\ Fairness

------------------------------------------------------------------------------
\* The loop is stopped by nothing but an error of the subscription or of a handler: a
\* node that is silent for a while has its connection reset and is heard again.
OnlyErrorsStop == loop = "threw" => failed

\* However many heads came while another was handled, the newest of them is taken from
\* the queue, which has room for one, unless the loop has stopped.
NewestTaken ==
    \A n \in 1..MaxHeads : sent = n ~> (taken >= n \/ loop \in {"threw", "ended"})
==============================================================================
