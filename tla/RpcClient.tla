------------------------------ MODULE RpcClient ------------------------------
(***************************************************************************)
(* The JSON-RPC client (util/rpc-client): calls wait in a queue, at most    *)
(* MaxCapacity of them are on their way, and a connection error puts a call *)
(* back into the queue and pauses new requests (client.ts).  Over a web     *)
(* socket (transport/ws.ts) all calls share one connection, which a call    *)
(* that times out takes down with it; over HTTP (transport/http.ts) each    *)
(* has its own.                                                              *)
(*                                                                          *)
(* transport  "ws" or "http"                                                 *)
(* client     req: for each call its state, the retry attempts it has left   *)
(*            and the backoffEpoch it was sent in; capacity; epoch is        *)
(*            backoffEpoch, paused that backoffTime is set;                  *)
(*            sched: "none" (schedulingScheduled is false), "task" before    *)
(*            performScheduling(), and within waitForConnection() "pause"    *)
(*            and "connect"                                                  *)
(* con        the socket: "down", "connecting" or "up"; session counts them  *)
(* wire       the requests the server has still to answer, each with the     *)
(*            session it came in                                             *)
(* faults     what went wrong so far                                         *)
(* unknown    a response was taken for one to an unknown request             *)
(*                                                                          *)
(* What a request's promise triggers (the handlers of send() and, over a     *)
(* socket, those of all calls of a lost connection) runs before the next     *)
(* event, and is part of one action.  Pauses have no length.                 *)
(***************************************************************************)
EXTENDS Integers, FiniteSets

CONSTANTS
    Calls,          \* the calls, numbered by id: 1..n
    MaxCapacity,    \* options.capacity
    RetryAttempts,  \* options.retryAttempts
    MaxFaults       \* bound: on faults

RpcAssumption ==
    /\ Calls \subseteq Nat /\ IsFiniteSet(Calls)
    /\ MaxCapacity \in Nat \ {0}
    /\ {RetryAttempts, MaxFaults} \subseteq Nat

VARIABLES transport, client, con, session, wire, faults, unknown

vars == << transport, client, con, session, wire, faults, unknown >>

In(c, state) == {r \in Calls : c.req[r].state = state}

\* The calls S, in a new state.
Put(c, S, state) ==
    [c EXCEPT !.req = [r \in Calls |->
        IF r \in S THEN [c.req[r] EXCEPT !.state = state] ELSE c.req[r]]]

\* schedule()
Schedule(c) ==
    IF c.sched = "none" /\ ~ c.closed /\ In(c, "queued") # {} /\ c.capacity > 0
    THEN [c EXCEPT !.sched = "task"] ELSE c

\* backoff()
Backoff(c) == [c EXCEPT !.epoch = @ + 1, !.paused = TRUE]

\* finally() of send(), for the calls S.
Freed(c, S) == Schedule([c EXCEPT !.capacity = @ + Cardinality(S)])

Rejected(c, S) == Freed(Put(c, S, "rejected"), S)

Resolved(c, r) == Freed(Put(c, {r}, "resolved"), {r})

\* The rejection handler of send() for a connection error of the calls S.
Failed(c, S) ==
    IF c.closed THEN Rejected(c, S)
    ELSE LET retried == {r \in S : c.req[r].attempts > 0}
             queued  == Put([c EXCEPT !.req = [r \in Calls |->
                               IF r \in retried
                               THEN [c.req[r] EXCEPT !.attempts = @ - 1] ELSE c.req[r]]],
                            retried, "queued")
             freed   == Freed(Put(queued, S \ retried, "rejected"), S)
         IN  IF \E r \in S : c.req[r].epoch = c.epoch THEN Backoff(freed) ELSE freed

\* Bug: the promise of connect() stays pending.
ConnectForgotten(c) == c

\* The socket's promise of connect() is rejected: waitForConnection() pauses.
ConnectRejected(c) ==
    IF c.sched = "connect" /\ ~ c.closed THEN [Backoff(c) EXCEPT !.sched = "pause"] ELSE c

------------------------------------------------------------------------------
(***************************************************************************)
(* Scheduling.                                                              *)
(***************************************************************************)
\* call(): enqueue().
Call(r) ==
    /\ client.req[r].state = "new"
    /\ ~ client.closed
    /\ client' = Schedule(Put(client, {r}, "queued"))
    /\ UNCHANGED << transport, con, session, wire, faults, unknown >>

\* The first n calls of the queue.
First(n, c) == {r \in In(c, "queued") : Cardinality({q \in In(c, "queued") : q < r}) < n}

\* The rest of performScheduling() once there is a connection: send() in the order of
\* the ids.  A rate limit may stop it before, and then it is scheduled again.
SendQueued(c) ==
    \E n \in 1..Cardinality(In(c, "queued")) :
        LET S    == First(n, c)
            sent == [Put(c, S, "sent") EXCEPT !.capacity = @ - n]
        IN  /\ n <= c.capacity
            /\ client' = [sent EXCEPT
                  !.req   = [r \in Calls |-> IF r \in S THEN [sent.req[r] EXCEPT !.epoch = c.epoch]
                                                        ELSE sent.req[r]],
                  !.sched = IF sent.capacity > 0 /\ In(sent, "queued") # {} THEN "task" ELSE "none"]
            /\ wire' = wire \cup [call : S, session : {session}]

\* waitForConnection() after the pause.
Connect(c) ==
    IF transport = "http" \/ con = "up"
    THEN SendQueued(c) /\ UNCHANGED << con, session >>
    ELSE /\ con' = "connecting"
         /\ session' = session + 1
         /\ client' = [c EXCEPT !.sched = "connect"]
         /\ UNCHANGED wire

PerformScheduling ==
    /\ client.sched = "task"
    /\ ~ client.closed
    /\ IF client.paused
       THEN /\ client' = [client EXCEPT !.paused = FALSE, !.sched = "pause"]
            /\ UNCHANGED << con, session, wire >>
       ELSE Connect(client)
    /\ UNCHANGED << transport, faults, unknown >>

PauseEnds ==
    /\ client.sched = "pause"
    /\ ~ client.closed
    /\ Connect(client)
    /\ UNCHANGED << transport, faults, unknown >>

------------------------------------------------------------------------------
(***************************************************************************)
(* The socket.                                                              *)
(***************************************************************************)
\* onopen
Opened ==
    /\ con = "connecting"
    /\ con' = "up"
    /\ SendQueued(client)
    /\ UNCHANGED << transport, session, faults, unknown >>

\* onclose and onerror, reset() and a request that times out: close() and clear()
\* reject what is on its way.  A socket that is connecting reports an error when it
\* is closed.
SocketLost ==
    /\ con # "down"
    /\ ~ client.closed
    /\ faults < MaxFaults
    /\ faults' = faults + 1
    /\ con' = "down"
    /\ client' = IF con = "up" THEN Failed(client, In(client, "sent"))
                               ELSE ConnectRejected(client)
    /\ UNCHANGED << transport, session, wire, unknown >>

\* A message that is no JSON: a protocol error, which is not retried.
Garbage ==
    /\ con = "up"
    /\ ~ client.closed
    /\ faults < MaxFaults
    /\ faults' = faults + 1
    /\ con' = "down"
    /\ client' = Rejected(client, In(client, "sent"))
    /\ UNCHANGED << transport, session, wire, unknown >>

------------------------------------------------------------------------------
(***************************************************************************)
(* The answers.                                                             *)
(***************************************************************************)
\* Bug: a call that times out leaves the socket open.
TimeoutAlone(r) ==
    /\ client.req[r].state = "sent"
    /\ faults < MaxFaults
    /\ faults' = faults + 1
    /\ client' = Failed(client, {r})
    /\ UNCHANGED << transport, con, session, wire, unknown >>

\* addTimeout(), httpTimeout: over a socket, the others fail with the one that is late;
\* over HTTP only its own request is aborted.
Timeout(r) ==
    /\ client.req[r].state = "sent"
    /\ faults < MaxFaults
    /\ faults' = faults + 1
    /\ IF transport = "ws"
       THEN /\ con' = "down"
            /\ client' = Failed(client, In(client, "sent"))
            /\ UNCHANGED wire
       ELSE /\ client' = Failed(client, {r})
            /\ wire' = {m \in wire : m.call # r}
            /\ UNCHANGED con
    /\ UNCHANGED << transport, session, unknown >>

\* The call m.call settles: a result, an error, or one that asks for a retry.
Settle(m) ==
    \/ client' = Resolved(client, m.call) /\ UNCHANGED faults
    \/ client' = Rejected(client, {m.call}) /\ UNCHANGED faults
    \/ /\ faults < MaxFaults
       /\ faults' = faults + 1
       /\ client' = Failed(client, {m.call})

\* Each answer of a server gets to the socket its request was sent through; when that
\* is no longer the client's it is dropped.
Answer(m) ==
    /\ m \in wire
    /\ wire' = wire \ {m}
    /\ IF transport = "ws" /\ (con # "up" \/ m.session # session)
       THEN UNCHANGED << client, con, faults, unknown >>
       ELSE IF client.req[m.call].state = "sent"
       THEN Settle(m) /\ UNCHANGED << con, unknown >>
       ELSE /\ unknown' = TRUE
            /\ con' = "down"
            /\ client' = Rejected(client, In(client, "sent"))
            /\ UNCHANGED faults
    /\ UNCHANGED << transport, session >>

\* close(): over HTTP, what is on its way settles by itself.
Close ==
    /\ ~ client.closed
    /\ client' = LET c == Put([client EXCEPT !.closed = TRUE], In(client, "queued"), "rejected")
                 IN  IF transport = "ws" THEN Rejected(c, In(c, "sent")) ELSE c
    /\ con' = "down"
    /\ UNCHANGED << transport, session, wire, faults, unknown >>

------------------------------------------------------------------------------
Init ==
    /\ transport \in {"ws", "http"}
    /\ client = [req |-> [r \in Calls |-> [state |-> "new", attempts |-> RetryAttempts, epoch |-> 0]],
                 capacity |-> MaxCapacity, sched |-> "none", paused |-> FALSE,
                 epoch |-> 0, closed |-> FALSE]
    /\ con = "down"
    /\ session = 0
    /\ wire = {}
    /\ faults = 0
    /\ unknown = FALSE

Next ==
    \/ \E r \in Calls : Call(r) \/ Timeout(r)
    \/ PerformScheduling \/ PauseEnds
    \/ Opened \/ SocketLost \/ Garbage \/ Close
    \/ \E m \in wire : Answer(m)

\* Timers fire, a socket opens (or fails), and every request is answered in the end
\* (or times out).
Fairness ==
    /\ WF_vars(PerformScheduling) /\ WF_vars(PauseEnds) /\ WF_vars(Opened)
    /\ WF_vars(\E m \in wire : Answer(m))

Spec == Init /\ [][Next]_vars /\ Fairness

------------------------------------------------------------------------------
\* The state, with every unit of capacity accounted for: free, or of a call on its way.
TypeOK ==
    /\ client.capacity + Cardinality(In(client, "sent")) = MaxCapacity
    /\ client.capacity \in 0..MaxCapacity
    /\ client.sched \in {"none", "task", "pause", "connect"}
    /\ \A r \in Calls : client.req[r].attempts \in 0..RetryAttempts
    /\ con \in {"down", "connecting", "up"}

\* A call waits only for a free slot or for the scheduling that is under way.
NoLostWakeup ==
    (In(client, "queued") # {} /\ client.capacity > 0 /\ ~ client.closed)
        => client.sched # "none"

\* A late answer, to a call that timed out, was sent again or given up, is never
\* taken for a response to an unknown request, which would fail all other calls.
LateAnswersIgnored == ~ unknown

\* However many calls fail with a connection, new requests are paused once for it.
OneBackoffPerFault == client.epoch <= faults

\* A closed client leaves no call unsettled: what is on its way over HTTP settles.
CloseSettles ==
    client.closed =>
        /\ In(client, "queued") = {}
        /\ transport = "ws" => In(client, "sent") = {}

\* Every call is settled, whatever goes wrong on the way.
CallsSettle ==
    \A r \in Calls :
        client.req[r].state = "queued" ~> client.req[r].state \in {"resolved", "rejected"}

\* The books of the client are right: capacity, the scheduling of what waits, the pauses,
\* the answers it is open to, and what is left of it when it is closed.
ClientIsSound ==
    TypeOK /\ NoLostWakeup /\ LateAnswersIgnored /\ OneBackoffPerFault /\ CloseSettles

==============================================================================
