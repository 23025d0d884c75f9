-------------------------------- MODULE MCRpc --------------------------------
(***************************************************************************)
(* The parts of an RPC connection: the client with its retries, its rate     *)
(* meter, its subscriptions, and the loop that takes new heads from one.     *)
(* They share no state, and a behaviour of this module is one of a single    *)
(* one of them: it is chosen at the start, and the others rest.              *)
(***************************************************************************)
EXTENDS Naturals

CONSTANTS
    Calls, MaxCapacity, RetryAttempts, MaxFaults,
    Handles, MaxNotes,
    WindowSize, RateLimit, MaxBatch, MaxTime,
    MaxHeads, MaxHeight

VARIABLES
    running,
    transport, client, con, session, wire, faults, unknown,
    handle, calls, socket, requests, server, inbox, nextId, used, got,
    window, time, now, counted,
    queue, loop, taken, last, tries, heads, failed

clientVars == << transport, client, con, session, wire, faults, unknown >>
subscriptionVars == << handle, calls, socket, requests, server, inbox, nextId, used, got >>
meterVars == << window, time, now, counted >>
loopVars == << queue, loop, taken, last, tries, heads, failed >>

vars == << running, clientVars, subscriptionVars, meterVars, loopVars >>

Client == INSTANCE RpcClient
Subscription == INSTANCE Subscriptions WITH con <- socket, sent <- requests
Meter == INSTANCE RateMeter WITH sent <- counted
Loop == INSTANCE HeadLoop WITH sent <- heads

ASSUME ConnectionAssumption ==
    /\ Client!RpcAssumption
    /\ Subscription!SubscriptionsAssumption
    /\ Meter!RateAssumption
    /\ Loop!HeadLoopAssumption

Init ==
    /\ running \in {"client", "subscriptions", "meter", "loop"}
    /\ Client!Init
    /\ running # "client" => transport = "ws"
    /\ Subscription!Init
    /\ Meter!Init
    /\ Loop!Init

Next ==
    /\ UNCHANGED running
    /\ \/ /\ running = "client"
          /\ Client!Next
          /\ UNCHANGED << subscriptionVars, meterVars, loopVars >>
       \/ /\ running = "subscriptions"
          /\ Subscription!Next
          /\ UNCHANGED << clientVars, meterVars, loopVars >>
       \/ /\ running = "meter"
          /\ Meter!Next
          /\ UNCHANGED << clientVars, subscriptionVars, loopVars >>
       \/ /\ running = "loop"
          /\ Loop!Next
          /\ UNCHANGED << clientVars, subscriptionVars, meterVars >>

\* The fairness of the component that runs.
ClientFairness ==
    /\ WF_clientVars(running = "client" /\ Client!PerformScheduling)
    /\ WF_clientVars(running = "client" /\ Client!PauseEnds)
    /\ WF_clientVars(running = "client" /\ Client!Opened)
    /\ WF_clientVars(running = "client" /\ \E m \in wire : Client!Answer(m))

SubscriptionFairness ==
    /\ WF_subscriptionVars(running = "subscriptions" /\ Subscription!Reconnect)
    /\ WF_subscriptionVars(running = "subscriptions" /\ Subscription!SendCall)
    /\ WF_subscriptionVars(running = "subscriptions" /\ Subscription!Receive)
    /\ WF_subscriptionVars(running = "subscriptions" /\ Subscription!ServeSub)
    /\ WF_subscriptionVars(running = "subscriptions" /\ Subscription!ServeUnsub)

LoopFairness ==
    /\ WF_loopVars(running = "loop" /\ Loop!Take)
    /\ WF_loopVars(/\ running = "loop"
                   /\ Loop!Handled \/ Loop!Inconsistent \/ Loop!HandlerFails)

Spec ==
    /\ Init
    /\ [][Next]_vars
    /\ ClientFairness /\ SubscriptionFairness /\ LoopFairness

------------------------------------------------------------------------------
\* The books of the client are right: no call is forgotten in the queue, capacity is not
\* lost, one fault causes one pause, close() leaves no call behind, and a late answer, to
\* a call that timed out, was sent again or given up, is not taken for a response to an
\* unknown request, which would fail all other calls.
ClientIsSound == Client!ClientIsSound

\* Every call of the RPC client is settled, whatever goes wrong on the way.
CallsSettle == Client!CallsSettle

\* A handle has one subscription at most, and the server keeps none that nobody wants.
SubscriptionsMatch == Subscription!SubscriptionsMatch

\* A notification gets to no other than the open handle it is for, and a subscription that
\* is not closed is there again and again, whatever happens to the connection, even in
\* the middle of a reset().
StaysSubscribed ==
    /\ Subscription!DeliveredToOwner
    /\ running = "subscriptions" => Subscription!StaysSubscribed

\* The meter counts exactly the requests of its window, and in no window are more sent
\* than the limit and one batch.
RateIsKept == Meter!RateIsKept

\* However many heads came while another was handled, the newest is taken up.
NewestTaken == Loop!NewestTaken

==============================================================================
