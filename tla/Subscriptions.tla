---------------------------- MODULE Subscriptions ----------------------------
(***************************************************************************)
(* Subscriptions over a web socket (util/rpc-client/src/subscriptions.ts):   *)
(* a Handle subscribes by a call, is filed under the id the server answers   *)
(* with, and subscribes again when the connection is lost.                   *)
(*                                                                          *)
(* handle   for each Handle closed and id (0 while it has none); a handle    *)
(*          with an id is the one filed under it in active                   *)
(* calls    the calls in the client's queue, in the order they are sent      *)
(* con      "up" or "down"                                                   *)
(* sent     calls on their way to the server                                 *)
(* server   the subscriptions of the current connection, id and owner;       *)
(*          ids are never given twice                                        *)
(* inbox    messages on their way to the client: answers (with their call)   *)
(*          and notifications                                                *)
(* nextId, used, got   the server's ids, faults so far, and for each handle  *)
(*          the subscriptions whose notifications it was handed              *)
(***************************************************************************)
EXTENDS Integers, Sequences, FiniteSets, SequencesExt

CONSTANTS
    Handles,
    MaxFaults,      \* bound: connection losses, refusals and resets of handles
    MaxNotes        \* bound: notifications on their way

SubscriptionsAssumption == IsFiniteSet(Handles) /\ {MaxFaults, MaxNotes} \subseteq Nat

VARIABLES handle, calls, con, sent, server, inbox, nextId, used, got

vars == << handle, calls, con, sent, server, inbox, nextId, used, got >>

SubCall(h) == [h |-> h, kind |-> "sub", id |-> 0, again |-> FALSE]

UnsubCall(h, id, again) == [h |-> h, kind |-> "unsub", id |-> id, again |-> again]

\* subscribe() for the handles S.
Subscribing(S) == SetToSeq({SubCall(h) : h \in S})

Message(type, call, id) == [type |-> type, call |-> call, id |-> id]

Answers == {m \in ToSet(inbox) : m.type # "note"}

\* The calls the server has not answered, or not yet so that the client knows.
InFlight == {m.call : m \in Answers} \cup ToSet(sent)

Open(h) == ~ handle[h].closed

------------------------------------------------------------------------------
(***************************************************************************)
(* The handles.                                                             *)
(***************************************************************************)
Forget(h) == handle' = [handle EXCEPT ![h].id = 0]

\* Bug: a subscription that is still being made is not cancelled later.
SubscribedLate(m) ==
    /\ handle' = [handle EXCEPT ![m.call.h].id = IF Open(m.call.h) THEN m.id ELSE 0]
    /\ UNCHANGED calls

\* The answer to subscribe(); a handle closed by now cancels what it got.
Subscribed(m) ==
    IF Open(m.call.h)
    THEN handle' = [handle EXCEPT ![m.call.h].id = m.id] /\ UNCHANGED calls
    ELSE calls' = Append(calls, UnsubCall(m.call.h, m.id, FALSE)) /\ UNCHANGED handle

\* close()
Close(h) ==
    /\ Open(h)
    /\ handle' = [handle EXCEPT ![h].closed = TRUE, ![h].id = 0]
    /\ calls' = IF handle[h].id = 0 THEN calls
                ELSE Append(calls, UnsubCall(h, handle[h].id, FALSE))
    /\ UNCHANGED << con, sent, server, inbox, nextId, used, got >>

\* Handle.reset(): doUnsubscribe(), then subscribe().
ResetHandle(h) ==
    /\ handle[h].id # 0
    /\ used < MaxFaults
    /\ used' = used + 1
    /\ Forget(h)
    /\ calls' = Append(calls, UnsubCall(h, handle[h].id, TRUE))
    /\ UNCHANGED << con, sent, server, inbox, nextId, got >>

\* Bug: only the handles that are filed subscribe again.
ResubscribersFiled == {h \in Handles : Open(h) /\ handle[h].id # 0}

\* Who subscribes again when the connection is lost: those that are filed
\* (onConnectionReset), those whose subscribe() fails with it and those that were
\* between the two calls of reset().
Resubscribers ==
    {h \in Handles : Open(h) /\ (handle[h].id # 0 \/
        \E c \in InFlight : c.h = h /\ (c.kind = "sub" \/ c.again))}

\* The client may also repeat the calls to subscribe by itself, ahead of others.
Lost ==
    \E retry \in BOOLEAN :
        LET subs  == {c \in InFlight : c.kind = "sub"}
            again == {h \in Resubscribers : ~ (retry /\ SubCall(h) \in subs)}
        IN  /\ calls' = (IF retry THEN SetToSeq(subs) ELSE << >>) \o calls \o Subscribing(again)
            /\ handle' = [h \in Handles |-> [handle[h] EXCEPT !.id = 0]]
            /\ con' = "down"
            /\ sent' = << >>
            /\ inbox' = << >>
            /\ server' = {}

\* An RpcConnectionError.
ConnectionLost ==
    /\ con = "up"
    /\ used < MaxFaults
    /\ used' = used + 1
    /\ Lost
    /\ UNCHANGED << nextId, got >>

\* Another error: who has a subscription, or has asked for one, is closed with
\* onError(); who was between the two calls of reset() subscribes.
ProtocolError ==
    LET between == {h \in Handles : Open(h) /\ \E c \in InFlight : c.h = h /\ c.again}
        asked   == {c.h : c \in {d \in InFlight : d.kind = "sub"}}
    IN  /\ con = "up"
        /\ used < MaxFaults
        /\ used' = used + 1
        /\ calls' = calls \o Subscribing(between)
        /\ handle' = [h \in Handles |->
             [closed |-> handle[h].closed \/ handle[h].id # 0 \/ h \in asked, id |-> 0]]
        /\ con' = "down"
        /\ sent' = << >>
        /\ inbox' = << >>
        /\ server' = {}
        /\ UNCHANGED << nextId, got >>

------------------------------------------------------------------------------
(***************************************************************************)
(* The client: its queue, and the messages of the server.                    *)
(***************************************************************************)
Reconnect ==
    /\ con = "down"
    /\ calls # << >>
    /\ con' = "up"
    /\ UNCHANGED << handle, calls, sent, server, inbox, nextId, used, got >>

SendCall ==
    /\ con = "up"
    /\ calls # << >>
    /\ sent' = Append(sent, Head(calls))
    /\ calls' = Tail(calls)
    /\ UNCHANGED << handle, con, server, inbox, nextId, used, got >>

\* Subscriptions.onNotification()
OnNotification(id) ==
    [h \in Handles |-> IF handle[h].id = id THEN got[h] \cup {id} ELSE got[h]]

Receive ==
    /\ inbox # << >>
    /\ LET m == Head(inbox)
       IN  CASE m.type = "note" ->
                  /\ got' = OnNotification(m.id)
                  /\ inbox' = Tail(inbox)
                  /\ UNCHANGED << handle, calls, con, sent, server >>
             [] m.type = "subscribed" ->
                  /\ Subscribed(m)
                  /\ inbox' = Tail(inbox)
                  /\ UNCHANGED << con, sent, server, got >>
             [] m.type = "refused" ->
                  /\ handle' = [handle EXCEPT ![m.call.h].closed = TRUE]
                  /\ inbox' = Tail(inbox)
                  /\ UNCHANGED << calls, con, sent, server, got >>
             [] m.type = "unsubscribed" ->
                  /\ calls' = IF m.call.again /\ Open(m.call.h)
                              THEN Append(calls, SubCall(m.call.h)) ELSE calls
                  /\ inbox' = Tail(inbox)
                  /\ UNCHANGED << handle, con, sent, server, got >>
             [] m.type = "unknown" ->   \* client.reset()
                  Lost /\ UNCHANGED got
    /\ UNCHANGED << nextId, used >>

------------------------------------------------------------------------------
(***************************************************************************)
(* The server.                                                              *)
(***************************************************************************)
ServeSub ==
    /\ sent # << >>
    /\ Head(sent).kind = "sub"
    /\ sent' = Tail(sent)
    /\ \/ /\ nextId' = nextId + 1
          /\ server' = server \cup {[id |-> nextId + 1, owner |-> Head(sent).h]}
          /\ inbox' = Append(inbox, Message("subscribed", Head(sent), nextId + 1))
          /\ UNCHANGED used
       \/ /\ used < MaxFaults
          /\ used' = used + 1
          /\ inbox' = Append(inbox, Message("refused", Head(sent), 0))
          /\ UNCHANGED << nextId, server >>
    /\ UNCHANGED << handle, calls, con, got >>

ServeUnsub ==
    /\ sent # << >>
    /\ Head(sent).kind = "unsub"
    /\ sent' = Tail(sent)
    /\ LET mine == {s \in server : s.id = Head(sent).id}
       IN  /\ server' = server \ mine
           /\ inbox' = Append(inbox, Message(IF mine = {} THEN "unknown" ELSE "unsubscribed",
                                             Head(sent), 0))
    /\ UNCHANGED << handle, calls, con, nextId, used, got >>

Notify ==
    /\ Cardinality({i \in DOMAIN inbox : inbox[i].type = "note"}) < MaxNotes
    /\ \E s \in server : inbox' = Append(inbox, Message("note", SubCall(s.owner), s.id))
    /\ UNCHANGED << handle, calls, con, sent, server, nextId, used, got >>

------------------------------------------------------------------------------
Init ==
    /\ handle = [h \in Handles |-> [closed |-> FALSE, id |-> 0]]
    /\ calls = Subscribing(Handles)
    /\ con = "down"
    /\ sent = << >>
    /\ server = {}
    /\ inbox = << >>
    /\ nextId = 0
    /\ used = 0
    /\ got = [h \in Handles |-> {}]

Next ==
    \/ \E h \in Handles : Close(h) \/ ResetHandle(h)
    \/ ConnectionLost \/ ProtocolError
    \/ Reconnect \/ SendCall \/ Receive
    \/ ServeSub \/ ServeUnsub \/ Notify

\* The client reconnects and sends what is queued, the server serves it.
Fairness ==
    /\ WF_vars(Reconnect) /\ WF_vars(SendCall) /\ WF_vars(Receive)
    /\ WF_vars(ServeSub) /\ WF_vars(ServeUnsub)

Spec == Init /\ [][Next]_vars /\ Fairness

------------------------------------------------------------------------------
Queued == ToSet(calls) \cup InFlight

\* The state; no handle has two calls to subscribe under way.
TypeOK ==
    /\ \A h \in Handles : handle[h].id \in 0..nextId
    /\ con \in {"up", "down"}
    /\ LET all == calls \o sent
       IN  \A i, j \in DOMAIN all : all[i].kind = "sub" /\ all[i] = all[j] => i = j

\* A notification is handed only to the handle whose subscription it is for, and only
\* while that is open: what other handles asked for, or earlier connections, is not.
DeliveredToOwner ==
    [][\A h \in Handles : got'[h] # got[h] =>
          /\ Open(h)
          /\ \A id \in got'[h] \ got[h] : [id |-> id, owner |-> h] \in server]_got

\* The server keeps no subscription nobody wants: each has its handle, or is about to
\* be filed, or to be cancelled.
NoOrphans ==
    \A s \in server :
        \/ handle[s.owner].id = s.id
        \/ \E i \in DOMAIN inbox : inbox[i].type = "subscribed" /\ inbox[i].id = s.id
        \/ \E c \in Queued : c.kind = "unsub" /\ c.id = s.id

\* A handle that stays open gets its subscription (back), whatever happens to the
\* connection, even in the middle of a reset().
StaysSubscribed ==
    \A h \in Handles :
        []<>(\/ handle[h].closed
             \/ \E s \in server : s.owner = h /\ s.id = handle[h].id)

\* A handle has one subscription at most, and a subscription has somebody who wants it.
SubscriptionsMatch == TypeOK /\ NoOrphans

==============================================================================
