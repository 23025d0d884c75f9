------------------------------ MODULE RateMeter ------------------------------
(***************************************************************************)
(* The rate limit of the RPC client: RateMeter (util/rpc-client/src/rate.ts)*)
(* counts requests in a ring of time slots, and                             *)
(* performRateLimitedScheduling() (client.ts) sends while the rate it       *)
(* reports is below the limit.                                               *)
(*                                                                          *)
(* window  the ring; slot t is kept at t % Length                            *)
(* time    the last slot something was counted in                            *)
(* now     the slot of the clock, which may be set back                      *)
(* sent    how many requests were sent in each slot, as the clock was seen   *)
(***************************************************************************)
EXTENDS Integers, FiniteSets

CONSTANTS
    WindowSize,     \* windowSize
    RateLimit,      \* rateLimit, in requests per window
    MaxBatch,       \* maxBatchCallSize
    MaxTime         \* bound: on the clock

RateAssumption ==
    /\ {WindowSize, RateLimit, MaxBatch} \subseteq Nat \ {0}
    /\ MaxTime \in Nat /\ MaxTime > WindowSize + 1

VARIABLES window, time, now, sent

vars == << window, time, now, sent >>

Length == WindowSize + 1

Later(t) == IF t > time THEN t ELSE time

\* inc(): the slots since the last one counted in are cleared, or all of them.
Inc(count, t) ==
    LET at    == Later(t)
        stale == IF time > at - Length THEN {s % Length : s \in (time + 1)..at}
                                       ELSE 0..(Length - 1)
    IN  /\ window' = [i \in 0..(Length - 1) |->
                        (IF i \in stale THEN 0 ELSE window[i])
                            + (IF i = at % Length THEN count ELSE 0)]
        /\ time' = at

\* One element for each of the f[s] requests counted in the slots s of S.
Requests(f, S) == UNION {{s} \X (1..f[s]) : s \in S}

\* getRate()
GetRate(t) ==
    LET slots == (Later(t) - Length + 1)..time
    IN  Cardinality(Requests([s \in slots |-> window[s % Length]], slots))

\* Bug: the limit itself is no reason to stop.
SendAtLimit(size) ==
    /\ RateLimit - GetRate(now) >= 0
    /\ Inc(size, now)
    /\ sent' = [sent EXCEPT ![Later(now)] = @ + size]
    /\ UNCHANGED now

\* One turn of the loop of performRateLimitedScheduling().
Send(size) ==
    /\ RateLimit - GetRate(now) > 0
    /\ Inc(size, now)
    /\ sent' = [sent EXCEPT ![Later(now)] = @ + size]
    /\ UNCHANGED now

\* The clock goes on, or is set back.
Tick ==
    /\ now' \in (Length + 1)..MaxTime
    /\ now' # now
    /\ UNCHANGED << window, time, sent >>

Init ==
    /\ window = [i \in 0..(Length - 1) |-> 0]
    /\ time = 0
    /\ now = Length + 1
    /\ sent = [t \in 0..MaxTime |-> 0]

Next == Tick \/ \E size \in 1..MaxBatch : Send(size)

Spec == Init /\ [][Next]_vars

------------------------------------------------------------------------------
SentIn(S) == Cardinality(Requests(sent, S))

\* The ring holds the slots up to the last one counted in.
TypeOK ==
    /\ \A i \in 0..(Length - 1) : window[i] \in Nat
    /\ time \in 0..MaxTime
    /\ \A t \in 0..MaxTime : t > time => sent[t] = 0

\* getRate() reports exactly what was sent in the last Length slots, whatever slots
\* were skipped and however the clock moved.
MeterExact == GetRate(now) = SentIn((Later(now) - Length + 1)..Later(now))

\* In no Length slots in a row are more requests sent than the limit and one batch.
RateBounded ==
    \A t \in Length..MaxTime : SentIn((t - Length + 1)..t) <= RateLimit + MaxBatch - 1

\* The meter counts what was sent in its window, and so the rate is kept.
RateIsKept == TypeOK /\ MeterExact /\ RateBounded

==============================================================================
