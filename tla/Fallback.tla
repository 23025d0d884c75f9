------------------------------- MODULE Fallback -------------------------------
(***************************************************************************)
(* FallbackDataSource: one block stream made of a ranked list of sources.    *)
(* The supervisor drives the source of the lowest rank that is not           *)
(* unhealthy, leaves it on an error, on silence or on lag, and goes back up  *)
(* when a better source has recovered.  Head polls and capability probes of  *)
(* the other sources settle at any time; a source may hang for good while    *)
(* its head can still be polled (the sources in `mute`).                     *)
(* Times are left open: a clock, a cooldown or a cache may run out at any    *)
(* step.  Metrics, causes and logs are left out.                             *)
(***************************************************************************)
EXTENDS Integers, Sequences, FiniteSets, FiniteSetsExt, SequencesExt

CONSTANTS
    Ranks,              \* the number of sources; 1 is the most preferred
    Probed,             \* the sources with a capability probe
    To,                 \* the last block of the requested range, which begins at 1
    FailThreshold,      \* policy.livenessFailThreshold
    RecoverThreshold,   \* policy.livenessRecoverThreshold
    MaxLag,             \* policy.maxLagBlocks
    LongProbes,         \* whether a probe may outlast cooldownMs
    MaxUpsets           \* bound: failed polls, probes, streams and empty batches

Source == 1..Ranks

FallbackAssumption ==
    /\ Ranks \in Nat \ {0} /\ To \in Nat \ {0}
    /\ Probed \subseteq Source
    /\ {FailThreshold, RecoverThreshold} \subseteq Nat \ {0}
    /\ {MaxLag, MaxUpsets} \subseteq Nat
    /\ LongProbes \in BOOLEAN

VARIABLES
    mute,       \* the sources whose streams deliver nothing
    height,     \* the head of each source
    health,     \* SourceHealth of each source, with its probe in flight
    cache,      \* #headCache: a head, NoHead after a failure, or Expired
    answers,    \* what Promise.all() has got so far of the heads being polled
    phase,      \* where runStream() is
    active,     \* the source it drives
    next,       \* the outcome of iterator.next()
    position,   \* lastNumber
    armed,      \* #lagArmed
    eager,      \* policy.preferPrimary = 'eager'
    got,        \* the blocks the consumer was given
    upsets

sources == << mute, height >>
vars == << mute, height, health, cache, answers, phase, active, next,
           position, armed, eager, got, upsets >>

Expired == -3
Waiting == -2
NoHead == -1

------------------------------------------------------------------------------
(* SourceHealth.  `probe` is the capability probe in flight, "old" if it began *)
(* before the last failure; `proven` tells whether the source has served its   *)
(* query since then.                                                           *)

Unknown(s) ==
    [state |-> "unknown", pass |-> 0, fail |-> 0, capabilityOk |-> s \notin Probed,
     probe |-> "none", proven |-> s \notin Probed]

ToUnhealthy(s, h) ==
    [h EXCEPT !.state = "unhealthy", !.pass = 0, !.fail = 0,
              !.capabilityOk = s \notin Probed,
              !.probe = IF @ = "none" THEN @ ELSE "old",
              !.proven = s \notin Probed]

MaybeHealthy(h) ==
    IF h.capabilityOk /\ h.pass >= RecoverThreshold THEN [h EXCEPT !.state = "healthy"] ELSE h

OnLivenessPass(h) ==
    IF h.state = "unhealthy" THEN h
    ELSE MaybeHealthy([h EXCEPT !.fail = 0, !.pass = Min({@ + 1, RecoverThreshold})])

OnLivenessFail(s, h) ==
    IF h.state = "unhealthy" THEN h
    ELSE IF h.fail + 1 >= FailThreshold THEN ToUnhealthy(s, h)
    ELSE [h EXCEPT !.pass = 0, !.fail = @ + 1]

OnCapable(h, fresh) ==
    IF h.state = "unhealthy" THEN h
    ELSE MaybeHealthy([h EXCEPT !.capabilityOk = TRUE, !.proven = @ \/ fresh])

OnIncapable(s, h) == IF h.state = "unhealthy" THEN h ELSE ToUnhealthy(s, h)

MaybeProbeCapability(s, h) ==
    IF s \in Probed /\ ~ h.capabilityOk /\ h.probe = "none" THEN [h EXCEPT !.probe = "fresh"] ELSE h

Eligible(s) == health[s].state # "unhealthy"

\* Selector.pickForFailover()
Picked(s) == Eligible(s) /\ \A t \in 1..(s - 1) : ~ Eligible(t)

\* Selector.pickSwitchUp()
SwitchUp == \E s \in 1..(active - 1) : health[s].state = "healthy"

FailActive == health' = [health EXCEPT ![active] = ToUnhealthy(active, @)]

Upset == upsets < MaxUpsets /\ upsets' = upsets + 1

------------------------------------------------------------------------------
(* Polling heads: getCachedHead() of several sources at once. *)

NoAnswers == [s \in Source |-> NoHead]

\* The entries of `old` are older than headTtlMs.
Poll(S, old) ==
    /\ answers' = [s \in Source |-> IF s \notin S THEN NoHead
                                   ELSE IF s \in old \/ cache[s] = Expired THEN Waiting
                                   ELSE cache[s]]
    /\ cache' = [s \in Source |-> IF s \in old THEN Expired ELSE cache[s]]

Others == {s \in Source \ {active} : Eligible(s)}

Answered == \A s \in Source : answers[s] # Waiting

\* The highest head of the other sources, NoHead if there is none.
ChainHeadOthers == Max({answers[s] : s \in Source})

PollPasses(s) ==
    /\ answers[s] = Waiting
    /\ answers' = [answers EXCEPT ![s] = height[s]]
    /\ cache' = [cache EXCEPT ![s] = height[s]]
    /\ health' = [health EXCEPT ![s] = MaybeProbeCapability(s, OnLivenessPass(@))]
    /\ UNCHANGED << sources, phase, active, next, position, armed, eager, got, upsets >>

\* An error, or headPollTimeoutMs.
PollFails(s) ==
    /\ answers[s] = Waiting
    /\ Upset
    /\ answers' = [answers EXCEPT ![s] = NoHead]
    /\ cache' = [cache EXCEPT ![s] = NoHead]
    /\ health' = [health EXCEPT ![s] = OnLivenessFail(s, @)]
    /\ UNCHANGED << sources, phase, active, next, position, armed, eager, got >>

\* A capability probe reads one block of the source's stream.
ProbeSettles(s) ==
    /\ health[s].probe # "none"
    /\ \/ /\ s \notin mute
          /\ health' = [health EXCEPT ![s] =
                            [OnCapable(@, @.probe = "fresh") EXCEPT !.probe = "none"]]
          /\ UNCHANGED upsets
       \/ /\ IF s \in mute THEN UNCHANGED upsets ELSE Upset
          /\ health' = [health EXCEPT ![s] = [OnIncapable(s, @) EXCEPT !.probe = "none"]]
    /\ UNCHANGED << sources, cache, answers, phase, active, next, position, armed,
                    eager, got >>

\* cooldownMs is over; the next look at `state` finds the source unknown.  A source is
\* picked right after another has failed: no time passes between, unless all are down.
CooldownEnds(s) ==
    /\ health[s].state = "unhealthy"
    /\ phase = "select" => \A t \in Source : ~ Eligible(t)
    /\ LongProbes \/ health[s].probe # "old"
    /\ health' = [health EXCEPT ![s].state = "unknown"]
    /\ UNCHANGED << sources, cache, answers, phase, active, next, position, armed,
                    eager, got, upsets >>

\* getHead() and getFinalizedHead() ask the picked source, and try again after a failure.
DelegateHead(s) ==
    /\ Picked(s)
    /\ \/ /\ health' = [health EXCEPT ![s] = OnLivenessPass(@)]
          /\ UNCHANGED upsets
       \/ /\ Upset
          /\ health' = [health EXCEPT ![s] = OnLivenessFail(s, @)]
    /\ UNCHANGED << sources, cache, answers, phase, active, next, position, armed, eager, got >>

------------------------------------------------------------------------------
(* runStream() *)

Pending == [type |-> "pending", blocks |-> << >>]

\* A batch of the blocks up to number n.
Batch(n) == [type |-> "batch", blocks |-> [i \in 1..(n - position) |-> position + i]]

\* selectActive() yields a source, and its stream is opened behind the last block
\* that was processed.
Select ==
    /\ phase = "select"
    /\ \E s \in Source : Picked(s) /\ active' = s
    /\ phase' = "next"
    /\ next' = Pending
    /\ UNCHANGED << sources, health, cache, answers, position, armed, eager, got, upsets >>

\* All sources are down for allDownTimeoutMs: AllSourcesDownError.
GiveUp ==
    /\ phase = "select"
    /\ \A s \in Source : ~ Eligible(s)
    /\ phase' = "down"
    /\ UNCHANGED << sources, health, cache, answers, active, next, position, armed,
                    eager, got, upsets >>

Outstanding == phase \in {"next", "stale"} /\ next = Pending /\ active \notin mute

\* Bug: the position moves on with the batch that arrives, whether it is used or not.
DeliverEagerly ==
    /\ Outstanding
    /\ \E n \in position..Min({height[active], To}) :
        /\ IF n = position THEN Upset ELSE UNCHANGED upsets
        /\ next' = Batch(n)
        /\ position' = n
    /\ UNCHANGED << sources, health, cache, answers, phase, active, armed, eager, got >>

\* A batch arrives, also while the heads of the other sources are being polled; it may
\* bring no more than a new finalized head.
Deliver ==
    /\ Outstanding
    /\ \E n \in position..Min({height[active], To}) :
        /\ IF n = position THEN Upset ELSE UNCHANGED upsets
        /\ next' = Batch(n)
    /\ UNCHANGED << sources, health, cache, answers, phase, active, position, armed,
                    eager, got >>

\* The stream ends, fails, or reports a fork.
StreamStops ==
    /\ Outstanding
    /\ \/ position = To /\ next' = [Pending EXCEPT !.type = "done"] /\ UNCHANGED upsets
       \/ Upset /\ \E type \in {"error", "fork"} : next' = [Pending EXCEPT !.type = type]
    /\ UNCHANGED << sources, health, cache, answers, phase, active, position, armed,
                    eager, got >>

TakeBatch ==
    /\ phase = "next" /\ next.type = "batch"
    /\ health' = [health EXCEPT ![active] = OnCapable(OnLivenessPass(@), TRUE)]
    /\ got' = got \o next.blocks
    /\ phase' = "yielded"
    /\ UNCHANGED << sources, cache, answers, active, next, position, armed, eager, upsets >>

TakeStop ==
    /\ phase = "next"
    /\ \/ next.type = "done" /\ phase' = "done" /\ UNCHANGED health
       \/ next.type = "fork" /\ phase' = "forked" /\ UNCHANGED health
       \/ next.type = "error" /\ phase' = "select" /\ FailActive
    /\ next' = Pending
    /\ UNCHANGED << sources, cache, answers, active, position, armed, eager, got, upsets >>

\* iterator.next() has been pending for maxStalenessMs, longer than heads are cached: look
\* at the other sources.  A source that has something to say is seldom that slow.
StalenessTick ==
    /\ phase = "next" /\ next = Pending
    /\ IF active \notin mute /\ (height[active] > position \/ position = To)
         THEN Upset ELSE UNCHANGED upsets
    /\ Poll(Others, Source)
    /\ phase' = "stale"
    /\ UNCHANGED << sources, health, active, next, position, armed, eager, got >>

\* Bug: the silent source is left, but not marked.
StalenessCheckedLenient ==
    /\ phase = "stale" /\ Answered
    /\ IF ChainHeadOthers > position
         THEN phase' = "select" /\ next' = Pending
         ELSE phase' = "next" /\ UNCHANGED next
    /\ answers' = NoAnswers
    /\ UNCHANGED << sources, health, cache, active, position, armed, eager, got, upsets >>

\* Leave a silent source if another is ahead of it, hold it otherwise.
StalenessChecked ==
    /\ phase = "stale" /\ Answered
    /\ IF ChainHeadOthers > position
         THEN FailActive /\ phase' = "select" /\ next' = Pending
         ELSE phase' = "next" /\ UNCHANGED << health, next >>
    /\ answers' = NoAnswers
    /\ UNCHANGED << sources, cache, active, position, armed, eager, got, upsets >>

\* The consumer asks for more: only now is its batch behind it.
Resume ==
    /\ phase = "yielded"
    /\ position' = IF next.blocks = << >> THEN position ELSE Last(next.blocks)
    /\ next' = Pending
    /\ \E old \in SUBSET Source : Poll(Others, old)
    /\ phase' = "lag"
    /\ UNCHANGED << sources, health, active, armed, eager, got, upsets >>

Leave ==
    /\ phase = "yielded"
    /\ phase' = "left"
    /\ next' = Pending
    /\ UNCHANGED << sources, health, cache, answers, active, position, armed, eager, got, upsets >>

\* laggingTooFar(); if not, and if switching up is wanted, the better sources are polled.
LagChecked ==
    /\ phase = "lag" /\ Answered
    /\ LET others == ChainHeadOthers
           lag == others - position
       IN /\ armed' = (armed \/ (others # NoHead /\ lag \in 0..MaxLag))
          /\ IF armed' /\ others # NoHead /\ lag > MaxLag
               THEN FailActive /\ phase' = "select" /\ Poll({}, {})
               ELSE /\ UNCHANGED health
                    /\ IF eager
                         THEN phase' = "up" /\ Poll({s \in Others : s < active}, {})
                         ELSE phase' = "next" /\ Poll({}, {})
    /\ UNCHANGED << sources, active, next, position, eager, got, upsets >>

\* A better source that is healthy is taken at the boundary of a batch.
SwitchUpChecked ==
    /\ phase = "up" /\ Answered
    /\ phase' = IF SwitchUp THEN "select" ELSE "next"
    /\ answers' = NoAnswers
    /\ UNCHANGED << sources, health, cache, active, next, position, armed, eager, got, upsets >>

\* A source sees a new block.
NewBlock(s) ==
    /\ height[s] < To
    /\ height' = [height EXCEPT ![s] = @ + 1]
    /\ UNCHANGED << mute, health, cache, answers, phase, active, next, position, armed,
                    eager, got, upsets >>

Init ==
    /\ mute \in (SUBSET Source) \ {Source}
    /\ height = [s \in Source |-> 1]
    /\ health = [s \in Source |-> Unknown(s)]
    /\ cache = [s \in Source |-> Expired]
    /\ answers = NoAnswers
    /\ phase = "select"
    /\ active = 1
    /\ next = Pending
    /\ position = 0
    /\ armed = FALSE
    /\ eager \in BOOLEAN
    /\ got = << >>
    /\ upsets = 0

\* The steps of runStream() that are the supervisor's own.
Supervise ==
    \/ Select \/ TakeBatch \/ TakeStop \/ StalenessTick \/ StalenessChecked
    \/ Resume \/ LagChecked \/ SwitchUpChecked

Ended == {"down", "done", "forked", "left"}

Running == phase \notin Ended

Next ==
    /\ Running
    /\ \/ Supervise \/ GiveUp \/ Leave
       \/ Deliver \/ StreamStops
       \/ \E s \in Source :
           \/ PollPasses(s) \/ PollFails(s) \/ ProbeSettles(s)
           \/ CooldownEnds(s) \/ DelegateHead(s) \/ NewBlock(s)

\* Timers fire, promises settle, and the chain of a source that is not mute grows.
Fairness ==
    /\ WF_vars(Supervise) /\ WF_vars(Deliver)
    /\ \A s \in Source :
        /\ WF_vars(Running /\ PollPasses(s))
        /\ WF_vars(Running /\ ProbeSettles(s))
        /\ WF_vars(Running /\ CooldownEnds(s))
        /\ WF_vars(Running /\ s \notin mute /\ NewBlock(s))

Spec == Init /\ [][Next]_vars /\ Fairness

------------------------------------------------------------------------------
\* The types of the state.
TypeOK ==
    /\ mute \subseteq Source /\ mute # Source
    /\ health \in [Source -> [state : {"unknown", "healthy", "unhealthy"},
                              pass : 0..RecoverThreshold, fail : 0..(FailThreshold - 1),
                              capabilityOk : BOOLEAN, probe : {"none", "fresh", "old"},
                              proven : BOOLEAN]]
    /\ phase \in {"select", "next", "stale", "yielded", "lag", "up"} \cup Ended
    /\ active \in Source /\ position \in 0..To

\* However the stream is handed from source to source (fallback.ts:161-229), also while
\* a batch of the source that is left arrives late, the consumer gets every block once
\* and in order.
OneStream == got = [i \in 1..Len(got) |-> i]

\* A source with a capability probe that has failed is healthy again only after it has
\* served its query since: "it can never return to `healthy` until a fresh probe
\* succeeds" (health.ts:15-17).
HealthyIsProven == \A s \in Source : health[s].state = "healthy" => health[s].proven

\* As long as one source works, the consumer gets its blocks: a source that is silent is
\* left ("another source advances past us ... fail over to it", fallback.ts:464-465).
WorkingSourceServes == <>(Len(got) = To \/ phase \in {"down", "forked", "left"})

==============================================================================
