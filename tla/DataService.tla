----------------------------- MODULE DataService -----------------------------
(***************************************************************************)
(* A data service (util/util-internal-data-service/src/data-service.ts): it  *)
(* follows a data source into its window of blocks and answers queries for   *)
(* the blocks above a given one, holding a query back until there is         *)
(* something to answer.                                                      *)
(*                                                                          *)
(* node     the blockchain node behind the source; prior is the tip it left  *)
(*          last, as an answer may still tell of                             *)
(* chain    #chain                                                           *)
(* ingest   run(): phase "session" while a stream is read, "pause" between   *)
(*          two of them, "dead" after an error that ends it; base is where   *)
(*          the session started, pos what the stream has delivered, told the *)
(*          finalized head of the session, stacked the sessions in a row     *)
(*          without progress, started is firstBlockIngested                  *)
(* client   who queries: at is the last block it has, final the finalized    *)
(*          head it was told; "waiting" clients are in listeners, "woken"    *)
(*          ones have had their future resolved                              *)
(***************************************************************************)
EXTENDS Chain

CONSTANTS
    Client,         \* who queries the service
    MaxStacked,     \* sessions without progress before a new start, 5
    VerifiedFinality, \* the source sends no block beside the finalized head it told of
    ShorterForks,   \* the node may switch to a shorter fork
    MaxReorgs,      \* bound: fork switches
    MaxErrors,      \* bound: failed sessions
    MaxIdle         \* bound: answers without news

ASSUME ServiceAssumption ==
    /\ {VerifiedFinality, ShorterForks} \subseteq BOOLEAN
    /\ {MaxStacked, MaxReorgs, MaxErrors, MaxIdle} \subseteq Nat

\* A data service asks for all blocks.
ASSUME UnfilteredAssumption ==
    \A s \in Segment :
        s.blocks = SubSeq(Path[Tip(s)], Len(Path[s.base]) + 1, Len(Path[Tip(s)]))

VARIABLES node, chain, ingest, client, used

vars == << node, chain, ingest, client, used >>

\* One of the two is on the chain of the other.
Comparable(r, t) == On(r, t) \/ On(t, r)

------------------------------------------------------------------------------
(***************************************************************************)
(* The node.                                                                *)
(***************************************************************************)
NewBlock ==
    \E b \in Block :
        /\ Parent(b) = node.tip
        /\ node' = [node EXCEPT !.tip = b]
        /\ UNCHANGED << chain, ingest, client, used >>

Reorg ==
    \E b \in Block :
        /\ used.reorgs < MaxReorgs
        /\ On(node.fin, b)
        /\ ~ Comparable(node.tip, b)
        /\ ShorterForks \/ Number[b] >= Number[node.tip]
        /\ node' = [node EXCEPT !.tip = b, !.prior = node.tip]
        /\ used' = [used EXCEPT !.reorgs = @ + 1]
        /\ UNCHANGED << chain, ingest, client >>

NodeFinalizes ==
    \E b \in Block :
        /\ Parent(b) = node.fin
        /\ On(b, node.tip)
        /\ node' = [node EXCEPT !.fin = b]
        /\ UNCHANGED << chain, ingest, client, used >>

\* The fork the node has left is forgotten by the last of its replicas.
ReplicasAgree ==
    /\ ~ On(node.prior, node.tip)
    /\ node' = [node EXCEPT !.prior = node.tip]
    /\ UNCHANGED << chain, ingest, client, used >>

------------------------------------------------------------------------------
(***************************************************************************)
(* Ingestion.                                                               *)
(***************************************************************************)
Session(in, base) ==
    [in EXCEPT !.phase = "session", !.base = base, !.pos = base, !.told = Origin]

\* Bug: nobody is woken.
NotifiedLate(ch) == client

\* notifyListeners()
Notified(ch) ==
    [c \in Client |->
        IF client[c].phase = "waiting" /\ Number[client[c].at] + 1 <= Number[LastBlock(ch)]
        THEN [client[c] EXCEPT !.phase = "woken"]
        ELSE client[c]]

\* What run() makes of the end of a session that is not a fork.
AfterFailure(in, ch) ==
    IF ~ in.started THEN [in EXCEPT !.phase = "dead"]
    ELSE [in EXCEPT !.phase = "pause",
                    !.stacked = IF Number[LastBlock(ch)] # Number[in.base] THEN 0
                                ELSE IF @ > MaxStacked THEN @ ELSE @ + 1,
                    !.base = LastBlock(ch)]

\* The finalized head of a session never goes down.
SessionFinal(in, r) == IF Number[in.told] > Number[r] THEN in.told ELSE r

\* A batch: push, finalize, compact, notify.  A failed assertion ends the session.
Ingest(blocks, r) ==
    \E pushed \in {PushAll(chain, blocks)} :
        LET told  == SessionFinal(ingest, r)
            ok    == pushed.ok /\ (told = Origin \/ FinalizeAsserts(pushed.chain, told))
            final == IF told = Origin THEN pushed.chain ELSE Finalize(pushed.chain, told)
            in    == [ingest EXCEPT !.pos = IF blocks = << >> THEN @ ELSE blocks[Len(blocks)],
                                    !.told = told,
                                    !.started = @ \/ blocks # << >>]
        IN  IF ok
            THEN /\ chain' = Compact(final)
                 /\ ingest' = in
                 /\ client' = Notified(chain')
            ELSE /\ chain' = pushed.chain
                 /\ ingest' = [AfterFailure(in, chain') EXCEPT !.fault = TRUE]
                 /\ UNCHANGED client

\* The source may send r as its finalized head with blocks up to t.
SourceFinal(r, t) ==
    /\ On(r, node.fin)
    /\ VerifiedFinality => Comparable(r, t) /\ Comparable(SessionFinal(ingest, r), t)

\* The stream delivers blocks of the node's chain, or of the one it has left.
Deliver(r) ==
    \E s \in Segment :
        /\ ingest.phase = "session"
        /\ s.base = ingest.pos
        /\ On(Tip(s), node.tip) \/ On(Tip(s), node.prior)
        /\ SourceFinal(r, Tip(s))
        /\ Ingest(s.blocks, r)
        /\ UNCHANGED << node, used >>

\* A batch without blocks: the finalized head of blocks that were delivered.
DeliverFinality(r) ==
    /\ ingest.phase = "session"
    /\ ingest.pos # ingest.base
    /\ On(r, node.fin)
    /\ On(r, ingest.pos)
    /\ Number[r] > Number[FinalizedHead(chain)]
    /\ Ingest(<< >>, r)
    /\ UNCHANGED << node, used >>

\* How many blocks of the chain of t are at or below the number of r: the last of
\* them is the parent of the next block.
UpTo(t, r) == Cardinality({i \in DOMAIN Path[t] : Number[Path[t][i]] <= Number[r]})

\* The fork report for a stream at r: n blocks.
Previous(t, r, n) ==
    LET k == UpTo(t, r)
    IN  SubSeq(Path[t], IF k > n THEN k - n + 1 ELSE 1, k)

\* run(): the next session starts at the fork base.
Forked(prev) ==
    IF ForkBases(chain, prev) = {} THEN [ingest EXCEPT !.phase = "dead"]
    ELSE Session([ingest EXCEPT !.stacked = 0], GetForkBase(chain, prev))

\* The source finds that pos is not on the chain of the node: ForkException, with
\* the parent of the next block (RPC) or a window of blocks (portal).  A portal
\* finds out without a next block, too.
StreamForks ==
    \E n \in {1, ForkWindow} :
        LET k == UpTo(node.tip, ingest.pos)
        IN  /\ ingest.phase = "session"
            /\ Path[node.tip][k] # ingest.pos
            /\ \/ k < Len(Path[node.tip])
               \/ n > 1 /\ Number[node.tip] = Number[ingest.pos]
            /\ ingest' = Forked(Previous(node.tip, ingest.pos, n))
            /\ UNCHANGED << node, chain, client, used >>

\* The stream fails or ends.
StreamFails ==
    /\ ingest.phase = "session"
    /\ used.errors < MaxErrors
    /\ used' = [used EXCEPT !.errors = @ + 1]
    /\ ingest' = AfterFailure(ingest, chain)
    /\ UNCHANGED << node, chain, client >>

\* The next round of run(): after too many sessions without progress init() starts
\* over at the finalized head of the source.
Restart ==
    /\ ingest.phase = "pause"
    /\ IF ingest.stacked > MaxStacked
       THEN /\ chain' = NewChain(node.fin)
            /\ client' = Notified(chain')
            /\ ingest' = Session(ingest, node.fin)
       ELSE /\ ingest' = Session(ingest, ingest.base)
            /\ UNCHANGED << chain, client >>
    /\ UNCHANGED << node, used >>

------------------------------------------------------------------------------
(***************************************************************************)
(* Queries.  A client asks for what is above its last block, and goes back   *)
(* to the highest block it shares with a fork report; that is what the       *)
(* consumers of a stream do.                                                 *)
(***************************************************************************)
\* The last block of own chain that is in prev; the lowest of prev's parents'
\* level when there is none.
ClientRollback(at, prev) ==
    LET shared == {i \in DOMAIN Path[at] : \E j \in DOMAIN prev : Path[at][i] = prev[j]}
        below  == {i \in DOMAIN Path[at] : Number[Path[at][i]] < Number[prev[1]]}
        goal   == IF shared # {} THEN shared ELSE below
    IN  IF goal = {} THEN Origin
        ELSE Path[at][CHOOSE i \in goal : \A j \in goal : j <= i]

\* The client takes an answer in.
Answered(c, answer) ==
    LET told == IF Number[answer.final] > Number[client[c].final]
                THEN answer.final ELSE client[c].final
    IN  CASE answer.kind = "fork" ->
                 [client[c] EXCEPT !.phase = "idle",
                                   !.at = ClientRollback(client[c].at, answer.refs)]
          [] answer.kind = "data" ->
                 [phase |-> "idle", at |-> answer.refs[Len(answer.refs)], final |-> told]
          [] OTHER ->
                 [client[c] EXCEPT !.phase = "idle", !.final = told]

\* The request starts below the window: the missing blocks come from the source's
\* finalized stream, followed by a snapshot of the window (StreamResponse.tla).
BelowAnswer(at) ==
    IF On(at, FirstBlock(chain))
    THEN [kind |-> "data", final |-> FinalizedHead(chain), refs |-> chain.blocks]
    ELSE [kind |-> "fork", final |-> Origin,
          refs |-> Previous(node.fin, at, 1)]

\* query(): answered at once, or kept waiting when there is nothing to send.
AskQuery(c) ==
    LET at     == client[c].at
        answer == IF Number[at] + 1 <= Number[Parent(FirstBlock(chain))]
                  THEN BelowAnswer(at) ELSE Query(chain, at)
    IN  /\ client[c].phase = "idle"
        /\ client' = [client EXCEPT ![c] =
               IF answer.kind = "nodata" THEN [@ EXCEPT !.phase = "waiting"]
               ELSE Answered(c, answer)]
        /\ UNCHANGED << node, chain, ingest, used >>

\* waitForBlock() is over: the chain is queried again.
Answer(c) ==
    /\ client[c].phase = "woken"
    /\ client' = [client EXCEPT ![c] = Answered(c, Query(chain, client[c].at))]
    /\ UNCHANGED << node, chain, ingest, used >>

\* ... after 5 seconds at the latest.
Timeout(c) ==
    LET answered == Answered(c, Query(chain, client[c].at))
        news     == answered # [client[c] EXCEPT !.phase = "idle"]
    IN  /\ client[c].phase = "waiting"
        /\ news \/ used.idle < MaxIdle
        /\ used' = [used EXCEPT !.idle = IF news THEN @ ELSE @ + 1]
        /\ client' = [client EXCEPT ![c] = answered]
        /\ UNCHANGED << node, chain, ingest >>

------------------------------------------------------------------------------
\* init(): the window starts with the finalized block of the source.
Init ==
    \E b \in Block :
        /\ Height(b) = 0
        /\ node = [tip |-> b, fin |-> b, prior |-> b]
        /\ chain = NewChain(b)
        /\ ingest = [phase |-> "session", base |-> b, pos |-> b, told |-> Origin,
                     stacked |-> 0, started |-> FALSE, fault |-> FALSE]
        /\ client = [c \in Client |-> [phase |-> "idle", at |-> b, final |-> b]]
        /\ used = [reorgs |-> 0, errors |-> 0, idle |-> 0]

Next ==
    \/ NewBlock
    \/ Reorg
    \/ NodeFinalizes
    \/ ReplicasAgree
    \/ \E r \in Ref : Deliver(r) \/ DeliverFinality(r)
    \/ StreamForks
    \/ StreamFails
    \/ Restart
    \/ \E c \in Client : AskQuery(c) \/ Answer(c) \/ Timeout(c)

\* The source is polled, clients keep asking, timers fire, the replicas of the node
\* come to agree.  Among the batches are fresh ones with the latest finalized head.
Fairness ==
    /\ WF_vars(ReplicasAgree)
    /\ WF_vars(Deliver(node.fin) \/ DeliverFinality(node.fin) \/ StreamForks \/ Restart)
    /\ \A c \in Client : WF_vars(AskQuery(c) \/ Answer(c) \/ Timeout(c))

Spec == Init /\ [][Next]_vars /\ Fairness

------------------------------------------------------------------------------
\* Types: the window of the service with its finalized block inside it, the sessions and
\* the clients.
TypeOK ==
    /\ node \in [tip : Block, fin : Block, prior : Block]
    /\ chain.fin \in DOMAIN chain.blocks
    /\ \A i \in DOMAIN chain.blocks : chain.blocks[i] \in Block
    /\ ingest \in [phase : {"session", "pause", "dead"}, base : Block, pos : Block,
                   told : Ref, stacked : 0..(MaxStacked + 1), started : BOOLEAN,
                   fault : BOOLEAN]
    /\ client \in [Client -> [phase : {"idle", "waiting", "woken"}, at : Ref,
                              final : Ref]]

\* The window is always one chain, each block the parent of the next one, through
\* forks, restarts and trimming.
WindowIsChain ==
    \A i \in 2..Len(chain.blocks) : Parent(chain.blocks[i]) = chain.blocks[i - 1]

\* The block the service calls finalized is final for the node, although a head
\* above the window finalizes all of it unseen.
FinalizedIsFinal == On(FinalizedHead(chain), node.fin)

\* run() survives: no assertion of push() or finalize() fails, and no fork is taken
\* for a "rollback behind finalized head".
IngestSurvives == ~ ingest.fault /\ (ingest.started => ingest.phase # "dead")

\* The window outgrows its size only by blocks that are not final.
WindowBounded == Len(chain.blocks) > MaxSize => chain.fin = 1

\* No query waits for a block that is there.
NoMissedBlock ==
    \A c \in Client :
        client[c].phase = "waiting" => Number[client[c].at] + 1 > Number[LastBlock(chain)]

\* What clients are sent continues what they have: a data answer is built on their
\* last block and a fork report takes them down their own chain, whatever happened
\* to the window between the request and the answer.
AnswersContinue ==
    [][\A c \in Client : Comparable(client[c].at, client'[c].at)]_vars

\* The finalized head of the service only moves up its own chain, although every
\* session starts without one and takes the first that is reported.
FinalityMovesUp ==
    [][On(FinalizedHead(chain), FinalizedHead(chain'))]_vars

\* "attempt to finalize a block, that is not part of the current chain": what a
\* consumer is told to be final is on the chain it was sent.
ToldFinalityFits == \A c \in Client : On(client[c].final, client[c].at)

\* A client that keeps asking gets to the tip of a quiet node and stays there,
\* through the forks and restarts of the service.  A node that fell back to a shorter
\* fork has nothing to say until it has grown again.
ClientsCatchUp ==
    <>[](\/ ingest.phase = "dead"
         \/ Number[node.tip] < Number[ingest.pos]
         \/ \A c \in Client : client[c].at = node.tip)

\* The window is one chain, trimmed as far as it may be, its finalized block is final, and
\* whatever the source does, ingestion goes on.
WindowIsSound == TypeOK /\ WindowIsChain /\ WindowBounded /\ FinalizedIsFinal /\ IngestSurvives

(***************************************************************************)
(* What ties the stream, the window and the node together between any two    *)
(* steps.                                                                   *)
(***************************************************************************)
\* A window: the last blocks of a chain, some of them final.
IsWindow(ch) ==
    LET path == Path[LastBlock(ch)]
    IN  /\ ch \in [blocks : Seq(Block), fin : Nat]
        /\ ch.fin \in 1..Len(ch.blocks)
        /\ Len(ch.blocks) <= Len(path)
        /\ \A i \in 1..Len(ch.blocks) : ch.blocks[i] = path[Len(path) - Len(ch.blocks) + i]

\* The stream continues a block of the window that may still be rolled back to, and the
\* last one as soon as it has delivered; it was told of finality of its own chain.  After
\* a failure the next one starts at the end of the window.
SessionFits ==
    /\ ingest.phase = "session" =>
           /\ \E i \in chain.fin..Len(chain.blocks) : chain.blocks[i] = ingest.pos
           /\ ingest.pos # ingest.base => ingest.pos = LastBlock(chain)
           /\ On(ingest.told, node.fin)
           /\ Comparable(ingest.told, ingest.pos)
    /\ ingest.phase = "pause" => ingest.base = LastBlock(chain)

ServiceInv ==
    /\ TypeOK
    /\ IsWindow(chain)
    /\ WindowBounded
    /\ On(node.fin, node.tip)
    /\ FinalizedIsFinal
    /\ IngestSurvives
    /\ SessionFits
    /\ NoMissedBlock

==============================================================================
