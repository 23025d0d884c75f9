------------------------------- MODULE Runner -------------------------------
(***************************************************************************)
(* The runner of the older processors                                       *)
(* (util/util-internal-processor-tools/src/runner.ts) with the data sources  *)
(* it drives: an archive and an EVM node, read cold by coldIngest() and      *)
(* archiveIngest() (util/util-internal-ingest-tools) and hot by HotProcessor *)
(* (evm/evm-processor/src/ds-rpc/client.ts).                                 *)
(*                                                                          *)
(* node     the node: tip, fin, the highest block that is Confirmations deep *)
(*          and will not be reorganised away, arch, the archive's height,    *)
(*          and news, a head that subscribers are still to be told of        *)
(* db       the database: final, head and mapped, what the handlers have     *)
(*          written; as in the module TypeormDatabase, a transaction that    *)
(*          finalizes rolls hot blocks back first                            *)
(* phase    "down", "connected", "archive", "rpc" (the archive is done),     *)
(*          "cold", "advance", "hot"; the requested range has no end         *)
(* state    the runner's view of the database; the chain of HotProcessor     *)
(* cold     the stream of finalized blocks: from, the first that is not      *)
(*          committed, beg, the next to read, top, the height it has seen,   *)
(*          and min, minimumCommitHeight                                     *)
(* target   chainFinalizedHeight                                             *)
(* heads    the head loop: polling (no web socket), prev, the last head       *)
(*          taken up, queue, the head that waits                             *)
(* goto     the call to goto() under way: from, to, and the finalized height *)
(* used     crashes, reorganisations and failed requests so far              *)
(* broken   an assertion failed                                              *)
(***************************************************************************)
EXTENDS HotProcessor

CONSTANTS
    From,           \* the first block that is requested
    Confirmations,  \* finalityConfirmation
    BatchSize,      \* splitSize, and the strides of getBlockRange()
    Lagging,        \* the node's replicas may report a height that is behind
    MaxReorgs, MaxCrashes, MaxErrors   \* bounds; of failed requests for hot blocks

ASSUME RunnerAssumption ==
    /\ {From, MaxReorgs, MaxCrashes, MaxErrors} \subseteq Nat
    /\ {Confirmations, BatchSize} \subseteq Nat \ {0}
    /\ Lagging \in BOOLEAN
    /\ \A b \in Relevant : Height(b) >= From

VARIABLES node, db, phase, state, cold, target, heads, goto, used, broken

vars == << node, db, phase, state, cold, target, heads, goto, used, broken >>

runVars == << phase, state, cold, target, heads, goto >>

Max2(a, b) == IF a < b THEN b ELSE a
Min2(a, b) == IF a < b THEN a ELSE b

Slice(t, from, to) == SubSeq(Path[t], Max2(from, 0) + 1, to + 1)

\* What is left of the mapped blocks when those above h are rolled back.
UpToHeight(s, h) ==
    SubSeq(s, 1, CHOOSE n \in 0..Len(s) :
                     /\ \A i \in 1..n : Height(s[i]) <= h
                     /\ n < Len(s) => Height(s[n + 1]) > h)

NoGoto == [from |-> 0, to |-> -1, fin |-> 0, hash |-> Origin, failed |-> FALSE]
NoHeads(polling) == [polling |-> polling, prev |-> -1, queue |-> Origin]
NoCold == [from |-> 0, beg |-> 0, top |-> -1, min |-> -1]

------------------------------------------------------------------------------
(***************************************************************************)
(* The node and the archive.                                                 *)
(***************************************************************************)
Moved(b) ==
    LET deep == At(b, Max2(0, Height(b) - Confirmations))
    IN  [node EXCEPT !.tip = b, !.news = (phase = "hot"),
                     !.fin = IF Height(deep) > Height(node.fin) THEN deep ELSE node.fin]

NewBlock ==
    \E b \in Block :
        /\ Parent(b) = node.tip
        /\ node' = Moved(b)
        /\ UNCHANGED << db, runVars, used, broken >>

Reorg ==
    \E b \in Block :
        /\ used.reorgs < MaxReorgs
        /\ On(node.fin, b) /\ ~ On(node.tip, b) /\ ~ On(b, node.tip)
        /\ Height(b) >= Height(node.tip)
        /\ node' = Moved(b)
        /\ used' = [used EXCEPT !.reorgs = @ + 1]
        /\ UNCHANGED << db, runVars, broken >>

ArchiveGrows ==
    /\ node.arch < Height(node.fin)
    /\ node' = [node EXCEPT !.arch = @ + 1]
    /\ UNCHANGED << db, runVars, used, broken >>

\* getFinalizedHeight()
FinalizedHeights ==
    {Max2(0, h - Confirmations) :
        h \in IF Lagging THEN 0..Height(node.tip) ELSE {Height(node.tip)}}

------------------------------------------------------------------------------
(***************************************************************************)
(* The database.                                                            *)
(***************************************************************************)
\* transact(): finalized blocks on top of the last finalized one.
Transact(blocks, next) ==
    db' = [final |-> next, head |-> next,
           mapped |-> UpToHeight(db.mapped, Height(db.final)) \o blocks]

\* transactHot2(): the blocks above base are replaced.
TransactHot(base, chain) ==
    db' = [final |-> chain.final, head |-> chain.head,
           mapped |-> UpToHeight(db.mapped, Height(base))
                        \o Slice(chain.head, Max2(From, Height(base) + 1), Height(chain.head))]

------------------------------------------------------------------------------
(***************************************************************************)
(* Finalized blocks.                                                        *)
(***************************************************************************)
NextRequested == Max2(From, Height(state.final) + 1)

ColdStart ==
    [from |-> NextRequested, beg |-> NextRequested, top |-> -1, min |-> Height(state.head)]

Connect ==
    /\ phase = "down"
    /\ phase' = "connected"
    /\ state' = [final |-> db.final, head |-> db.head]
    /\ UNCHANGED << node, db, cold, target, heads, goto, used, broken >>

\* The archive is used when it is ahead.
StartArchive ==
    /\ phase = "connected"
    /\ IF node.arch > Height(state.head)
       THEN phase' = "archive" /\ cold' = ColdStart
       ELSE phase' = "rpc" /\ UNCHANGED cold
    /\ UNCHANGED << node, db, state, target, heads, goto, used, broken >>

\* height.get() of the streams: what the source last said, or says now.
ReadTop ==
    /\ phase \in {"archive", "cold"}
    /\ cold.top < cold.beg
    /\ \E top \in IF phase = "archive" THEN {node.arch} ELSE FinalizedHeights :
          /\ top >= cold.beg
          /\ cold' = [cold EXCEPT !.top = top]
    /\ UNCHANGED << node, db, phase, state, target, heads, goto, used, broken >>

\* Bug: a batch that ends below the hot blocks is dropped, not kept for the next.
FinalBatchDropped ==
    \E to \in cold.beg..Min2(cold.top, cold.beg + BatchSize - 1) :
        LET last == At(node.fin, to)
        IN  /\ phase \in {"archive", "cold"}
            /\ IF to < cold.min
               THEN cold' = [cold EXCEPT !.beg = to + 1, !.from = to + 1] /\ UNCHANGED << db, state >>
               ELSE /\ Transact(Slice(node.fin, cold.from, to), last)
                    /\ state' = [final |-> last, head |-> last]
                    /\ cold' = [cold EXCEPT !.from = to + 1, !.beg = to + 1]
            /\ UNCHANGED << node, phase, target, heads, goto, used, broken >>

\* Bug: every batch is committed.
FinalBatchEager ==
    \E to \in cold.beg..Min2(cold.top, cold.beg + BatchSize - 1) :
        LET last == At(node.fin, to)
        IN  /\ phase \in {"archive", "cold"}
            /\ Transact(Slice(node.fin, cold.from, to), last)
            /\ state' = [final |-> last, head |-> last]
            /\ cold' = [cold EXCEPT !.from = to + 1, !.beg = to + 1]
            /\ UNCHANGED << node, phase, target, heads, goto, used, broken >>

\* processFinalizedBlocks(): a batch is kept until it ends above the hot blocks,
\* then committed by handleFinalizedBlocks().
FinalBatch ==
    \E to \in cold.beg..Min2(cold.top, cold.beg + BatchSize - 1) :
        LET last == At(node.fin, to)
        IN  /\ phase \in {"archive", "cold"}
            /\ IF to < cold.min
               THEN cold' = [cold EXCEPT !.beg = to + 1] /\ UNCHANGED << db, state >>
               ELSE /\ Transact(Slice(node.fin, cold.from, to), last)
                    /\ state' = [final |-> last, head |-> last]
                    /\ cold' = [cold EXCEPT !.from = to + 1, !.beg = to + 1]
            /\ UNCHANGED << node, phase, target, heads, goto, used, broken >>

\* Bug: the last finalized block is not waited for.
FinalEndsEarly ==
    /\ phase \in {"archive", "cold"}
    /\ cold.top <= cold.beg
    /\ \E top \in IF phase = "archive" THEN {node.arch} ELSE FinalizedHeights : top <= cold.beg
    /\ IF cold.from < cold.beg
       THEN LET last == At(node.fin, cold.beg - 1)
            IN  /\ Transact(Slice(node.fin, cold.from, cold.beg - 1), last)
                /\ state' = [final |-> last, head |-> last]
       ELSE UNCHANGED << db, state >>
    /\ cold' = NoCold
    /\ phase' = IF phase = "archive" THEN "rpc" ELSE "advance"
    /\ UNCHANGED << node, target, heads, goto, used, broken >>

\* The stream stops on head; what was kept is committed.
FinalEnds ==
    /\ phase \in {"archive", "cold"}
    /\ cold.top < cold.beg
    /\ \E top \in IF phase = "archive" THEN {node.arch} ELSE FinalizedHeights : top < cold.beg
    /\ IF cold.from < cold.beg
       THEN LET last == At(node.fin, cold.beg - 1)
            IN  /\ Transact(Slice(node.fin, cold.from, cold.beg - 1), last)
                /\ state' = [final |-> last, head |-> last]
       ELSE UNCHANGED << db, state >>
    /\ cold' = NoCold
    /\ phase' = IF phase = "archive" THEN "rpc" ELSE "advance"
    /\ UNCHANGED << node, target, heads, goto, used, broken >>

\* assertWeAreOnTheSameChain(): the indexed block is on the node's chain, or the
\* process ends.
StartRpc ==
    /\ phase = "rpc"
    /\ IF On(state.final, node.tip)
       THEN /\ target' \in FinalizedHeights
            /\ IF target' > Height(state.head)
               THEN phase' = "cold" /\ cold' = ColdStart
               ELSE phase' = "advance" /\ UNCHANGED cold
       ELSE phase' = "down" /\ UNCHANGED << target, cold >>
    /\ UNCHANGED << node, db, state, heads, goto, used, broken >>

\* The next requested block is above the finalized head: the processor is advanced.
Advance ==
    /\ phase = "advance"
    /\ IF target > Height(state.head)
       THEN IF NextRequested > target
            THEN LET next == At(node.fin, target)
                 IN  /\ Transact(<< >>, next)
                     /\ state' = [final |-> next, head |-> next]
                     /\ phase' = "hot"
                     /\ UNCHANGED broken
            ELSE /\ broken' = TRUE
                 /\ phase' = "down"
                 /\ UNCHANGED << db, state >>
       ELSE /\ phase' = "hot"
            /\ UNCHANGED << db, state, broken >>
    /\ UNCHANGED << node, cold, target, heads, goto, used >>

------------------------------------------------------------------------------
(***************************************************************************)
(* Hot blocks.                                                              *)
(***************************************************************************)
\* subscribeNewHeads(): the newest head waits for the loop.
Notified ==
    /\ phase = "hot"
    /\ ~ heads.polling
    /\ node.news
    /\ node' = [node EXCEPT !.news = FALSE]
    /\ heads' = [heads EXCEPT !.queue = node.tip]
    /\ UNCHANGED << db, phase, state, cold, target, goto, used, broken >>

\* goto() up to its first request: a known block only passes finality on.
Goto(height, hash) ==
    LET fin   == Max2(0, height - Confirmations)
        chain == Finalize(state, fin)
    IN  IF IsKnownBlock(state, height, hash)
        THEN /\ state' = chain
             /\ IF chain # state THEN TransactHot(chain.head, chain) ELSE UNCHANGED db
             /\ goto' = NoGoto
             /\ UNCHANGED broken
        ELSE /\ goto' = [from |-> Min2(Height(state.head) + 1, height), to |-> height,
                         fin |-> fin, hash |-> hash, failed |-> FALSE]
             /\ UNCHANGED << db, state, broken >>

\* polling(): a greater height is taken up.
Poll ==
    /\ phase = "hot"
    /\ heads.polling
    /\ goto = NoGoto
    /\ Height(node.tip) > heads.prev
    /\ heads' = [heads EXCEPT !.prev = Height(node.tip)]
    /\ Goto(Height(node.tip), Origin)
    /\ UNCHANGED << node, phase, cold, target, used >>

\* subscription(): the next head, unless it is lower than the last.
TakeHead ==
    /\ phase = "hot"
    /\ ~ heads.polling
    /\ goto = NoGoto
    /\ heads.queue # Origin
    /\ heads' = [heads EXCEPT !.prev = Max2(@, Height(heads.queue)), !.queue = Origin]
    /\ IF Height(heads.queue) >= heads.prev
       THEN Goto(Height(heads.queue), heads.queue)
       ELSE UNCHANGED << db, state, goto, broken >>
    /\ UNCHANGED << node, phase, cold, target, used >>

Asking == phase = "hot" /\ goto.from <= goto.to /\ ~ goto.failed

\* Bug: a head is given up after one failure.
HotBatchGivesUp ==
    LET asked == Min2(goto.to, goto.from + BatchSize - 1)
        first == At(node.tip, goto.from)
    IN  /\ Asking
        /\ \E to \in goto.from..asked :
              LET next == MoveToBlocks(state, At(node.tip, to), goto.fin)
              IN  /\ to < asked => used.errors < MaxErrors
                  /\ used' = [used EXCEPT !.errors = IF to < asked THEN @ + 1 ELSE @]
                  /\ IF Reachable(state, first)
                     THEN /\ TransactHot(Base(state, first), next)
                          /\ state' = next
                          /\ goto' = IF to < asked THEN NoGoto
                                     ELSE IF to = goto.to THEN NoGoto
                                     ELSE [goto EXCEPT !.from = to + 1]
                          /\ UNCHANGED broken
                     ELSE /\ broken' = TRUE
                          /\ goto' = NoGoto
                          /\ UNCHANGED << db, state >>
        /\ UNCHANGED << node, phase, cold, target, heads >>

\* getBlockRange() yields the next blocks of the chain the node is on now; with less
\* than was asked for it fails after them.  moveToBlocks() fails when they fork off
\* below the finalized block.
HotBatch ==
    LET asked == Min2(goto.to, goto.from + BatchSize - 1)
        first == At(node.tip, goto.from)
    IN  /\ Asking
        /\ \E to \in goto.from..asked :
              LET next == MoveToBlocks(state, At(node.tip, to), goto.fin)
              IN  /\ to < asked => used.errors < MaxErrors
                  /\ used' = [used EXCEPT !.errors = IF to < asked THEN @ + 1 ELSE @]
                  /\ IF Reachable(state, first)
                     THEN /\ TransactHot(Base(state, first), next)
                          /\ state' = next
                          /\ goto' = IF to < asked THEN [goto EXCEPT !.failed = TRUE]
                                     ELSE IF to = goto.to THEN NoGoto
                                     ELSE [goto EXCEPT !.from = to + 1]
                          /\ UNCHANGED broken
                     ELSE /\ broken' = TRUE
                          /\ goto' = NoGoto
                          /\ UNCHANGED << db, state >>
        /\ UNCHANGED << node, phase, cold, target, heads >>

\* No block at all: a consistency error.
HotFails ==
    /\ Asking
    /\ used.errors < MaxErrors
    /\ used' = [used EXCEPT !.errors = @ + 1]
    /\ goto' = [goto EXCEPT !.failed = TRUE]
    /\ UNCHANGED << node, db, phase, state, cold, target, heads, broken >>

\* The head loops try a head again after a consistency error (3 or 100 times, more
\* often than MaxErrors).
Retry ==
    /\ phase = "hot"
    /\ goto.failed
    /\ Goto(goto.to, goto.hash)
    /\ UNCHANGED << node, phase, cold, target, heads, used >>

\* The process ends, by an error of the node or otherwise, and is started again.
Crash ==
    /\ phase # "down"
    /\ used.crashes < MaxCrashes
    /\ used' = [used EXCEPT !.crashes = @ + 1]
    /\ phase' = "down"
    /\ heads' = NoHeads(heads.polling)
    /\ goto' = NoGoto
    /\ cold' = NoCold
    /\ UNCHANGED << node, db, state, target, broken >>

------------------------------------------------------------------------------
Init ==
    /\ node \in {[tip |-> b, fin |-> b, arch |-> -1, news |-> FALSE] : b \in {c \in Block : Height(c) = 0}}
    /\ db = [final |-> Origin, head |-> Origin, mapped |-> << >>]
    /\ phase = "down"
    /\ state = [final |-> Origin, head |-> Origin]
    /\ cold = NoCold
    /\ target = -1
    /\ \E polling \in BOOLEAN : heads = NoHeads(polling)
    /\ goto = NoGoto
    /\ used = [reorgs |-> 0, crashes |-> 0, errors |-> 0]
    /\ broken = FALSE

Next ==
    \/ NewBlock \/ Reorg \/ ArchiveGrows
    \/ Connect \/ StartArchive \/ ReadTop \/ FinalBatch \/ FinalEnds \/ StartRpc \/ Advance
    \/ Notified \/ Poll \/ TakeHead \/ HotBatch \/ HotFails \/ Retry
    \/ Crash

\* What the process does by itself.
Run ==
    \/ Connect \/ StartArchive \/ ReadTop \/ FinalBatch \/ FinalEnds \/ StartRpc
    \/ Advance \/ Notified \/ Poll \/ TakeHead \/ HotBatch \/ Retry

\* The process runs, and its source answers.
Fairness == WF_vars(Run)

Spec == Init /\ [][Next]_vars /\ Fairness

------------------------------------------------------------------------------
Index == INSTANCE IndexedChain WITH final <- db.final, head <- db.head, mapped <- db.mapped

\* The state; the runner's view of the database is exact whenever it acts on it.
TypeOK ==
    /\ db.final \in Ref /\ db.head \in Ref
    /\ phase # "down" => state = [final |-> db.final, head |-> db.head]
    /\ goto.from <= goto.to => phase = "hot"

\* What is indexed is one chain without gaps, and what is final stays: through
\* archive, cold and hot blocks, forks and restarts (the promise of the database).
IndexesOneChain == Index!Spec

\* The final block is one the node will not give up.
FinalIsFinal == On(db.final, node.fin)

\* No assertion fails: what the runner and HotProcessor take for granted of the
\* heights and blocks they are given is so.
NothingBreaks == ~ broken

\* Going over to finalized blocks does not take what is indexed back below the hot
\* blocks that were there.
NoStepBack ==
    [][(phase \in {"archive", "cold"}) => (Height(db'.head) >= Height(db.head))]_db

\* With polling the index gets as high as the node; a head that a subscriber took up
\* is reached.  Requests that fail, forks and restarts only delay it.
CatchesUp ==
    []<>IF heads.polling THEN Height(db.head) >= Height(node.tip)
        ELSE Height(db.head) >= heads.prev \/ phase = "down"

\* Nothing the runner takes for granted fails it: its view of the database is exact, what
\* it calls final is final, and no assertion breaks.
RunnerIsSound == TypeOK /\ FinalIsFinal /\ NothingBreaks

------------------------------------------------------------------------------
(***************************************************************************)
(* The inductive invariant behind RunnerIsSound, IndexesOneChain and        *)
(* NoStepBack.                                                              *)
(***************************************************************************)
Confirmed(height) == Max2(0, height - Confirmations)

\* What is deep enough is final and stays so; the archive holds final blocks.
NodeFits ==
    /\ node \in [tip : Block, fin : Block, arch : Int, news : BOOLEAN]
    /\ On(node.fin, node.tip)
    /\ Confirmed(Height(node.tip)) <= Height(node.fin)
    /\ node.arch <= Height(node.fin)

\* The database holds one chain up to its head, which is not above the node's.
DatabaseFits ==
    /\ db \in [final : Ref, head : Ref, mapped : Seq(Block)]
    /\ On(db.final, db.head)
    /\ Reflects(db.mapped, db.head)
    /\ On(db.final, node.fin)
    /\ Height(db.head) <= Height(node.tip)

ProcessFits ==
    /\ phase \in {"down", "connected", "archive", "rpc", "cold", "advance", "hot"}
    /\ state \in [final : Ref, head : Ref]
    /\ phase # "down" => state = [final |-> db.final, head |-> db.head]

\* The stream of finalized blocks goes on where the database ends, below what is final;
\* what it has kept without a commit are final blocks.
ColdFits ==
    /\ cold \in [from : Int, beg : Int, top : Int, min : Int]
    /\ phase \in {"archive", "cold"} =>
        /\ cold.from = NextRequested
        /\ cold.from <= cold.beg
        /\ cold.top <= Height(node.fin)
        /\ cold.from < cold.beg => cold.beg - 1 <= Height(node.fin)
        /\ Height(db.head) = cold.min \/ Height(db.head) = cold.from - 1
    /\ phase = "archive" => cold.min < node.arch

\* The runner aims at a block that is final; unless its source takes heights back, the
\* stream of finalized blocks does not end below it.
TargetFits ==
    /\ target \in Int
    /\ phase \in {"cold", "advance"} => target \in 0..Height(node.fin)
    /\ ~ Lagging =>
        /\ phase = "cold" => cold.min < target /\ target <= Confirmed(Height(node.tip))
        /\ phase = "advance" /\ target > Height(db.head) => NextRequested > target
        /\ ~ broken

\* The part of the chain of a head that its finalized height vouches for is final.
Vouched(head) == On(At(head, Confirmed(Height(head))), node.fin)

HeadsFit ==
    /\ heads \in [polling : BOOLEAN, prev : Int, queue : Ref]
    /\ heads.queue # Origin =>
        /\ Height(heads.queue) <= Height(node.tip)
        /\ Vouched(heads.queue)

\* A call to goto() is about a height that the node has; the blocks it has yet to get are
\* above the finalized one.
GotoFits ==
    /\ goto \in [from : Int, to : Int, fin : Int, hash : Ref, failed : BOOLEAN]
    /\ goto # NoGoto =>
        /\ phase = "hot"
        /\ goto.to \in 0..Height(node.tip)
        /\ goto.from <= goto.to
        /\ goto.fin = Confirmed(goto.to)
        /\ IF goto.hash = Origin THEN Height(db.head) <= goto.to
           ELSE Height(goto.hash) = goto.to /\ Vouched(goto.hash)
        /\ ~ goto.failed => Height(db.final) < goto.from

RunnerInv ==
    /\ NodeFits /\ DatabaseFits /\ ProcessFits
    /\ ColdFits /\ TargetFits /\ HeadsFit /\ GotoFits

==============================================================================
