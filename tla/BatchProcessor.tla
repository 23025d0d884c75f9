---------------------------- MODULE BatchProcessor ----------------------------
(***************************************************************************)
(* The processor loop of a squid (processor/batch-processor/src/run.ts) on  *)
(* top of its database, fed by the stream of a data source                  *)
(* (util/portal-client/src/client.ts): a node switches forks and finalizes  *)
(* blocks, a stream prefetches into a buffer, the processor takes batches   *)
(* out of it, and crashes, aborted transactions and other processors        *)
(* interfere.                                                               *)
(*                                                                          *)
(* proc[p].phase   "down", "run" (between batches) or "tx" (a batch is in a *)
(*                 database transaction)                                    *)
(* proc[p].fault   what the process died of the last time                   *)
(* proc[p].hot     db.supportsHotBlocks                                     *)
(* proc[p].final   state.finalizedHead                                      *)
(* proc[p].heads   state.unfinalizedHeads                                   *)
(* proc[p].stream  the stream and its buffer: pos is the block the next     *)
(*                 request builds on, final the finalized head reported so  *)
(*                 far, updated is headUpdated, fork the previousBlocks of  *)
(*                 a ForkException that ended the stream                    *)
(* proc[p].tx      the running transaction: what was submitted, the nonce   *)
(*                 its snapshot shows, the retries left and the             *)
(*                 unfinalizedSliceHeads collected by its attempts          *)
(*                                                                          *)
(* source          the node: its tip and its finalized block                *)
(* used            how much of each bound below has been used               *)
(***************************************************************************)
EXTENDS TypeormDatabase

CONSTANTS
    Processor,      \* the processes that work on this database
    Modes,          \* the values of supportsHotBlocks they are configured with
    Switches,       \* the changes of that configuration, <<from, to>>
    StartHeight,    \* the first block of the requested range
    ForkWindow,     \* the number of previousBlocks a fork report carries
    MaxRetries,     \* retries of a transaction the database aborts
    MaxReorgs,      \* bound: fork switches of the node
    MaxCrashes,     \* bound: crashes
    MaxAborts,      \* bound: transactions aborted without a conflict
    MaxIdle,        \* bound: polls that bring no news
    MaxHeaders,     \* bound: responses whose header is seen before their lines
    MaxLag          \* bound: how far behind a reported finalized head may be

ASSUME ProcessorAssumption ==
    /\ Modes \subseteq BOOLEAN
    /\ StartHeight \in Nat
    /\ ForkWindow \in Nat \ {0}
    /\ Switches \subseteq BOOLEAN \X BOOLEAN
    /\ {MaxRetries, MaxReorgs, MaxCrashes, MaxAborts, MaxIdle, MaxHeaders, MaxLag}
           \subseteq Nat

VARIABLES source, proc, used

vars == << db, source, proc, used >>

NoStream == [pos |-> Origin, blocks |-> << >>, final |-> Origin,
             updated |-> FALSE, fork |-> << >>]

NoTx == [base |-> Origin, final |-> Origin, blocks |-> << >>, nonce |-> 0,
         retries |-> 0, slices |-> << >>]

\* A process that is not running; its configuration is what remains of it.
Down(fault, hot) ==
    [phase |-> "down", fault |-> fault, hot |-> hot, final |-> Origin,
     heads |-> << >>, stream |-> NoStream, tx |-> NoTx]

Faults == {"none", "crash", "race", "assert", "fork", "aborted"}

StreamState ==
    [pos : Ref, blocks : Seq(Block), final : Ref, updated : BOOLEAN,
     fork : Seq(Block)]

TxState ==
    [base : Ref, final : Ref, blocks : Seq(Block), nonce : Nat,
     retries : 0..MaxRetries, slices : Seq(Block)]

ProcessorState ==
    [phase : {"down", "run", "tx"}, fault : Faults, hot : BOOLEAN, final : Ref,
     heads : Seq(Block), stream : StreamState, tx : TxState]

\* state.head
StateHead(s) == LastOf(s.final, s.heads)

------------------------------------------------------------------------------
(***************************************************************************)
(* The node.  It grows a block at a time, may switch to another fork that   *)
(* is no shorter than the one it leaves, and never leaves a finalized       *)
(* block.                                                                   *)
(***************************************************************************)
NewBlock ==
    \E b \in Block :
        /\ On(source.tip, b)
        /\ Height(b) = Height(source.tip) + 1
        /\ source' = [source EXCEPT !.tip = b]
        /\ UNCHANGED << db, proc, used >>

Reorg ==
    \E b \in Block :
        /\ used.reorgs < MaxReorgs
        /\ On(source.fin, b)
        /\ ~ On(source.tip, b)
        /\ Height(b) >= Height(source.tip)
        /\ source' = [source EXCEPT !.tip = b]
        /\ used' = [used EXCEPT !.reorgs = @ + 1]
        /\ UNCHANGED << db, proc >>

Finalize ==
    \E b \in Block :
        /\ On(source.fin, b)
        /\ On(b, source.tip)
        /\ b # source.fin
        /\ source' = [source EXCEPT !.fin = b]
        /\ UNCHANGED << db, proc, used >>

------------------------------------------------------------------------------
(***************************************************************************)
(* The stream.  One action per answer to a request for the blocks above     *)
(* stream.pos, and one for an answer whose blocks are not there yet; a       *)
(* request can be answered while a batch is being processed.                *)
(***************************************************************************)
Streaming(p) == proc[p].phase # "down" /\ proc[p].stream.fork = << >>

\* The first block the stream asks for.
FromBlock(stream) == IF stream.pos = Origin THEN StartHeight ELSE Height(stream.pos) + 1

\* The last block the stream may deliver: getStream or getFinalizedStream.
Top(p) == IF proc[p].hot THEN source.tip ELSE source.fin

\* updateHead(): the finalized head of the buffer never goes down.
MaxRef(a, b) == IF Height(a) >= Height(b) THEN a ELSE b

\* The finalized heads a source may report: its answer may come from a replica
\* that trails.
Reportable ==
    {r \in Ref : On(r, source.fin) /\ Height(source.fin) - Height(r) <= MaxLag}

\* The block the buffered ones are on top of: the head of the batch that was taken
\* before them.
BatchBase(s) == IF s.phase = "tx" THEN LastOf(s.tx.base, s.tx.blocks) ELSE StateHead(s)

\* put(): the stream waits while the buffer holds as much as one batch may.
Fits(s, blocks) == s.stream.blocks \o blocks \in Deliveries(BatchBase(s))

\* 200, up to its first line: updateHead() has been called, put() has not.  A take()
\* may come in between, be it that the idle timer was left running by the last put(),
\* or that the body is reset and the next answer flushes the buffer.
ReceiveHeader(p, r) ==
    LET stream == proc[p].stream
    IN  /\ Streaming(p)
        /\ Height(Top(p)) >= FromBlock(stream)
        /\ On(stream.pos, Top(p))
        /\ used.headers < MaxHeaders
        /\ used' = [used EXCEPT !.headers = @ + 1]
        /\ proc' = [proc EXCEPT ![p].stream =
               [stream EXCEPT !.final = MaxRef(r, @), !.updated = TRUE]]
        /\ UNCHANGED << db, source >>

\* 200: blocks on top of pos.  A finalized stream reports what it delivers as
\* finalized.
ReceiveBlocks(p, r) ==
    \E s \in Segment :
        LET stream == proc[p].stream
        IN  /\ Streaming(p)
            /\ s.base = stream.pos
            /\ Fits(proc[p], s.blocks)
            /\ On(Tip(s), Top(p))
            /\ \A i \in 1..Len(s.blocks) : Height(s.blocks[i]) >= StartHeight
            /\ proc[p].hot \/ On(Tip(s), r)
            /\ proc' = [proc EXCEPT ![p].stream =
                   [stream EXCEPT !.pos = Tip(s),
                                  !.blocks = @ \o s.blocks,
                                  !.final = MaxRef(r, @),
                                  !.updated = TRUE]]
            /\ UNCHANGED << db, source, used >>

\* 204: the source has nothing above pos.  The stream polls on and hands over
\* the head it was told.
ReceiveNoData(p, r) ==
    LET stream == proc[p].stream
        news   == Height(MaxRef(r, stream.final)) > Height(proc[p].final)
    IN  /\ Streaming(p)
        /\ Height(Top(p)) < FromBlock(stream)
        /\ Height(Top(p)) = Height(stream.pos) => On(stream.pos, Top(p))
        /\ news \/ used.idle < MaxIdle
        /\ used' = [used EXCEPT !.idle = IF news THEN @ ELSE @ + 1]
        /\ proc' = [proc EXCEPT ![p].stream =
               [stream EXCEPT !.final = MaxRef(r, @), !.updated = TRUE]]
        /\ UNCHANGED << db, source >>

\* The last ForkWindow blocks at or below height h on the chain of r.
PreviousBlocks(r, h) ==
    LET top == IF h < Height(r) THEN h ELSE Height(r)
        low == top - ForkWindow + 1
    IN  SubSeq(Path[r], (IF low < 0 THEN 0 ELSE low) + 1, top + 1)

\* 409: pos is not on the chain of the source.
ReceiveFork(p) ==
    LET stream == proc[p].stream
    IN  /\ Streaming(p)
        /\ Height(stream.pos) <= Height(Top(p))
        /\ ~ On(stream.pos, Top(p))
        /\ proc' = [proc EXCEPT ![p].stream.fork =
                        PreviousBlocks(Top(p), Height(stream.pos))]
        /\ UNCHANGED << db, source, used >>

------------------------------------------------------------------------------
(***************************************************************************)
(* The processor.                                                           *)
(***************************************************************************)
OpenStream(s) == [s EXCEPT !.stream = [NoStream EXCEPT !.pos = StateHead(s)]]

\* connect() and ProcessorState.init
Start(p) ==
    /\ proc[p].phase = "down"
    /\ ConnectAssertsHold
    /\ db' = RepairOrphans(db)
    /\ proc' = [proc EXCEPT ![p] =
           OpenStream([Down("none", proc[p].hot) EXCEPT !.phase = "run",
                                                        !.final = db.status,
                                                        !.heads = Refs(db.hot)])]
    /\ UNCHANGED << source, used >>

\* The operator changes supportsHotBlocks of a process that is down.
Reconfigure(p) ==
    /\ proc[p].phase = "down"
    /\ << proc[p].hot, ~ proc[p].hot >> \in Switches
    /\ proc' = [proc EXCEPT ![p] = Down("none", ~ proc[p].hot)]
    /\ UNCHANGED << db, source, used >>

HotInfo(tx) ==
    [finalizedHead |-> tx.final, baseHead |-> tx.base, newBlocks |-> tx.blocks]

FinalInfo(tx) ==
    [prevHead |-> tx.base, nextHead |-> LastOf(tx.base, tx.blocks),
     newBlocks |-> tx.blocks]

\* The assertion an attempt of the transaction would fail on tables d, "none" if
\* it passes.
TxFault(d, hot, tx) ==
    LET continues == IF hot THEN IsBase(d, tx.base) ELSE d.status = tx.base
        asserts   == IF hot THEN TransactHot2Asserts(d, HotInfo(tx))
                     ELSE TransactAsserts(d, FinalInfo(tx))
    IN  IF ~ continues THEN "race" ELSE IF ~ asserts THEN "assert" ELSE "none"

\* An attempt reads the state tables; a failed assertion ends the process.
Attempt(s, tx) ==
    LET fault == TxFault(db, s.hot, tx)
    IN  IF fault = "none"
        THEN [s EXCEPT !.phase = "tx", !.tx = [tx EXCEPT !.nonce = db.nonce]]
        ELSE Down(fault, s.hot)

\* The finalized head processBatch believes in: the one reported with the batch
\* or its own, whichever is higher.
BatchFinalized(s) ==
    IF Height(s.stream.final) > Height(s.final) THEN s.stream.final ELSE s.final

\* ... and the one it submits with the blocks: the last of them that is
\* finalized, if there is any.
SubmittedFinalized(s) ==
    LET u == CountUpTo(s.stream.blocks, Height(BatchFinalized(s)))
    IN  IF u = 0 THEN BatchFinalized(s) ELSE s.stream.blocks[u]

\* processBatch() up to the transaction.
TakeBatch(p) ==
    LET s      == proc[p]
        blocks == s.stream.blocks
        rest   == [s EXCEPT !.stream.blocks = << >>, !.stream.updated = FALSE]
        tx     == [base |-> StateHead(s), final |-> SubmittedFinalized(s),
                   blocks |-> blocks, nonce |-> 0, retries |-> MaxRetries,
                   slices |-> << >>]
    IN  /\ s.phase = "run"
        /\ blocks # << >> \/ s.stream.updated
        /\ proc' = [proc EXCEPT ![p] =
               IF blocks = << >> /\ (s.stream.final = Origin \/ ~ s.hot) THEN rest
               ELSE IF \/ ~ Ascending(<< StateHead(s) >> \o blocks)
                       \/ /\ ~ s.hot
                          /\ CountUpTo(blocks, Height(BatchFinalized(s))) < Len(blocks)
                    THEN Down("assert", s.hot)
               ELSE Attempt(rest, tx)]
        /\ UNCHANGED << db, source, used >>

\* The heads map() notes down in the course of a transaction: the last block of
\* every slice that is not finalized.
SliceHeads(tx) ==
    Refs(HotRows(tx.blocks, CountUpTo(tx.blocks, Height(tx.final)), 0))

\* Bug: the finalized head in memory is not moved.
AfterCommitStaleFinal(s) ==
    [s EXCEPT !.phase = "run", !.tx = NoTx,
              !.heads = IF s.hot THEN @ \o SliceHeads(s.tx) ELSE @]

\* Bug: the heads of the unfinalized slices are forgotten.
AfterCommitWithoutSlices(s) ==
    [s EXCEPT !.phase = "run", !.tx = NoTx,
              !.final = IF s.tx.final = Origin THEN @ ELSE s.tx.final,
              !.heads = SubSeq(@, CountUpTo(@, Height(s.tx.final)) + 1, Len(@))]

\* processBatch() after the transaction.
AfterCommit(s) ==
    LET tx    == s.tx
        final == IF tx.final = Origin THEN s.final ELSE tx.final
        heads == SubSeq(s.heads, CountUpTo(s.heads, Height(final)) + 1, Len(s.heads))
    IN  IF s.hot
        THEN [s EXCEPT !.phase = "run", !.tx = NoTx, !.final = final,
                       !.heads = heads \o tx.slices \o SliceHeads(tx)]
        ELSE [s EXCEPT !.phase = "run", !.tx = NoTx,
                       !.final = LastOf(tx.base, tx.blocks), !.heads = << >>]

\* The state tables are as the transaction has read them: it commits.
Commit(p) ==
    LET s == proc[p]
    IN  /\ s.phase = "tx"
        /\ db.nonce = s.tx.nonce
        /\ db.nonce < MaxNonce
        /\ db' = IF s.hot THEN TransactHot2(db, HotInfo(s.tx))
                          ELSE Transact(db, FinalInfo(s.tx))
        /\ proc' = [proc EXCEPT ![p] = AfterCommit(s)]
        /\ UNCHANGED << source, used >>

\* submit(): the database aborts the transaction, because another one has
\* committed or of its own accord, after n of its slices were mapped; it is
\* tried again.
Abort(p, n) ==
    LET s  == proc[p]
        tx == [s.tx EXCEPT !.retries = @ - 1,
                           !.slices = @ \o SubSeq(SliceHeads(s.tx), 1, n)]
    IN  /\ s.phase = "tx"
        /\ n \in 0..(IF s.hot THEN Len(SliceHeads(s.tx)) ELSE 0)
        /\ \/ /\ db.nonce # s.tx.nonce
              /\ UNCHANGED used
           \/ /\ db.nonce = s.tx.nonce
              /\ used.aborts < MaxAborts
              /\ used' = [used EXCEPT !.aborts = @ + 1]
        /\ proc' = [proc EXCEPT ![p] =
               IF s.tx.retries = 0 THEN Down("aborted", s.hot) ELSE Attempt(s, tx)]
        /\ UNCHANGED << db, source >>

\* Bug: the walk compares block numbers only.
FindRollbackIndexByHeight(chain, fork) ==
    LET shared == {i \in 1..Len(chain) :
                      \E j \in 1..Len(fork) : Height(chain[i]) = Height(fork[j])}
    IN  IF shared = {} THEN 0
        ELSE CHOOSE i \in shared : \A j \in shared : j <= i

\* A round of the loop of findRollbackIndex(): at are the positions it has got to
\* in chain and in fork and, in last, the position in chain of the last block they
\* share, 0 for none.  Nothing changes any more once the loop is left.
WalkRound(chain, fork, at) ==
    IF at.i > Len(chain) \/ at.j > Len(fork) THEN at
    ELSE CASE Height(chain[at.i]) > Height(fork[at.j]) -> [at EXCEPT !.j = @ + 1]
           [] Height(chain[at.i]) < Height(fork[at.j]) -> [at EXCEPT !.i = @ + 1]
           [] chain[at.i] = fork[at.j] ->
                  [i |-> at.i + 1, j |-> at.j + 1, last |-> at.i]
           [] OTHER -> at

\* The set makes TLC evaluate the round before only once.
WalkStep(chain, fork, from) ==
    CHOOSE next \in {WalkRound(chain, fork, at) : at \in {from}} : TRUE

\* findRollbackIndex(): both are walked upwards until they part or one ends.
FindRollbackIndex(chain, fork) ==
    LET walk[n \in 0..(Len(chain) + Len(fork))] ==
            IF n = 0 THEN [i |-> 1, j |-> 1, last |-> 0]
                     ELSE WalkStep(chain, fork, walk[n - 1])
    IN  walk[Len(chain) + Len(fork)].last

\* Bug: the finalized head is not made part of the chain that is searched.
HandleForkAboveFinal(p) ==
    LET s     == proc[p]
        index == FindRollbackIndex(s.heads, s.stream.fork)
    IN  /\ s.phase = "run"
        /\ s.stream.blocks = << >> /\ ~ s.stream.updated
        /\ s.stream.fork # << >>
        /\ proc' = [proc EXCEPT ![p] =
               IF index = 0 /\ s.final # Origin THEN Down("fork", s.hot)
               ELSE OpenStream([s EXCEPT !.heads = SubSeq(@, 1, index)])]
        /\ UNCHANGED << db, source, used >>

\* Bug: the stream is opened again without a rollback.
HandleForkByRetry(p) ==
    /\ proc[p].phase = "run"
    /\ proc[p].stream.blocks = << >> /\ ~ proc[p].stream.updated
    /\ proc[p].stream.fork # << >>
    /\ proc' = [proc EXCEPT ![p] = OpenStream(proc[p])]
    /\ UNCHANGED << db, source, used >>

\* The buffer is drained and the stream ended with a ForkException: handleFork()
\* and a new stream.
HandleFork(p) ==
    LET s     == proc[p]
        below == IF s.final = Origin THEN << >> ELSE << s.final >>
        index == FindRollbackIndex(below \o s.heads, s.stream.fork)
    IN  /\ s.phase = "run"
        /\ s.stream.blocks = << >> /\ ~ s.stream.updated
        /\ s.stream.fork # << >>
        /\ proc' = [proc EXCEPT ![p] =
               IF ~ s.hot \/ (index = 0 /\ s.final # Origin) THEN Down("fork", s.hot)
               ELSE OpenStream([s EXCEPT !.heads = SubSeq(@, 1, index - Len(below))])]
        /\ UNCHANGED << db, source, used >>

Crash(p) ==
    /\ proc[p].phase # "down"
    /\ used.crashes < MaxCrashes
    /\ used' = [used EXCEPT !.crashes = @ + 1]
    /\ proc' = [proc EXCEPT ![p] = Down("crash", proc[p].hot)]
    /\ UNCHANGED << db, source >>

------------------------------------------------------------------------------
ProcessorInit ==
    /\ Init
    /\ source = [tip |-> Origin, fin |-> Origin]
    /\ \E hot \in Modes : proc = [p \in Processor |-> Down("none", hot)]
    /\ used = [reorgs |-> 0, crashes |-> 0, aborts |-> 0, idle |-> 0,
               headers |-> 0]

ProcessorNext ==
    \/ NewBlock
    \/ Reorg
    \/ Finalize
    \/ \E p \in Processor :
           \/ \E r \in Reportable : ReceiveHeader(p, r)
           \/ \E r \in Reportable : ReceiveBlocks(p, r)
           \/ \E r \in Reportable : ReceiveNoData(p, r)
           \/ ReceiveFork(p)
           \/ Start(p)
           \/ Reconfigure(p)
           \/ TakeBatch(p)
           \/ Commit(p)
           \/ \E n \in 0..Len(proc[p].tx.blocks) : Abort(p, n)
           \/ HandleFork(p)
           \/ Crash(p)

\* A running process keeps polling its source, handles what it gets and commits
\* what it can; a process that died is started again.  Nothing makes the node
\* grow, switch or finalize, and nothing makes a transaction fail.
Fairness ==
    \A p \in Processor :
        WF_vars(\/ Start(p)
                \/ ReceiveBlocks(p, source.fin)
                \/ ReceiveNoData(p, source.fin)
                \/ ReceiveFork(p)
                \/ TakeBatch(p)
                \/ Commit(p)
                \/ db.nonce # proc[p].tx.nonce /\ Abort(p, 0)
                \/ HandleFork(p))

ProcessorSpec == ProcessorInit /\ [][ProcessorNext]_vars /\ Fairness

------------------------------------------------------------------------------
\* Types: the node, what a processor remembers of its commits, its stream and its open
\* transaction; a fork never leaves the processor on something that is not a block.
ProcessorTypeOK ==
    /\ TypeOK
    /\ source \in [tip : Ref, fin : Ref]
    /\ proc \in [Processor -> ProcessorState]
    /\ used \in [reorgs : 0..MaxReorgs, crashes : 0..MaxCrashes,
                 aborts : 0..MaxAborts, idle : 0..MaxIdle,
                 headers : 0..MaxHeaders]

\* The processor meets the database on its terms: every transaction it submits is
\* one the database component admits, on a base it knows, with blocks of one
\* chain on top and a finalized head of that chain.  With the theorems about that
\* component this carries over to the composition.
UsesDatabaseAsSpecified == Spec

\* A processor that has the database for itself holds in memory what the tables
\* hold, retried transactions and forks included: its finalized head is the
\* committed one and the head it will build on is a committed row.
MemoryIsCommitted ==
    \A p \in Processor :
        proc[p].phase # "down" =>
            /\ proc[p].final = db.status
            /\ IsBase(db, StateHead(proc[p]))

\* The processor's view of the database is of the right shape, and right.
ProcessorIsSound == ProcessorTypeOK /\ MemoryIsCommitted

\* handleFork() rolls back to the highest committed block that is on the chain of
\* the fork report: no orphaned block is kept, no common block given up.
ForkFindsCommonBase ==
    [][\A p \in Processor :
           LET fork == proc[p].stream.fork
           IN  fork # << >> /\ proc'[p].phase = "run" /\ proc'[p].stream.fork = << >> =>
                   /\ On(StateHead(proc'[p]), fork[Len(fork)])
                   /\ \A k \in Positions(db) :
                          On(RefAt(db, k), fork[Len(fork)])
                              => Height(RefAt(db, k)) <= Height(StateHead(proc'[p]))]_vars

\* A lone processor never takes itself for two: RACE_MSG is not raised.
NoFalseRace == \A p \in Processor : proc[p].fault # "race"

\* No transaction fails the database's assertions on its input, in particular
\* "finalizedHead is not above the last block": assert(info.finalizedHead.height
\* <= (maybeLast(info.newBlocks) ?? info.baseHead).height).
AssertionsHold == \A p \in Processor : proc[p].fault # "assert"

\* A lone processor is not stopped by a fork, nor by taking itself for two, and fails
\* one assertion only, on one occasion only: that the finalized head is not above the
\* last block, when a batch without blocks is handed over after a header has told of a
\* finalized head above all the blocks so far (typeorm-store/src/database.ts:216).
\* Other than that it ends with a crash or a database that keeps aborting.
FailsOnlyAhead ==
    [][\A p \in Processor :
           LET s == proc[p]
               t == proc'[p]
           IN  s.phase # "down" /\ t.phase = "down" /\ t.fault \notin {"crash", "aborted"} =>
                   /\ t.fault = "assert"
                   /\ s.phase = "run" /\ s.hot
                   /\ s.stream.blocks = << >>
                   /\ Height(s.stream.final) > Height(StateHead(s))]_vars

\* Once the node is quiet, the tables get to its finalized block and, with hot
\* blocks, to its tip, and stay there.
CatchesUp ==
    <>[](/\ db.status = source.fin
         /\ \A p \in Processor : proc[p].hot => HeadOf(db) = source.tip)

------------------------------------------------------------------------------
(***************************************************************************)
(* What holds between the steps of any number of processors.                *)
(***************************************************************************)

\* One of the two is an ancestor of the other.
OneChain(a, b) == On(a, b) \/ On(b, a)

\* Node n has seen all that is mapped in tables d; its tip never gets lower.
TablesBelowTip(d, n) ==
    /\ Height(d.status) <= Height(n.tip)
    /\ \A i \in 1..Len(d.applied) : Height(d.applied[i]) <= Height(n.tip)

\* What a process remembers is one chain.
MemoryIsChain(s, n) ==
    /\ On(s.final, StateHead(s))
    /\ \A i \in 1..Len(s.heads) : On(s.heads[i], StateHead(s))
    /\ Height(StateHead(s)) <= Height(n.tip)

\* The buffered blocks continue what was taken before them, the next request
\* continues the buffered blocks, and a finalized head the stream has been told is
\* on their chain or ahead of them.
StreamContinues(s, n) ==
    /\ s.stream.blocks \in Deliveries(BatchBase(s)) \cup {<< >>}
    /\ s.stream.pos = LastOf(BatchBase(s), s.stream.blocks)
    /\ Height(s.stream.pos) <= Height(n.tip)
    /\ On(s.stream.final, n.fin)
    /\ s.hot => OneChain(s.stream.final, s.stream.pos)
    /\ Ascending(s.stream.fork)

\* An open transaction is one the database admits for as long as nobody else
\* commits.
TransactionFits(s, d) ==
    LET tx   == s.tx
        last == LastOf(tx.base, tx.blocks)
        u    == CountUpTo(tx.blocks, Height(tx.final))
    IN  /\ tx.base = StateHead(s)
        /\ tx.blocks \in Deliveries(tx.base) \cup {<< >>}
        /\ ~ s.hot => tx.blocks # << >>
        /\ s.hot => On(tx.final, last) /\ Height(s.final) <= Height(tx.final)
        /\ tx.nonce <= d.nonce
        /\ tx.nonce = d.nonce => TxFault(d, s.hot, tx) = "none"
        /\ \A i \in 1..Len(tx.slices) :
               \E j \in (u + 1)..Len(tx.blocks) : tx.slices[i] = tx.blocks[j]

\* A process, by itself and next to the node and the tables.
ProcessFits(s, d, n) ==
    s.phase # "down" =>
        /\ MemoryIsChain(s, n)
        /\ StreamContinues(s, n)
        /\ s.phase = "tx" => TransactionFits(s, d)

\* The inductive invariant behind UsesDatabaseAsSpecified.
ProcessorInv ==
    /\ ProcessorTypeOK
    /\ IndInv
    /\ On(source.fin, source.tip)
    /\ TablesBelowTip(db, source)
    /\ \A p \in Processor : ProcessFits(proc[p], db, source)

(***************************************************************************)
(* What holds for a processor that has the database for itself.             *)
(***************************************************************************)

\* Its memory is what tables d hold: the finalized head, and heads above it only
\* that are mapped blocks.
MemoryOf(s, d) ==
    s.phase # "down" =>
        /\ s.final = d.status
        /\ \A i \in 1..Len(s.heads) :
               Height(s.heads[i]) > Height(d.status)
                   => \E k \in 1..Len(d.applied) : d.applied[k] = s.heads[i]

\* The inductive invariant behind MemoryIsCommitted.
LoneInv == \A p \in Processor : MemoryOf(proc[p], db)

\* A fork report reaches down to the finalized head of the processor that gets it.
WindowReaches ==
    \A p \in Processor :
        Height(proc[p].stream.pos) - Height(proc[p].final) < ForkWindow

\* A stream of finalized blocks stays on the chain the node has finalized, and
\* never delivers a block it has not reported as finalized.
FinalStream(s, n) ==
    /\ s.heads = << >>
    /\ s.stream.fork = << >>
    /\ On(s.stream.pos, n.fin)
    /\ s.stream.blocks # << >> => Height(s.stream.pos) <= Height(s.stream.final)

\* A fork report is a run of blocks of one chain, from the head of tables d at
\* most up to the height of the stream, and whatever is taken for finalized is on
\* that chain.
ForkFits(s, d) ==
    LET fork == s.stream.fork
        top  == fork[Len(fork)]
    IN  fork # << >> =>
            /\ \A j \in 1..Len(fork) : On(fork[j], top)
            /\ Height(top) = Height(s.stream.pos)
            /\ \A b \in Block : On(b, top) /\ Height(b) >= Height(d.status)
                   => \E j \in 1..Len(fork) : fork[j] = b
            /\ On(s.final, top)
            /\ On(s.stream.final, top)
            /\ s.phase = "tx" => On(s.tx.final, top)

\* Whichever block above height low is noted down, those of blocks that are below
\* it are noted down before it.
Complete(noted, blocks, low) ==
    \A i \in 1..Len(noted) : \A k \in 1..Len(blocks) :
        low < Height(blocks[k]) /\ Height(blocks[k]) < Height(noted[i])
            => \E m \in 1..(i - 1) : noted[m] = blocks[k]

\* The heads in memory leave out no mapped block, the slices none of their batch.
MemoryIsComplete(s, d) ==
    /\ Complete(s.heads, d.applied, Height(d.status))
    /\ s.phase = "tx" => Complete(s.tx.slices, s.tx.blocks, Height(s.tx.final))

\* What keeps a process from failing for a reason of its own, other than FailsOnlyAhead
\* tells.
Steady(s, d, n) ==
    /\ ~ s.hot => d.hot = << >>
    /\ s.phase = "down" => s.stream.fork = << >>
    /\ s.phase # "down" =>
           /\ ~ s.hot => FinalStream(s, n)
           /\ s.phase = "tx" => On(s.tx.final, n.fin)
           /\ ForkFits(s, d)
           /\ MemoryIsComplete(s, d)

\* The inductive invariant behind FailsOnlyAhead and ForkFindsCommonBase.
SteadyInv ==
    /\ On(db.status, source.fin)
    /\ \A p \in Processor : Steady(proc[p], db, source)

==============================================================================
