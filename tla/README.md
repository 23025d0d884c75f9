# A TLA+ model of the squid SDK

The squid SDK turns blockchain data into a Postgres database.  A *squid* streams
blocks from a data source, maps them with a user's handler and commits the result
together with its progress.  Blocks near the tip of a chain may be replaced by a
fork; the SDK indexes them anyway ("hot blocks") and undoes them when the fork
shows.  Data services, RPC clients, fallbacks and archives bring the blocks there.
This directory models these parts, checks them with TLC on small instances and
proves with TLAPS, for instances of every size, what matters most about the
database, the processor on it, the data service and the streams between them.

The specifications are plain TLA+.  `tlc -config X.cfg M` runs one check, and the
table in section 3 names the module of each configuration; `tlapm M.tla` checks the
proofs of one of the modules `*Proofs`, which section 5 describes.  `PROJECT.json` maps every definition to the lines
it models, and lists findings, hazards, mutants and theorems.

## 1. The system

```
 node --RPC--> RpcClient --> RpcDataSource --> DataService --HTTP--> PortalStream
                                  \                                      |
                                   `------------> Fallback <-------------'
                                                      | BlockStream
                                                BatchProcessor --> TypeormDatabase
 node --RPC--> dumper --> Archive --> Runner (older processors) --> database
```

| component | state it keeps | operations | interacts with |
|---|---|---|---|
| **TypeormDatabase** (`typeorm/typeorm-store/src/database.ts`, `templates.ts`) | status row, `hot_block`, `hot_change_log`, `template_registry`, entity tables | `connect`, `transact`, `transactHot2`, retry on 40001 | called by a processor, calls the handler and `rollbackBlock` |
| **ChangeTracker, Store** (`hot.ts`, `store.ts`) | change records of the block being mapped | insert, upsert, remove, rollback | called by handlers; reads the catalogue for cascading keys |
| **Batch processor** (`processor/batch-processor/src/run.ts`) | `finalizedHead`, `unfinalizedHeads` | `run`, `processBatch`, `handleFork`, `findRollbackIndex` | pulls a stream, submits transactions |
| **Portal stream** (`util/portal-client/src/client.ts`) | buffer, two semaphores, two timers | ingest loop, `put`, `take`, `fail`, `close` | polls a portal, feeds a processor |
| **Fallback data source** (`meta/squid-sdk/src/fallback`) | health of each source, heads, active source, position | select, poll, probe, leave, switch up | wraps data sources |
| **Data service, Chain** (`util/util-internal-data-service`) | window of recent blocks, finalized position, waiting clients | ingest sessions, push, fork, finalize, compact, query, wait, streamed response | reads a data source, serves portals |
| **EVM RPC data source** (`evm/evm-rpc/src/data-source`) | strides, poll position, finality queue | plan, request, continuity check, finalize | calls the RPC client, feeds services and processors |
| **RPC client** (`util/rpc-client`) | request queue, capacity, backoff, connection, rate meter, subscriptions | call, schedule, retry, reset, close, subscribe | HTTP and web socket transports |
| **Async tools** (`util/util-internal/src/async.ts`) | ring buffer, waiting callers | `AsyncQueue`, `concurrentMap` | used by all streams |
| **Older processors** (`util-internal-processor-tools`, `util-internal-ingest-tools`, `evm/evm-processor/src/ds-rpc`) | view of the database, chain of headers, head loop | archive, cold and hot phases | archive, RPC, database |
| **Archive, dumper** (`util-internal-archive-layout`, `util-internal-dump-cli`, `util-internal-fs`) | directories of chunks | append, ingest, transact a directory, list | node, disk or S3 |
| **Ranges, heap** (`util-internal-range`, `util-internal-binary-heap`) | - | merge, cut and split data requests | processors |

What is hard here: a fork that arrives while older data is buffered or in a
transaction; finality that is stale, ahead of the data or inside a batch; crashes
and aborted transactions between the tables and the memory of a processor; two
processors on one database; undoing writes under foreign keys; replicas of a node
that disagree; answers that come after a timeout, a reset or a close; consumers
that leave while a producer waits; directories half written.  `hazards` in
`PROJECT.json` lists these places line by line, with the properties that cover
them.

What makes the parts correct, in one line each:

* database - the entity tables tell exactly one chain, completely; every row can
  be rolled back to; what is finalized is permanent;
* undo log - undoing a block restores the rows exactly and never fails;
* processor - it submits what the database accepts, its memory agrees with the
  tables, forks are cut at the highest common block, and it catches up;
* data service - the window is one chain, a client's answers continue what it has,
  finality only moves up;
* RPC data source - its stream keeps the contract of `BlockStream`;
* streams and queues - nothing lost, doubled or out of order, nobody waits for
  ever, and what is behind a stream is released when it ends, but for a client
  that leaves while it is being waited for;
* fallback - one gapless stream out of many, served as long as a source works;
* RPC client - every call settles, capacity is not lost, the rate is kept, a
  handle stays subscribed exactly once;
* runner - one chain through archive, cold and hot blocks;
* archive - gapless, readable, of one chain, and completed after restarts;
* requests - merging and cutting asks of each block what the user asked.

## 2. Modules

### Blocks and abstract specifications

**BlockTree.**  A `{height, hash}` pair is one value, as a hash determines its
block; `Origin` stands for `{height: -1, hash: '0x'}` and for `undefined`, which
the code converts into each other.  `Path` gives each block its chain, so forks
are blocks whose paths part.  `Segment` holds the runs of blocks a filtering
source may deliver on top of a base.

**IndexedChain** - what a database promises.  Finalized block, head and mapped
blocks, and one action: the index moves to another head such that the finalized
block moves up its own chain, the mapped blocks are exactly those of the head's
chain and the finalized ones stay.  `TypeormDatabase` implements it
(`final <- db.status`, `head <- HeadOf(db)`, `mapped <- db.applied`), and so do
`BatchProcessor` with two processors and `Runner`.

**BlockStream** - what the consumers of a `DataSource` rely on: batches continue
one another, finalized heads are final and of the stream's chain.
`RpcDataSource` implements it, and `DataService` and `BatchProcessor` assume it of
their sources.

### From the stream to the tables

**TypeormDatabase.**  `db` holds the tables.  The entity tables are abstracted to
the sequence of blocks whose effects they hold, and the change records of a
`hot_block` row to the number of blocks mapped before it: undoing the row
truncates the sequence there.  That abstraction is what `ChangeTracker` checks.  A
transaction takes effect at its commit and is a function of the state its snapshot
shows: `TransactHot2` is rollback to the base head, the finalized slice, the
groups of hot blocks, deletion of finalized rows and the status update, in this
order.  The divisor of the group size, 100 in the code, is the constant
`GroupDivisor`, so that a group of two blocks fits a small tree.

**ChangeTracker.**  Rows with foreign key columns; inserts, upserts and deletes
with the change records they leave, and their replay.  Foreign key checks and
cascades are the database's own and are modelled from how the code uses them.  SQL
gives no order for the rows of a `SELECT`; one is fixed here, which makes no
difference between rows of one table that do not reference each other.

**BatchProcessor**, composed with `TypeormDatabase`.  The node grows, switches
forks and finalizes.  A stream has one action per answer: blocks (200), nothing
(204), fork (409); answers arrive while a batch is in its transaction.  The header of
a 200 may be a step of its own (`ReceiveHeader`): it is known to the buffer before
the first line is, and a `take()` may come between the two - the last `put()` leaves
its idle timer running behind a flush (`client.ts:467`, `471`), or the body is reset
and the next answer flushes the buffer.
`TakeBatch` is `processBatch` up to the transaction with the transaction's reads
and assertions; `Commit` is its commit and the rest of `processBatch` (a crash
between the two leaves the same state as a crash after `Commit`, since a crash
takes all memory); `Abort` is a failed commit with its retry, including the slice
heads the failed attempt has already collected.  A failed assertion ends the
process; `fault` says which.  A transaction of a process whose nonce is behind that
of the tables finds no fault but the race.  The two loops of `findRollbackIndex`
are a step (`WalkStep`) that is repeated as often as the two lists are long.  `put`
waits while the buffer holds as much as one batch may (`Fits`).  `Start` is `connect`, `Reconfigure` turns hot blocks
on or off between two starts.

**PortalStream.**  The ingest loop of `createPortalStream()` and its buffer.  The
semaphores `putFuture`/`takeFuture` and the two timers are Booleans; a timer may
fire whenever it is set.  Blocks are numbers of one byte, so that the buffer is
full at two.

**Fallback.**  `runStream()` with `SourceHealth` of each source, the selector,
cached head polls and capability probes.  Clocks are left open: a cooldown, a
cache or a staleness limit may run out at any step, with the two exceptions that
no time passes between a failure and the next selection, and, unless
`LongProbes`, a probe does not outlast a cooldown.

**AsyncQueue, ConcurrentMap.**  One JavaScript method up to its first `await` is a
step.  The queue has its real ring buffer, which a put to a full one enlarges in
place.  The number of producers is the one the callers in the repository have:
two at a queue of one, one at a longer queue, unless `Shared`.

### Serving and reading blocks

**Chain, DataService.**  `Chain` has the operations of the window as operators:
push, finalize, compact, query, fork bases.  `DataService` is `run()` with its
ingest sessions (start, batch, fork, failure, restart with
back-off counting) and clients that query, wait and time out.  Block numbers have
gaps.  Replicas of the node may serve a fork the node has just left.  The stream
leaves out no block (`UnfilteredAssumption`), and it sends no block beside a
finalized head it has told of in the same session, unless `VerifiedFinality` is
`FALSE` (`SourceFinal`).

**StreamResponse.**  A request below the window from the query to the end of the
HTTP response: the stream of missing blocks, the snapshot after it, back pressure,
the time limit, a client that disconnects at any point.

**RpcDataSource.**  `jobs()` with strides and poll, `concurrentMap` of requests,
`ensureContinuity()` and `finalize()`, which probes delivered blocks for finality
while more are delivered.

**RpcClient, RateMeter, Subscriptions, HeadLoop.**  The client's queue, capacity,
back-off epochs, retries, reset and close over both transports; the ring of the
rate meter under a clock that may be set back; handles that subscribe, are reset
and closed while connections are lost; and the loop which takes the newest head
from a queue with room for one.

### Older processors and archives

**Runner, HotProcessor.**  `run()` of the older processors with `coldIngest()`,
`archiveIngest()` and `HotProcessor.goto()`.  Its database is the record of
`IndexedChain`.  The node reports heights, and its finality is by confirmations.

**Archive.**  Dumpers append to directories: `Start` is `append()` with
`getAppendState()`, `Receive` and `Refuse` are a batch of `appendRawBlocks()`
with the continuity check of `ingest()`, and a chunk is written by `PutChunk` on
S3 or by `MakeTopDir` and `MoveChunk` on a disk, between which a dumper may
crash.  Blocks skip numbers, and a batch is any part of what is ahead (`Batches`):
the blocks of the source between two numbers are found by counting those below
(`Below`).

**Ranges.**  `mergeRangeRequests()` iteration by iteration over the binary heap of
`heap.js`; `applyRangeBound()`, `splitRangeByRequest()` and `getRequestAt()` as
operators.

### Model checking modules

`MCBlockTree`, `MCChains`, `MCChangeTracker` define instances.  Components that
share no state are checked in one run, one at a time: in `MCTypeormStore`
(variable `level`), `MCStreams`, `MCRpc` and `MCRunner` (variable `running`) a
behaviour is one of the component chosen at its start, while the others rest in an
initial state.  Nothing is composed that way: these modules only save runs.
Real compositions are `BatchProcessor` (with `TypeormDatabase`), `DataService`
(with `Chain`) and `Runner` (with `HotProcessor`).

## 3. Runs

| run (module) | properties | shows |
|---|---|---|
| `typeorm_store` (MCTypeormStore) | `Addressable`, `IndInv`, `ImplementsIndexedChain` | every legal order of hot, stale, empty and final transactions and reconnects leaves one complete chain; `IndInv` is the inductive invariant of section 5 |
| | `GroupsKeepOneChain` | with every unfinalized batch one group, blocks and templates still tell one chain after a rollback |
| | `RollbackRestores` | undoing hot blocks gives back the rows exactly |
| `pipeline` (MCBatchProcessor) | `ProcessorIsSound`, `FailsOnlyAhead`, `UsesDatabaseAsSpecified`, `ForkFindsCommonBase`, `CatchesUp` | through a fork, stale finality, a header seen before its lines, a crash anywhere, an aborted transaction and hot blocks turned on later |
| `two_processors` (MCBatchProcessor) | `ImplementsIndexedChain` | two processors cannot corrupt the tables |
| `data_service` (MCDataService) | `WindowIsSound`, `NoMissedBlock`, `AnswersContinue`, `FinalityMovesUp`, `ClientsCatchUp` | a service and a client under a node that forks, also to a shorter chain |
| `rpc_source` (MCRpcDataSource) | `KeepsContract`, `ReachesHead` | the stream implements `BlockStream` although replicas disagree |
| `streams` (MCStreams) | `NothingForgotten`, `EveryItemInOrder`, `NobodyWaitsForEver` | AsyncQueue and `concurrentMap()` |
| | `StreamIsSound`, `BlocksMoveOn` | the buffered portal stream |
| | `ResponseIsChain`, `ReleasedUnlessAbandoned` | the streamed response; its only way not to end |
| | `FallbackIsSound`, `WorkingSourceServes` | the fallback over two sources, of which one may hang |
| `rpc` (MCRpc) | `ClientIsSound`, `CallsSettle` | the client over both transports |
| | `SubscriptionsMatch`, `StaysSubscribed`; `RateIsKept`; `NewestTaken` | subscriptions; rate meter; head loop |
| `runner` (MCRunner) | `RunnerIsSound`, `IndexesOneChain`, `NoStepBack`, `TipIsReached` | the older processors, with polling and with subscribed heads |
| | `ArchiveIsSound`, `ArchiveCompletes` | two dumpers with crashes, on a disk and on S3 |
| | `RequestsAreKept` | the merge of data requests |
| `grouped_finality` (MCTypeormDatabase) | `FinalizedIsPermanent` **fails** | finality inside a group |
| `two_cascades` (MCChangeTracker) | `RollbackRestores` **fails** | two cascading columns lead to one row |
| `fallback_starves` (Fallback) | `WorkingSourceServes` **fails** | two hanging sources before a third |
| `response_gap` (StreamResponse) | `NoGap` **fails** | the time limit of a response skips blocks |

### Findings

The four violations, with the lines they contradict, are in `PROJECT.json`:

1. a group of hot blocks that is finalized only in part keeps its undo records, so
   a fork above the finalized head reverts finalized blocks (`database.ts:326`);
2. a row that two cascading columns of one table lead to is recorded twice and
   cannot be restored (`hot.ts:160`);
3. with cooldowns shorter than the staleness limit, as by default, the fallback
   returns to the first hanging source whenever it leaves the second, and never
   drives the third (`fallback.ts:141`);
4. the time limit of a response leaves the loop over the missing blocks, and the
   window is written right after those that were sent: the response has a gap
   (`http-app.ts:173`).

### What else does not hold

The modules keep these as definitions or as values of a constant; the runs choose
the other one.

* `TypeormDatabase!EveryBlockAddressable` with groups: a block inside a group has
  no row of its own.
* `BatchProcessor!NoFalseRace` when hot blocks are turned off (`Switches` with
  `<<TRUE, FALSE>>`) while hot rows are left: `run.ts:351` takes itself for a
  second processor.
* `BatchProcessor!AssertionsHold`, with a header that is taken before its lines
  (`MaxHeaders` above 0, as in `pipeline`) or with a `StartHeight` above the tip: the
  batch has no blocks and a finalized head above its base, `run.ts:229` submits it,
  and the assertion of `database.ts:216` ends the process.  A restart gets over it in
  the first case - `CatchesUp` holds with it.  `FailsOnlyAhead` says that a processor
  which has the database for itself fails in no other way.
* `DataService!ToldFinalityFits`: a request above the last block of the service
  after a fork to a shorter chain is answered with a finalized head that need not be
  on the client's chain (`chain.ts:131`).
* `DataService!IngestSurvives` with `VerifiedFinality = FALSE`.  A source that does
  not check its finalized head, as TRON's (`ingest.ts:103`), can tell of a head that
  is off the window's chain, and the session fails its assertion (`ingest.fault`).
  `BlockStream` is not enough to rule that out, as it relates each batch to the
  finalized heads told so far only as far as they are delivered: a source that tells
  of a head above its own tip and then delivers a block of a fork beside that head -
  a replica that lags may - makes `finalize()` settle a block that is not final, or
  fail.  What the service needs is a contract for the whole session, `Comparable` in
  `SourceFinal`.
* `AsyncQueue!FirstInFirstOut` with `Shared = TRUE`, two producers at a queue of
  two: `enlargeBuffer()` moves the first wrapped value to the end of the buffer and
  then clears just that slot (`async.ts:80`), and the new value overwrites the
  other.  A queue of one loses a value in the same way with three producers.  The
  callers in the repository do not get there: the only queues two loops put to are
  those of one in the finalizers.
* `<>Over` in `StreamResponse`: a client that leaves while the handler waits for it to
  read leaves the handler waiting for ever, as `waitDrain()` listens for `drain` and
  `error` only (`io.ts:29`), and the stream behind it is not released.
  `ReleasedUnlessAbandoned` says that this is the only such case, and that there the
  request does not end.
* `Runner` with `Lagging = TRUE`: replicas behind the height that was seen make
  `runner.ts:97` fail its assertion.
* `HeadLoop!OnlyErrorsStop`: when no head comes for `newHeadTimeout`, the take that
  timed out still waits at the queue, and the next one fails the assertion of
  `AsyncQueue.take()` (`ds-rpc/client.ts:208`).
* `Fallback!HealthyIsProven` with `LongProbes = TRUE`: a probe that outlasts a
  cooldown vouches for a source that has failed since it began.
* `Archive!ArchiveLinks` on a disk when the finalized chain of the source changes
  after a crash between making a top directory and moving the chunk into it: the
  empty directory hides the hash the next block is to be compared with
  (`layout.ts:172`).  Hence its condition in `ArchiveIsSound`.
* `Archive!ArchiveLinks` on S3 without `NoticesSwitches`, for a range whose last
  number is skipped by the chain the source changes to: no batch comes any more, so
  `ingest()` compares no hash (`dumper.ts:195`), and a dumper is done with chunks of
  the old chain that lack a block it has further up in the range.
* `ArchiveCompletes` for a range that begins behind skipped numbers: the first
  chunk would begin below the range, the assertion of `layout.ts:145` fails and
  does so after each restart.

## 4. Bounds, fairness, assumptions

**Bounds.**  Trees have a trunk and a branch above the first block, so that a fork
can part above, at and below the finalized head.

* `typeorm_store`: four levels and six transactions - map two batches, finalize
  into them, fork, extend the fork, reconnect, switch to final transactions; five
  transactions with groups, on a dense tree.  `a2` and `b3` are not asked for on
  the first level, which makes heights of the tables and of fork reports differ.
  One owner, account and transfer, two hot blocks and four change records: a
  delete that cascades through three tables and one more change.
* `pipeline`: three levels and one each of reorganisation, crash, spurious abort
  and retry: the fork leaves up to two blocks to undo, and each disturbance can
  hit at every point of a batch.  `two_processors`: two levels; each processor can
  hold one stale head and one stale batch.  `MaxIdle` bounds polls without news,
  `MaxLag` how far a reported finalized head is behind, `MaxNonce` is out of reach
  there.  `MaxHeaders`, one in both runs, bounds the
  headers that are handed over before their lines.
* `data_service`: a window of two blocks over a trunk of four and a branch of one
  block beside the third, so that it is trimmed, cut and restarted, and a session may
  be told of finality before it gets to the fork; numbers have gaps; one fork, one
  failed session, one idle answer, one client (clients do not affect each other, and
  several wait as one does).
* `rpc_source`: strides of one block, two at once, one more block in the finality
  queue than is probed: every overtaking of two requests occurs.
* `streams`: a queue of one with two producers and six puts grows and wraps its
  ring, one of two with one producer wraps and fills; five items through two concurrent calls; five blocks through a buffer of
  two; three missing blocks and a snapshot of two in batches of at most two;
  two sources and one upset.
* `rpc`: three calls on a capacity of two with two faults; two handles; a window
  of two slots with batches of two, over nine slots; heads of heights up to two.
* `runner`: six levels, so that an archive overtakes the hot blocks of a stopped
  processor, two forks, one crash, one failed request; two dumpers with ranges of
  a few blocks, two chunks a directory; up to three requests over four block
  numbers, with and without an end.

`SYMMETRY` is used for the two processors, which differ in nothing.

**Deadlock** is not checked: a quiet node with everybody caught up, a stream at
its end and exhausted bounds are proper ends, in each of the runs.  That nobody
waits for somebody who waits is stated by `NoStandoff`, `NoIdleWaiters`,
`NoLostWakeup` and the liveness properties.

**Fairness.**  Everywhere weak fairness of what the process itself does: promises
that are resolved go on, timers fire, requests are answered or fail, and a
supervisor restarts a process.  Nothing is assumed of the node, the portal or a
client, with these exceptions: replicas come to agree (`ReplicasAgree`), the
finalized head that is polled is the latest again and again, and the chain of a
fallback's source that is not mute grows to the end of the request.  Strong
fairness is used twice, in `RpcDataSource`: `Poll` and `EndProbe` are requests
that are made over and over, and an answer that would bring news is not refused
for ever.  Answers that are stale, idle, faulty or late may come but their number
is bounded.

**Assumptions on the surroundings.**  One answer is consistent: its blocks and its
finalized head are of one chain.  Towards `BatchProcessor` the node never switches
to a shorter chain than the one it leaves (`DataService` allows it).  A fork report
reaches down to a block the processor has (`ForkWindow`).  Two dumpers have disjoint
ranges, and one dumper of a range runs at a time; the numbers of a chain ascend, and
a block's hash stands for all that is below it (`ChainsAssumption`).  Several replicas may disagree
about the last fork only, and agree about what is final: a block asked for by number
at or below the finalized height is of the final chain (`RpcDataSource`), and a service
that restarts is told the latest finalized block (`DataService`).

**What the bounds leave out.**  `runner` has one failed request, and the attempts for
a hot head never run out; `HealthyIsProven` is checked for probes that end within a
cooldown, as both are 30 seconds by default.  `ResponseIsChain` leaves out responses
that ran into the time limit, of which `NoGap` fails.  `RateIsKept` allows the limit
plus what one batch has over one call, as the meter is asked before a batch and told
after it; the comment at `client.ts:26` speaks of a plain maximum.

## 5. Proofs

Each theorem is about every value of the constants that its hypotheses and the
assumptions of the modules admit.  The inductive invariants are definitions that TLC
was asked first; several were found because a weaker one was not inductive, and two
flaws of the model showed only there: `DataService` trusted a contract that does not
carry its properties (section 3), and a process behind the nonce of the tables
failed assertions on a state it does not read.

| module | theorems | hypotheses |
|---|---|---|
| `TypeormDatabaseProofs` | `GroupsInvAlways`, `GroupsAlwaysKeepOneChain`, `ConnectAssertsAlwaysHold` | - |
| | `SoundAlways`, `AddressableAlways`, `FinalizedIsAlwaysPermanent`, `DatabaseImplementsIndexedChain` | `Ungrouped` |
| `BatchProcessorProofs` | `ProcessorInvAlways`, `ProcessorImplementsDatabase`, `ProcessorIndexesChain`, `ProcessorKeepsFinalized`, `ProcessorAddressable` | `Ungrouped` |
| `LoneProcessorProofs` | `LoneProcessorIsSound` | `Ungrouped`, `Lone` |
| | `LoneProcessorFailsOnlyAhead`, `ForkIsCutAtCommonBase` | `Ungrouped`, `Lone`, `HotForGood`, `[]WindowReaches` |
| `DataServiceProofs` | `ServiceInvAlways`, `DataServiceIsSound`, `ServiceMissesNoBlock`, `ServiceFinalityMovesUp`, `ServiceAnswersContinue` | `Trusted` |
| `StreamsProofs` | `NothingForgottenAlways` | `Shared = FALSE`, `AtMostTwo` |
| | `EveryItemInOrderAlways`, `StreamIsSoundAlways`, `ResponseIsChainAlways` | - |
| | `FallbackIsSoundAlways` | `LongProbes = FALSE` |
| `RpcProofs` | `ClientIsSoundAlways`, `SubscriptionsMatchAlways`, `RateIsKeptAlways` | - |
| `RunnerProofs` | `RunnerInvAlways`, `RunnerIndexesOneChain` | - |
| | `RunnerAlwaysSound`, `RunnerNeverStepsBack` | `~ Lagging` |
| | `ArchiveInvAlways`, `ArchiveAlwaysSound` | - |

`BlockTreeProofs` holds what they share: ancestry (`AncestorTransitive`,
`AncestorLinear`, `AncestorUnique`, from the assumptions on `Path`) and the least
position that a counting operator `CHOOSE`s (`LeastNatural`, by well-foundedness).

**The hypotheses.**  `Ungrouped`: no batch has `2 * GroupDivisor` blocks, 200 in the
code; `grouped_finality` is a counterexample to permanence without it.  `Lone`: the processor has
the database for itself.  `HotForGood`: hot blocks are not turned off again;
`NoFalseRace` in section 3 is what happens otherwise.  `WindowReaches`: a fork report goes down to the
finalized head of the processor, a condition on the node (100 blocks in the code)
and so a temporal hypothesis, not a bound of the model.  `Trusted`: the source keeps
its word about finality (`VerifiedFinality`), and `autoAdjustFinalizedHead`, which
gives finality up for memory, is off; both are the values the run has.  `AtMostTwo` and `Shared = FALSE`: the callers
an `AsyncQueue` has in the repository.  `LongProbes = FALSE`: no probe outlasts a
cooldown.  `~ Lagging`: the node does not report a height below one it has reported;
what is indexed is one chain, and final, even if it does.  Section 3 tells what fails
without each of them.  `RunnerAssumption` says that no block
the squid asks for is below the first one it requests (`From`), the beginning of the
first range in `runner.ts`.  The theorems of
`RpcProofs` are about any finite sets of calls and handles (`RpcAssumption`,
`SubscriptionsAssumption`).

**The database.**  `Addressable` is not inductive: it does not say that the row of a
block undoes just that block, nor where the finalized blocks end.  `Sound` adds that
the hot rows are the last mapped blocks, one each (`RowsAreTail`), that the finalized
head parts the settled blocks from those of the rows (`SplitAtFinal`) and that the
tables tell the chain of the head (`HeadReflected`).  A rollback to a row cuts the
sequence at that row and is sound again (`RollbackSound`); new blocks on top of the
base keep it sound before finality is applied (`BatchReflects`, `ExtendSound`); and
applying a finalized head that is on the chain and not below the old one only moves
the boundary (`CutAtFinal`).

**Groups.**  A row stands for the mapped blocks that only it undoes, which are those of
its group and, once a row below it is gone, whatever is finalized of the groups before.
`GroupsSound` says that the rows climb the chain of the head with marks that do not go
down, that the blocks before a row's mark are at or below the row before it or
finalized (`RowsClimb`), and that a template is filed under the row that covers its
block, or under a finalized height when no row that could take the block away is left
above it (`FiledRight`).  `GroupRows` is the arithmetic of the grouping, for every divisor and batch:
the groups follow each other without gaps, and `GroupEnd` finds the group of a block.
A batch is mapped (`ExtendedFits`) before the finalized rows go (`GroupsPruned`), as in
the code, and a rollback takes a row's blocks and templates and no others
(`GroupsRolledBack`).  The state that is left is one chain with its templates, which
the finding on groups does not contradict: a finalized block inside a group can still
be undone.

**The processor.**  That every commit is a transaction the database admits needs to
be known before the commit, while other processes and the node move on.
`ProcessorInv` says of each process that its heads in memory are one chain, that its
buffer continues it (`StreamContinues`), and that an open transaction would still be
admitted unless somebody has committed since, which its nonce then shows
(`TransactionFits`).  `findRollbackIndex` is treated as a repeated step: whatever
holds of the pair of indices and is kept by `WalkStep` holds at its end.  With
`ProcessorImplementsDatabase` the theorems about the database carry over to any
number of processors by temporal logic alone.

**A lone processor.**  `LoneInv`: what the process remembers is what the tables
hold - its finalized head is the committed one, its heads above that are mapped
blocks - also after a failed attempt has left heads twice.  `SteadyInv` adds what
keeps it from failing otherwise than `FailsOnlyAhead` tells: a stream of final blocks
delivers nothing it has not reported as finalized (`FinalStream`), a fork report is a
run of one chain from the committed finalized head up (`ForkFits`), and memory leaves
out no committed block (`MemoryIsComplete`).  The last is why the cut is the highest
common block, and not just a common one.  A stream of hot blocks may tell of finality
above all it has delivered.  With blocks in the batch that does no harm, as the
finalized head that is submitted is then one of the batch or an older one
(`SubmittedFinalized`), and `NoFault` shows that the transaction is admitted; without
any, `AheadFails` shows that it is not.  As the blocks of a transaction that is
tried again are those of its first attempt, only `TakeBatch` can end that way, which is
`OnlyAheadEnds`.

**The data service.**  `ServiceInv` is the conjunction of what the run checks with
`SessionFits`: the position of a session is a block of the window that may be rolled
back to, it is the last one once the session has delivered, and what the session was
told is on the node's finalized chain and comparable with its position.  Without the
last, `finalize()` may settle a block of the wrong branch.  Each operation of `Chain`
has a lemma on windows - push, cut, finalize, trim, query - and the steps of
`DataService` follow from them.

**The streams.**  The machines of `MCStreams` hand on numbered values, and each
invariant says that what is under way is numbered without a gap.

* `QueueInv`: the ring buffer holds a sequence of values (`Holds`), and what was
  received followed by it is what was sent (`QueueRing`); whoever may put finds a free
  slot, or the one slot of a queue of one taken (`QueueRoom`).  The latter makes the
  queue grow only while its position is the first slot, where growing is harmless.
  Each operation on the ring has a lemma (`HoldsPush`, `HoldsReplace`, `HoldsTake`,
  `HoldsEnlarge`), with the arithmetic of going round it in `AroundTheRing`.
* `MapInv`: the results handed over, the awaited promise and the promises in the
  queue are consecutive items (`MapNumbered`), they are all the calls that were
  started but for one that a closed queue refused (`MapComplete`), a full queue stops
  `map()` (`MapRoom`), and while the consumer iterates nobody but the end of the
  stream closes the queue (`MapClosing`), which is why an iteration that ends
  regularly has seen everything.
* `PortalInv`: delivered and buffered blocks continue each other up to the position
  of `ingest()` (`PortalOrder`), a semaphore that is shut has its reason
  (`PortalWaits`), and the end comes after the data (`PortalEnds`).
* `ResponseInv`: what is written, and what is left of the batch, is the beginning of
  the chain while there is time.
* `FallbackInv`: the consumer has the blocks below `position` (`FallbackOrder`), and
  the state of a health, its counters and its probe agree (`FallbackHealth`): a probe
  that began before the last failure never vouches for a healthy source.

**The RPC connection.**  The three machines of `MCRpc`, whose books count things.

* `ClientInv`: the free units of capacity and the calls on their way are `MaxCapacity`
  (`Balanced`); a client that could send a queued call is scheduled (`Woken`); and
  every answer the client would still listen to is about a call on its way, so that
  none is unknown (`WireFits`).  The first `n` calls of the queue are defined by how
  many calls are below each, and are `n` calls for every finite queue (`Lowest`).
  Whatever a call ends with - answer, failure, time-out, reset, `close()` - is one
  lemma about the calls that leave (`ReleaseKeeps`).
* `SubInv`: a handle carries one token at most (`Load`) - its call to subscribe, the
  call of `reset()` to cancel after which it subscribes, the answer to either, or the
  id it is filed under.  Whoever subscribes again when the connection is lost had its
  token on that connection, which is why the client's own repetition of calls and the
  handles' new ones together are still one (`LostKeeps`).  `AnswersFit` says that an
  answer carries the subscription of its own handle, and that what the server was told
  to cancel is gone; with it every subscription of the server is `Wanted`.
* `RateInv`: the place of each slot of the last round in the ring holds what was sent
  in it, since slots less than a round apart have different places (`PlacesDiffer`).
  A sum over slots is the number of requests in them (`Requests`), so a range of slots
  that holds the current one has at most what the meter just reported, and one batch
  (`SentBounded`).

**The older runner.**  `RunnerInv` ties the phases together by heights.  The stream of
finalized blocks goes on at the block after the database's final one, whatever it has
read ahead, and reads no further than what is final for the node (`ColdFits`); it keeps
batches back only while the hot blocks of the database are above them.  The finalized
height aimed at is one of a final block (`TargetFits`).  A head that waits, or that
`goto()` is about, vouches for the blocks below its finalized height, although the node
may have left it since (`Vouched`): two blocks that begin with the same final chain have
the same block at that height (`AtShared`).  The blocks that `goto()` has yet to ask for
are above the final one, also after a failure and a retry with a chain that has moved
(`GotoFits`); so the walk of `moveToBlocks()` from any of them meets the local chain at
or above its final block (`CommonIs`, `HotBatchGoes`), which is the assertion.  A
transaction of either kind replaces the blocks above a base by those of another chain;
`SpliceReflects` says that what is mapped then is the new chain, with what was mapped
up to the base in place, and both `transact()` and `transactHot2()` are instances.

**The archive.**  `ArchiveInv` says of each range where it ends: `EndsAt(w, n)`, its
chunks fill it up to below `n` and no further, for one `n` only (`OneEnd`).  A dumper
that is up goes on there, in the last top directory of its range, or the one it has
just made (`WriterFits`); a top directory that is left empty by a crash is at the end,
too (`RangeFits`); and chunks lie between their top directory and the next one, which
is what both readers and writers rely on (`ChunkFits`).  So whatever a crash left,
`getAppendState()` finds the end again (`StartIs`), although other dumpers have top
directories on either side, and a chunk that is written there lies between its
neighbours (`FileFits`, `NewTop`).  `Linked` is about the blocks: those in the chunks and
those in memory are the parts of one chain between the same numbers.  Where a batch is
accepted, the source has the block before it; two chains that share a block are the
same up to it (`SamePart`), so all that is filed and in memory may be read as the
source's (`SourceGoesOn`), whatever it was when it was written.  That the first block
behind an empty directory is not compared is why this holds on a disk only without a
change of the source.

**Only model-checked.**  Every liveness property - fairness and `ENABLED` are out of
the prover's reach - and with them `CatchesUp`, `ClientsCatchUp`, `ReachesHead`,
`CallsSettle`.
`RollbackRestores`: `ChangeTracker` is written with a recursive operator, as the code
is, and so has no theorems.  A notification gets only to the handle it is for
(`DeliveredToOwner`): that needs a second count, of the claims on each id.
`RequestsAreKept`: what a heap pops and what the merge has collected are results of
recursions and folds over sequences of any length, which takes induction over data.
So far also the refinement of `RpcDataSource`.

## 6. Not modelled

* **Portal HTTP handling** (`http-client`): a retry loop around one request.  What
  it promises, an answer or an error after bounded retries, is an assumption of
  `PortalStream` and `RpcClient`.
* **Archive client**: a request loop that keeps no state between requests.
* **GraphQL servers**: compile queries to SQL, without state of their own.
* **Codecs, type systems, metadata definitions, code generation**: most of the
  lines of the repository; pure conversion over unbounded inputs, declarative
  tables and generated code.
* **Data sources of the other chains** follow the EVM one or map data; what
  differs for finality, TRON's unchecked head, is a parameter of `DataService`.
* In modelled components: the schema migration of old databases, JSON and bytea
  conversion of fields, priorities in the RPC queue beyond the order of ids,
  subscriptions whose handle does not resubscribe, finality by hash in
  `HotProcessor`, metrics and logs.

Hazards seen in the code that no property covers are listed with a note in
`PROJECT.json`: cycles of cascading keys (`hot.ts:173`), keys with `SET NULL`
(`hot.ts:32`), ranges that begin behind skipped numbers (`layout.ts:145`).
Smaller ones seen in passing: `Heap.init` on an array of one element computes with
a shift of a negative number, and its only caller passes two or more; block 0 as last block is falsy in
`poll-stream.ts:33`.

What would be worth doing next: the refinement of `RpcDataSource` as a theorem, for
any number of strides and replicas, the HTTP client with its abort signal and timers,
and the fallback composed with `PortalStream`.
