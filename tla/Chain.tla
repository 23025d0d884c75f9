-------------------------------- MODULE Chain --------------------------------
(***************************************************************************)
(* The window of recent blocks a data service keeps                         *)
(* (util/util-internal-data-service/src/chain.ts), as operators on a record *)
(* [blocks, fin]: the blocks from the oldest to the newest, and the position *)
(* of the finalized one, counted from 1.                                     *)
(*                                                                          *)
(* Block numbers may have gaps (Solana's skipped slots): Number gives them.  *)
(***************************************************************************)
EXTENDS BlockTree, FiniteSets

CONSTANTS
    Number,         \* [Ref -> Int], the numbers of the blocks
    MaxSize,        \* maxSize, the blocks to keep
    AutoAdjust,     \* autoAdjustFinalizedHead
    ForkWindow      \* how many previous blocks a fork report lists, 100

ASSUME ChainAssumption ==
    /\ Number \in [Ref -> Int]
    /\ \A r, t \in Ref : On(r, t) /\ r # t => Number[r] < Number[t]
    /\ MaxSize \in Nat \ {0}
    /\ ForkWindow \in Nat \ {0}
    /\ AutoAdjust \in BOOLEAN

Parent(b) == IF Len(Path[b]) > 1 THEN Path[b][Len(Path[b]) - 1] ELSE Origin

NewChain(base) == [blocks |-> << base >>, fin |-> 1]

FirstBlock(ch) == ch.blocks[1]
LastBlock(ch) == ch.blocks[Len(ch.blocks)]
FinalizedHead(ch) == ch.blocks[ch.fin]

\* bisect(): the position of block number n, or of the first one above it.
Bisect(ch, n) == 1 + Cardinality({i \in DOMAIN ch.blocks : Number[ch.blocks[i]] < n})

\* Bug: the finalized head may be dropped, too.
CompactAll(ch) ==
    LET extra == Len(ch.blocks) - MaxSize
    IN  IF extra <= 0 THEN ch
        ELSE [blocks |-> SubSeq(ch.blocks, extra + 1, Len(ch.blocks)),
              fin |-> IF ch.fin > extra THEN ch.fin - extra ELSE 1]

\* compact(): the oldest blocks go, finalized ones only.  With autoAdjust the
\* finalized head is moved up where it is in the way.
Compact(ch) ==
    LET extra == Len(ch.blocks) - MaxSize
        fin   == IF AutoAdjust /\ ch.fin - 1 < extra THEN extra + 1 ELSE ch.fin
        trim  == IF extra < fin - 1 THEN extra ELSE fin - 1
    IN  IF extra <= 0 THEN ch
        ELSE [blocks |-> SubSeq(ch.blocks, trim + 1, Len(ch.blocks)),
              fin |-> fin - trim]

\* push(): where the new block goes, and its assertions.
PushPos(ch, b) ==
    IF Number[LastBlock(ch)] = Number[Parent(b)] THEN Len(ch.blocks)
    ELSE Bisect(ch, Number[Parent(b)])

PushAsserts(ch, b) ==
    LET pos == PushPos(ch, b)
    IN  /\ pos >= ch.fin
        /\ pos <= Len(ch.blocks)
        /\ ch.blocks[pos] = Parent(b)

Push(ch, b) ==
    [ch EXCEPT !.blocks = Append(SubSeq(@, 1, PushPos(ch, b)), b)]

\* The blocks of a batch, up to the first that fails an assertion.
PushNext(acc, b) ==
    IF acc.ok /\ PushAsserts(acc.chain, b) THEN [acc EXCEPT !.chain = Push(@, b)]
    ELSE [acc EXCEPT !.ok = FALSE]

PushAll(ch, blocks) ==
    LET pushed[n \in 0..Len(blocks)] ==
            IF n = 0 THEN [chain |-> ch, ok |-> TRUE] ELSE PushNext(pushed[n - 1], blocks[n])
    IN  pushed[Len(blocks)]

\* finalize(): the assertion ...
FinalizeAsserts(ch, head) ==
    \/ Number[head] < Number[FirstBlock(ch)]
    \/ Number[head] > Number[LastBlock(ch)]
    \/ ch.blocks[Bisect(ch, Number[head])] = head

\* Bug: the finalized head follows a stale report down.
FinalizeDown(ch, head) ==
    CASE Number[head] < Number[FirstBlock(ch)] -> ch
      [] Number[head] > Number[LastBlock(ch)]  -> [ch EXCEPT !.fin = Len(ch.blocks)]
      [] OTHER -> [ch EXCEPT !.fin = Bisect(ch, Number[head])]

\* ... and the new position.  A head above the last block finalizes all.
Finalize(ch, head) ==
    LET pos == Bisect(ch, Number[head])
    IN  CASE Number[head] < Number[FirstBlock(ch)] -> ch
          [] Number[head] > Number[LastBlock(ch)]  -> [ch EXCEPT !.fin = Len(ch.blocks)]
          [] OTHER -> [ch EXCEPT !.fin = IF pos > @ THEN pos ELSE @]

Window(n) == IF n > ForkWindow THEN n - ForkWindow ELSE 0

\* Bug: the parent hash of the request is not compared.
QueryUnchecked(ch, at) ==
    LET pos == Bisect(ch, Number[at] + 1)
    IN  IF pos <= Len(ch.blocks)
        THEN [kind |-> "data", final |-> FinalizedHead(ch),
              refs |-> SubSeq(ch.blocks, pos, Len(ch.blocks))]
        ELSE [kind |-> "nodata", final |-> FinalizedHead(ch), refs |-> << >>]

\* query() for the blocks above at, with the hash of at as baseBlockHash.
Query(ch, at) ==
    LET from == Number[at] + 1
        size == Len(ch.blocks)
        pos  == Bisect(ch, from)
    IN  IF from <= Number[Parent(FirstBlock(ch))]
        THEN [kind |-> "nodata", final |-> Origin, refs |-> << >>]
        ELSE
        CASE pos <= size /\ Parent(ch.blocks[pos]) # at ->
                 [kind |-> "fork", final |-> Origin,
                  refs |-> [i \in 1..(pos - Window(pos - 1)) |->
                                Parent(ch.blocks[Window(pos - 1) + i])]]
          [] pos <= size /\ Parent(ch.blocks[pos]) = at ->
                 [kind |-> "data", final |-> FinalizedHead(ch),
                  refs |-> SubSeq(ch.blocks, pos, size)]
          [] pos > size /\ from = Number[LastBlock(ch)] + 1 /\ at # LastBlock(ch) ->
                 [kind |-> "fork", final |-> Origin,
                  refs |-> SubSeq(ch.blocks, Window(size) + 1, size)]
          [] OTHER ->
                 [kind |-> "nodata", final |-> FinalizedHead(ch), refs |-> << >>]

\* getForkBase(): the positions the search can stop at.  prev is walked down next
\* to the chain; a block is the base when it is in prev or below all of it.
ForkBases(ch, prev) ==
    {i \in ch.fin..Len(ch.blocks) :
        LET below == {j \in DOMAIN prev : Number[prev[j]] <= Number[ch.blocks[i]]}
        IN  below = {} \/ prev[Cardinality(below)] = ch.blocks[i]}

\* Bug: the search stops where it began.
GetLastBlock(ch, prev) == LastBlock(ch)

GetForkBase(ch, prev) ==
    LET bases == ForkBases(ch, prev)
    IN  ch.blocks[CHOOSE i \in bases : \A j \in bases : j <= i]

==============================================================================
