------------------------------- MODULE Archive -------------------------------
(***************************************************************************)
(* A dump of a chain into an archive                                        *)
(* (util/util-internal-dump-cli/src/dumper.ts), laid out in directories by  *)
(* util/util-internal-archive-layout/src/layout.ts on a local disk or on S3 *)
(* (util/util-internal-fs).  Several dumpers, each with a range of its own, *)
(* may write to one archive.                                                *)
(*                                                                          *)
(* source   the finalized chain that the node shows                         *)
(* storage  "local" or "s3"                                                 *)
(* tops     the top directories: on S3 they are prefixes of the chunks      *)
(* chunks   the chunks: the top directory, the first block number and the   *)
(*          blocks of each; the name holds the last number and hash, too    *)
(* writer   the dumpers: phase; top, filed and next, the state of append()  *)
(*          (the number of chunks in the top directory, the next block      *)
(*          number); from and prev, the state of ingest(); buffer, the      *)
(*          blocks in memory                                                *)
(* used     crashes and changes of the finalized chain so far               *)
(***************************************************************************)
EXTENDS Integers, Sequences, FiniteSets, FiniteSetsExt, SequencesExt

CONSTANTS
    Chains,         \* sequences of [number, hash], which may part at a block
    Writer,
    RangeOf,        \* [Writer -> [from, to]], disjoint
    TopDirSize,
    Storages,       \* a part of {"local", "s3"}
    MaxSwitches,    \* bound: changes of the finalized chain
    MaxCrashes      \* bound: crashes and failed writes

Blocks == UNION {ToSet(c) : c \in Chains}

\* The numbers of a chain ascend.  A hash tells all that is below its block.
ChainsAssumption ==
    /\ \A c \in Chains :
        /\ c \in Seq(Blocks)
        /\ \A k \in 1..Len(c) : c[k].number \in Nat
        /\ \A k, l \in 1..Len(c) : k < l => c[k].number < c[l].number
    /\ \A c, d \in Chains : \A k \in 1..Len(c), l \in 1..Len(d) :
        c[k] = d[l] => SubSeq(c, 1, k) = SubSeq(d, 1, l)

ArchiveAssumption ==
    /\ ChainsAssumption
    /\ TopDirSize \in Nat \ {0}
    /\ {MaxSwitches, MaxCrashes} \subseteq Nat
    /\ RangeOf \in [Writer -> [from : Nat, to : Nat]]
    /\ \A v, w \in Writer : v # w => \/ RangeOf[v].to < RangeOf[w].from
                                     \/ RangeOf[w].to < RangeOf[v].from

VARIABLES source, storage, tops, chunks, writer, used

vars == << source, storage, tops, chunks, writer, used >>

NoBlock == [number |-> -1, hash |-> "none"]

\* The parent of a block, the same on every chain.  The number of NoBlock makes up for the
\* cases of a first block and of blocks that do not tell their parentNumber.
Parent(b) ==
    LET c == CHOOSE c \in Chains : \E k \in 1..Len(c) : c[k] = b
        k == CHOOSE k \in 1..Len(c) : c[k] = b
    IN  IF k = 1 THEN NoBlock ELSE c[k - 1]

\* How many blocks of a chain are below a number.
Below(c, n) == Cardinality({k \in 1..Len(c) : c[k].number < n})

InRange(c, r) == SubSeq(c, Below(c, r.from) + 1, Below(c, r.to + 1))

To(c) == Last(c.blocks).number

Dir(top) == {c \in chunks : c.top = top}

LastOf(cs) == CHOOSE c \in cs : \A d \in cs : d.from <= c.from
FirstOf(cs) == CHOOSE c \in cs : \A d \in cs : d.from >= c.from

------------------------------------------------------------------------------
(***************************************************************************)
(* ArchiveLayout: where to append, and what the next chunk is.              *)
(***************************************************************************)
\* Bug: the last top directory of the archive, whatever the range of the writer.
LastTopOfAll(w) == Max(tops)

\* The top directory that getAppendState() looks at, when there is one up to the range's
\* end.
LastTop(w) == Max({t \in tops : t <= RangeOf[w].to})

\* getAppendState() finds that another writer has been at the range.
Overlapping(w) ==
    /\ \E t \in tops : t <= RangeOf[w].to
    /\ LET dir == Dir(LastTop(w))
           r == RangeOf[w]
       IN  dir # {} /\ IF FirstOf(dir).from < r.from THEN To(LastOf(dir)) >= r.from
                       ELSE To(LastOf(dir)) > r.to

\* getAppendState(): the top directory to append to and the chunks it has.
AppendState(w) ==
    LET r == RangeOf[w] IN
    IF \A t \in tops : t > r.to THEN [top |-> r.from, dir |-> {}]
    ELSE LET top == LastTop(w)
             dir == Dir(top)
         IN  IF dir = {} THEN [top |-> Max({top, r.from}), dir |-> {}]
             ELSE IF FirstOf(dir).from < r.from THEN [top |-> r.from, dir |-> {}]
             ELSE [top |-> top, dir |-> dir]

\* Bug: skipped numbers before the first block of a chunk are left out of it.
FirstNumberOwn(blocks) == Head(blocks).number

\* The first number of a chunk: the one after the parent of its first block.
FirstNumber(blocks) == Parent(Head(blocks)).number + 1

\* getNextChunk(), which asserts that the chunk goes on where the last one ended.
InPlace(w) == FirstNumber(writer[w].buffer) = writer[w].next

NextTop(w) ==
    IF writer[w].filed >= TopDirSize THEN writer[w].next ELSE writer[w].top

NextChunk(w) ==
    [top |-> NextTop(w), from |-> writer[w].next, blocks |-> writer[w].buffer]

Saved(w) ==
    [writer[w] EXCEPT !.phase = "dumping",
                      !.top = NextTop(w),
                      !.filed = IF NextTop(w) = writer[w].top THEN @ + 1 ELSE 1,
                      !.next = To(NextChunk(w)) + 1,
                      !.buffer = << >>]

------------------------------------------------------------------------------
(***************************************************************************)
(* The dumpers.                                                             *)
(***************************************************************************)
Down == [phase |-> "down", top |-> 0, filed |-> 0, next |-> 0, from |-> 0, prev |-> NoBlock,
         buffer |-> << >>]

\* append(): the top directories, and the chunks of one of them, are listed.  Nobody else
\* writes to the directories of the range meanwhile.
Start(w) ==
    /\ writer[w].phase = "down" /\ ~ Overlapping(w)
    /\ LET s == AppendState(w)
           next == IF s.dir = {} THEN s.top ELSE To(LastOf(s.dir)) + 1
       IN  writer' = [writer EXCEPT ![w] =
               [Down EXCEPT !.phase = IF next > RangeOf[w].to THEN "done" ELSE "dumping",
                            !.top = s.top, !.filed = Cardinality(s.dir),
                            !.next = next, !.from = next,
                            !.prev = IF s.dir = {} THEN NoBlock ELSE Last(LastOf(s.dir).blocks)]]
    /\ UNCHANGED << source, storage, tops, chunks, used >>

\* The batches the stream may deliver next, of the blocks that are ahead in the range.
Batches(w) ==
    LET delivered == Below(source, writer[w].from)
    IN  {SubSeq(source, delivered + 1, n) :
            n \in delivered + 1..Below(source, RangeOf[w].to + 1)}

\* ingest() checks that a batch goes on from what came before, if it knows that.
Continues(w, b) ==
    writer[w].from # 0 /\ writer[w].prev # NoBlock =>
        writer[w].from = Parent(b).number + 1 /\ Parent(b) = writer[w].prev

\* A batch, after which the buffer may be large enough to be saved.
Receive(w) ==
    /\ writer[w].phase = "dumping"
    /\ \E batch \in Batches(w), phase \in {"dumping", "saving"} :
        /\ Continues(w, Head(batch))
        /\ writer' = [writer EXCEPT ![w].phase = phase,
                                    ![w].from = Last(batch).number + 1,
                                    ![w].prev = Last(batch),
                                    ![w].buffer = @ \o batch]
    /\ UNCHANGED << source, storage, tops, chunks, used >>

\* A block that is not a child of the last one, and a chunk that is out of place, end the
\* program; what was in memory is lost.
Refuse(w) ==
    /\ \/ writer[w].phase = "dumping" /\ \E batch \in Batches(w) : ~ Continues(w, Head(batch))
       \/ writer[w].phase = "saving" /\ ~ InPlace(w)
    /\ writer' = [writer EXCEPT ![w] = Down]
    /\ UNCHANGED << source, storage, tops, chunks, used >>

\* The stream has delivered the range; the rest is saved before append() returns.
StreamEnds(w) ==
    /\ writer[w].phase = "dumping" /\ Batches(w) = {}
    /\ writer' = [writer EXCEPT ![w].phase = IF writer[w].buffer = << >> THEN "done" ELSE "saving"]
    /\ UNCHANGED << source, storage, tops, chunks, used >>

\* save() to S3 puts one object.
PutChunk(w) ==
    /\ writer[w].phase = "saving" /\ storage = "s3" /\ InPlace(w)
    /\ tops' = tops \cup {NextTop(w)}
    /\ chunks' = chunks \cup {NextChunk(w)}
    /\ writer' = [writer EXCEPT ![w] = Saved(w)]
    /\ UNCHANGED << source, storage, used >>

\* save() to a disk writes to a temporary directory, for which it makes the top one ...
MakeTopDir(w) ==
    /\ writer[w].phase = "saving" /\ storage = "local" /\ InPlace(w)
    /\ tops' = tops \cup {NextTop(w)}
    /\ writer' = [writer EXCEPT ![w].phase = "writing"]
    /\ UNCHANGED << source, storage, chunks, used >>

\* ... and renames it.
MoveChunk(w) ==
    /\ writer[w].phase = "writing"
    /\ chunks' = chunks \cup {NextChunk(w)}
    /\ writer' = [writer EXCEPT ![w] = Saved(w)]
    /\ UNCHANGED << source, storage, tops, used >>

\* A crash or a failed write; a temporary directory that is left is not read by anyone.
Crash(w) ==
    /\ writer[w].phase \in {"dumping", "saving", "writing"}
    /\ used.crashes < MaxCrashes
    /\ used' = [used EXCEPT !.crashes = @ + 1]
    /\ writer' = [writer EXCEPT ![w] = Down]
    /\ UNCHANGED << source, storage, tops, chunks >>

\* What the node took for final is given up: its confirmations were too few.
Switch ==
    /\ used.switches < MaxSwitches
    /\ used' = [used EXCEPT !.switches = @ + 1]
    /\ source' \in Chains \ {source}
    /\ UNCHANGED << storage, tops, chunks, writer >>

Init ==
    /\ source \in Chains
    /\ storage \in Storages
    /\ tops = {} /\ chunks = {}
    /\ writer = [w \in Writer |-> Down]
    /\ used = [crashes |-> 0, switches |-> 0]

Dump(w) ==
    \/ Start(w) \/ Receive(w) \/ Refuse(w) \/ StreamEnds(w)
    \/ PutChunk(w) \/ MakeTopDir(w) \/ MoveChunk(w)

Next == Switch \/ \E w \in Writer : Dump(w) \/ Crash(w)

\* A dumper that has stopped is started again, and its source has the whole range.
Fairness == \A w \in Writer : WF_vars(Dump(w))

Spec == Init /\ [][Next]_vars /\ Fairness

------------------------------------------------------------------------------
\* getDataChunks() and readChunks(): what is read for a range, where a chunk above the range
\* ends the reading.
DataChunks(r) ==
    {c \in chunks :
        /\ c.top <= r.to
        /\ \A t \in tops : t > c.top => t >= r.from
        /\ c.from <= r.to /\ r.from <= To(c)
        /\ \A d \in chunks : d.top < c.top \/ (d.top = c.top /\ d.from < c.from) => d.from <= r.to}

\* The chunks of a writer's range.
Filed(w) == {c \in chunks : c.from \in RangeOf[w].from..RangeOf[w].to}

\* No reader or writer ever stops on what it finds in the archive.
Readable ==
    /\ \A w \in Writer : ~ Overlapping(w)
    /\ \A c \in chunks :
        /\ c.top <= c.from /\ c.from <= To(c)
        /\ \A t \in tops : t > c.top => t > To(c)
        /\ \A d \in chunks : c.from <= d.from /\ d.from <= To(c) => c = d

\* A range that is read is read in full.
ReadsBack ==
    \A from, to \in {b.number : b \in Blocks} : from <= to =>
        DataChunks([from |-> from, to |-> to]) = {c \in chunks : c.from <= to /\ from <= To(c)}

\* Every chunk belongs to the range of a writer, and those of a range follow one another
\* from its start.
Gapless ==
    /\ \A c \in chunks : \E w \in Writer : c \in Filed(w)
    /\ \A w \in Writer : \A c \in Filed(w) :
        /\ To(c) <= RangeOf[w].to
        /\ c.from # RangeOf[w].from => \E d \in Filed(w) : To(d) + 1 = c.from

\* A dumper that ends at a skipped number does not notice that the source has changed
\* below it.
NoticesSwitches(w) ==
    \A c \in Chains : \E k \in 1..Len(c) : c[k].number = RangeOf[w].to

\* The chunks of a range hold the blocks of one chain between their first and last numbers,
\* and all of those in the range for a dumper that is done.
ArchiveLinks ==
    \A w \in Writer : \E chain \in Chains :
        /\ \A c \in Filed(w) : c.blocks = InRange(chain, [from |-> c.from, to |-> To(c)])
        /\ writer[w].phase = "done" /\ (used.switches = 0 \/ NoticesSwitches(w)) =>
            \A k \in 1..Len(chain) :
                chain[k].number \in RangeOf[w].from..RangeOf[w].to =>
                    \E c \in Filed(w) : chain[k].number \in c.from..To(c)

\* Whatever crashes and restarts: the archive can be read and appended to, without gaps,
\* and what is read of it is everything; as long as the source keeps its finalized chain,
\* and on S3 anyway, it is that of one chain.
ArchiveIsSound ==
    /\ Readable /\ ReadsBack /\ Gapless
    /\ storage = "s3" \/ used.switches = 0 => ArchiveLinks

\* The archive holds a block that the source has given up.
GivenUp(w) == Filed(w) # {} /\ Last(LastOf(Filed(w)).blocks) \notin ToSet(source)

\* A dumper that is restarted gets its range done, unless the source has given up
\* what is archived.
ArchiveCompletes == \A w \in Writer : <>[](writer[w].phase = "done" \/ GivenUp(w))

------------------------------------------------------------------------------
(***************************************************************************)
(* The inductive invariant behind ArchiveIsSound.                            *)
(***************************************************************************)
TypeOK ==
    /\ source \in Chains
    /\ tops \subseteq Nat
    /\ chunks \subseteq [top : Nat, from : Nat, blocks : Seq(Blocks)]
    /\ IsFiniteSet(chunks)
    /\ writer \in [Writer -> [phase : {"down", "dumping", "saving", "writing", "done"},
                              top : Nat, filed : Nat, next : Nat, from : Nat,
                              prev : Blocks \cup {NoBlock}, buffer : Seq(Blocks)]]
    /\ used \in [crashes : Nat, switches : Nat]

\* The chunks of a range fill it up to below n.
EndsAt(w, n) ==
    /\ n \in Nat /\ RangeOf[w].from <= n
    /\ \A c \in Filed(w) : To(c) < n
    /\ \A m \in RangeOf[w].from..n - 1 : \E c \in Filed(w) : m \in c.from..To(c)

OwnTops(w) == {t \in tops : t \in RangeOf[w].from..RangeOf[w].to}

ChunkFits(c) ==
    /\ c.blocks # << >> /\ c.from <= To(c)
    /\ \E w \in Writer : c \in Filed(w) /\ RangeOf[w].from <= c.top /\ To(c) <= RangeOf[w].to
    /\ c.top \in tops /\ c.top <= c.from
    /\ \A t \in tops : t > c.top => t > To(c)
    /\ \A d \in chunks : c.from <= d.from /\ d.from <= To(c) => c = d

\* Of the top directories of a range, the one without chunks is where the next belongs.
RangeFits(w) ==
    /\ \E n \in {RangeOf[w].from} \cup {To(c) + 1 : c \in Filed(w)} : EndsAt(w, n)
    /\ \A t \in OwnTops(w) : Dir(t) = {} => EndsAt(w, t)

TopFits(t) ==
    /\ \E w \in Writer : t \in OwnTops(w)
    /\ storage = "s3" => Dir(t) # {}

\* A dumper goes on where its range ends, in the last top directory, and what it has in
\* memory is the blocks between the last chunk and the rest of the stream.
WriterFits(w) ==
    writer[w].phase \in {"dumping", "saving", "writing"} =>
        /\ EndsAt(w, writer[w].next)
        /\ RangeOf[w].from <= writer[w].top /\ writer[w].top <= writer[w].next
        /\ Dir(writer[w].top) = {} => writer[w].top = writer[w].next
        /\ IF writer[w].phase = "writing"
           THEN NextTop(w) \in tops /\ \A t \in OwnTops(w) : t <= NextTop(w)
           ELSE \A t \in OwnTops(w) : t <= writer[w].top
        /\ writer[w].from <= RangeOf[w].to + 1
        /\ writer[w].prev # NoBlock => writer[w].prev.number = writer[w].from - 1
        /\ IF writer[w].buffer = << >>
           THEN writer[w].phase = "dumping" /\ writer[w].from = writer[w].next
           ELSE Last(writer[w].buffer) = writer[w].prev /\ writer[w].next < writer[w].from
        /\ storage = "s3" /\ writer[w].prev = NoBlock => Filed(w) = {}

\* What is archived and what is in memory are of one chain.
Linked(w) ==
    \E chain \in Chains :
        /\ used.switches = 0 => chain = source
        /\ \A c \in Filed(w) : c.blocks = InRange(chain, [from |-> c.from, to |-> To(c)])
        /\ writer[w].phase \in {"dumping", "saving", "writing"} =>
            /\ writer[w].buffer
                   = InRange(chain, [from |-> writer[w].next, to |-> writer[w].from - 1])
            /\ writer[w].prev # NoBlock => \E k \in 1..Len(chain) : chain[k] = writer[w].prev
        /\ writer[w].phase = "done" /\ (used.switches = 0 \/ NoticesSwitches(w)) =>
            \A k \in 1..Len(chain) :
                chain[k].number \in RangeOf[w].from..RangeOf[w].to =>
                    \E c \in Filed(w) : chain[k].number \in c.from..To(c)

ArchiveInv ==
    /\ TypeOK
    /\ \A c \in chunks : ChunkFits(c)
    /\ \A t \in tops : TopFits(t)
    /\ \A w \in Writer : RangeFits(w) /\ WriterFits(w)
    /\ storage = "s3" \/ used.switches = 0 => \A w \in Writer : Linked(w)

==============================================================================
