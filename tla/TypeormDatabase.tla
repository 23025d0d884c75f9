--------------------------- MODULE TypeormDatabase ---------------------------
(***************************************************************************)
(* The state tables of a squid's Postgres database and the transactions     *)
(* that advance them (typeorm/typeorm-store/src/database.ts).               *)
(*                                                                          *)
(* db.status     the row of the status table: the finalized head            *)
(* db.nonce      its optimistic lock                                        *)
(* db.hot        the hot_block table in height order; a row carries in      *)
(*               "undo" what its hot_change_log entries amount to: how many *)
(*               blocks had been mapped before the row's own                *)
(* db.applied    the entity tables, abstracted to the blocks whose handler  *)
(*               effects they hold, in the order in which they were mapped  *)
(* db.templates  the template_registry table: the block that registered the *)
(*               template and the height the row is filed under             *)
(*                                                                          *)
(* A transaction takes effect at its commit, so it is a function of the     *)
(* state its snapshot shows; a failed assertion rolls it back.              *)
(***************************************************************************)
EXTENDS BlockTree

CONSTANTS
    Registering,    \* the blocks whose handler registers a template
    GroupDivisor,   \* unfinalized blocks are grouped so as to make about this many groups
    MaxNonce        \* the largest value of the nonce column

ASSUME DatabaseAssumption ==
    /\ Registering \subseteq Block
    /\ GroupDivisor \in Nat \ {0}
    /\ MaxNonce \in Nat

VARIABLE db

HotRow == [ref : Block, undo : Nat]

Template == [block : Block, height : Int]

DatabaseState ==
    [ status    : Ref,
      nonce     : Nat,
      hot       : Seq(HotRow),
      applied   : Seq(Block),
      templates : SUBSET Template ]

EmptyDatabase ==
    [ status |-> Origin, nonce |-> 0, hot |-> << >>, applied |-> << >>,
      templates |-> {} ]

------------------------------------------------------------------------------
(***************************************************************************)
(* The chain [status, ...top] and its positions, 0 being the status row.    *)
(***************************************************************************)
Positions(d) == 0..Len(d.hot)

RefAt(d, k) == IF k = 0 THEN d.status ELSE d.hot[k].ref

HeadOf(d) == RefAt(d, Len(d.hot))

Refs(rows) == [i \in 1..Len(rows) |-> rows[i].ref]

\* The number of mapped blocks that are left once every row above k is undone.
MarkAt(d, k) == IF k < Len(d.hot) THEN d.hot[k + 1].undo ELSE Len(d.applied)

IsBase(d, r) == \E k \in Positions(d) : RefAt(d, k) = r

BasePos(d, r) ==
    CHOOSE k \in Positions(d) :
        RefAt(d, k) = r /\ \A j \in 0..(k - 1) : RefAt(d, j) # r

\* How many leading blocks of s lie at or below h: findIndex(b => b.height > h),
\* with the length of s for "not found".
CountUpTo(s, h) ==
    CHOOSE n \in 0..Len(s) :
        /\ \A i \in 1..n : Height(s[i]) <= h
        /\ n < Len(s) => Height(s[n + 1]) > h

\* The last block of << base >> \o s.
LastOf(base, s) == IF s = << >> THEN base ELSE s[Len(s)]

------------------------------------------------------------------------------
\* Bug: the block's row goes, its change log is not replayed.
RollbackToWithoutUndo(d, k) == [d EXCEPT !.hot = SubSeq(d.hot, 1, k)]

(***************************************************************************)
(* Undo the hot rows above position k, the highest first.                   *)
(***************************************************************************)
RollbackTo(d, k) ==
    [d EXCEPT
        !.hot = SubSeq(d.hot, 1, k),
        !.applied = SubSeq(d.applied, 1, MarkAt(d, k)),
        !.templates = {t \in d.templates :
            \A j \in (k + 1)..Len(d.hot) : t.height # Height(d.hot[j].ref)}]

GroupSize(n) ==
    LET size == n \div GroupDivisor IN IF size > 1 THEN size ELSE 1

\* The index in s of the last block of the group that i belongs to; the first u
\* blocks of s are finalized and ungrouped.
GroupEnd(s, u, i) ==
    LET g   == GroupSize(Len(s) - u)
        end == u + g * ((i - u + g - 1) \div g)
    IN  IF end < Len(s) THEN end ELSE Len(s)

\* One row for each group of the blocks of s after the first u, when n blocks
\* are mapped already before s.
HotRows(s, u, n) ==
    LET g == GroupSize(Len(s) - u)
    IN  [j \in 1..((Len(s) - u + g - 1) \div g) |->
            [ref  |-> s[GroupEnd(s, u, u + (j - 1) * g + 1)],
             undo |-> n + u + (j - 1) * g]]

\* DELETE FROM hot_block WHERE height <= h, on a table in height order.
DeleteHotBlocks(rows, h) ==
    SubSeq(rows, CountUpTo(Refs(rows), h) + 1, Len(rows))

\* Bug: a registry row is filed under its own block even inside a group.
TemplateRowsOwnHeight(s, u, h) ==
    { [block |-> s[i], height |-> IF i <= u THEN h ELSE Height(s[i])] :
        i \in {j \in 1..Len(s) : s[j] \in Registering} }

\* The registry rows of s: a finalized block's under the finalized height h, a
\* hot block's under the height of its group.
TemplateRows(s, u, h) ==
    { [block |-> s[i], height |-> IF i <= u THEN h ELSE Height(s[GroupEnd(s, u, i)])] :
        i \in {j \in 1..Len(s) : s[j] \in Registering} }

\* Bug: a stale finalized head is taken at its word.
AnyFinalizedHead(d, finalizedHead) == finalizedHead

\* A finalized head that trails the committed one is replaced by it.
EffectiveFinalizedHead(d, finalizedHead) ==
    IF Height(finalizedHead) >= Height(d.status) THEN finalizedHead ELSE d.status

(***************************************************************************)
(* transactHot2({finalizedHead, baseHead, newBlocks})                       *)
(***************************************************************************)
TransactHot2Asserts(d, info) ==
    /\ Ascending(<< info.baseHead >> \o info.newBlocks)
    /\ Height(info.finalizedHead) <= Height(LastOf(info.baseHead, info.newBlocks))
    /\ IsBase(d, info.baseHead)

TransactHot2(d, info) ==
    LET s    == info.newBlocks
        fin  == EffectiveFinalizedHead(d, info.finalizedHead)
        base == RollbackTo(d, BasePos(d, info.baseHead))
        u    == CountUpTo(s, Height(fin))
        rows == base.hot \o HotRows(s, u, Len(base.applied))
    IN  [ status    |-> fin,
          nonce     |-> d.nonce + 1,
          hot       |-> DeleteHotBlocks(rows, Height(fin)),
          applied   |-> base.applied \o s,
          templates |-> base.templates \cup TemplateRows(s, u, Height(fin)) ]

(***************************************************************************)
(* transact({prevHead, nextHead}): the path of a database without hot       *)
(* blocks; it drops whatever hot rows an earlier configuration has left.    *)
(***************************************************************************)
TransactAsserts(d, info) ==
    /\ d.status = info.prevHead
    /\ Height(info.prevHead) < Height(info.nextHead)

\* Bug: leftover hot rows are dropped without being rolled back.
TransactOnTop(d, info) ==
    [ status    |-> info.nextHead,
      nonce     |-> d.nonce + 1,
      hot       |-> << >>,
      applied   |-> d.applied \o info.newBlocks,
      templates |-> d.templates \cup
                      TemplateRows(info.newBlocks, Len(info.newBlocks), Height(info.nextHead)) ]

Transact(d, info) ==
    LET s    == info.newBlocks
        base == RollbackTo(d, 0)
    IN  [ status    |-> info.nextHead,
          nonce     |-> d.nonce + 1,
          hot       |-> << >>,
          applied   |-> base.applied \o s,
          templates |-> base.templates \cup TemplateRows(s, Len(s), Height(info.nextHead)) ]

\* connect(): registry rows that belong to no surviving block are dropped.
RepairOrphans(d) ==
    [d EXCEPT !.templates =
        {t \in d.templates :
            \/ t.height <= Height(d.status)
            \/ \E j \in 1..Len(d.hot) : t.height = Height(d.hot[j].ref)}]

------------------------------------------------------------------------------
(***************************************************************************)
(* The component on its own.  Its client sends what a data source delivers  *)
(* on top of the base head it names, and a finalized head, possibly a stale *)
(* one, of the chain it is sending.                                         *)
(***************************************************************************)
Deliveries(base) == {s.blocks : s \in {x \in Segment : x.base = base}}

Init == db = EmptyDatabase

Connect == db' = RepairOrphans(db)

SubmitHot(base, s, fin) ==
    LET info == [finalizedHead |-> fin, baseHead |-> base, newBlocks |-> s]
    IN  /\ db.nonce < MaxNonce
        /\ On(fin, LastOf(base, s))
        /\ TransactHot2Asserts(db, info)
        /\ db' = TransactHot2(db, info)

SubmitFinal(base, s) ==
    LET info == [prevHead |-> base, nextHead |-> LastOf(base, s), newBlocks |-> s]
    IN  /\ db.nonce < MaxNonce
        /\ TransactAsserts(db, info)
        /\ db' = Transact(db, info)

Next ==
    \/ Connect
    \/ \E base \in Ref, fin \in Ref :
           \E s \in Deliveries(base) \cup {<< >>} : SubmitHot(base, s, fin)
    \/ \E base \in Ref : \E s \in Deliveries(base) : SubmitFinal(base, s)

Spec == Init /\ [][Next]_db

------------------------------------------------------------------------------
\* Types: the status row, the hot blocks with as many undo records as they have blocks,
\* what the handlers have written and the template registry.
TypeOK == db \in DatabaseState

\* What assertStateInvariants demands of every state a client meets, when it
\* connects and when it opens a transaction: the finalized head and the hot rows
\* ascend.  A state that breaks it locks every later processor out.
ConnectAssertsHold ==
    \A j, k \in Positions(db) : j < k => Height(RefAt(db, j)) < Height(RefAt(db, k))

\* Rolling back to the finalized head or to any hot row, which is what a fork
\* does, leaves the entity tables with blocks of that row's chain only, each one
\* mapped once and in order.
RollbackKeepsOneChain ==
    \A k \in Positions(db) :
        OnlyChain(SubSeq(db.applied, 1, MarkAt(db, k)), RefAt(db, k))

\* ... and with every block of that chain the squid asked for: any reference of
\* [status, ...top] is good as a future baseHead.
Addressable ==
    \A k \in Positions(db) :
        Reflects(SubSeq(db.applied, 1, MarkAt(db, k)), RefAt(db, k))

\* Every block above the finalized head has a row of its own, so that any height
\* of the chain is addressable as a future baseHead.
EveryBlockAddressable ==
    \A i \in 1..Len(db.applied) :
        Height(db.applied[i]) > Height(db.status) => IsBase(db, db.applied[i])

\* The template registry tells what the entity tables tell: before and after a
\* rollback to any position it holds the templates of the mapped blocks and no
\* others, and connect() finds nothing to repair.
TemplatesFollowBlocks ==
    /\ \A k \in Positions(db) :
           LET d == RollbackTo(db, k)
           IN  {t.block : t \in d.templates}
                   = {d.applied[i] : i \in 1..Len(d.applied)} \cap Registering
    /\ RepairOrphans(db) = db

\* Whatever part of a group is finalized or reverted, what is left of the mapped blocks is
\* on the chain the tables tell, up to each of its references, and so is the template
\* registry (database.ts:173-300).
KeepsOneChain == RollbackKeepsOneChain /\ TemplatesFollowBlocks

\* A step that leaves in place what has been mapped at or below the finalized
\* head.
KeepsFinalized ==
    \A i \in 1..Len(db.applied) :
        Height(db.applied[i]) <= Height(db.status)
            => i <= Len(db'.applied) /\ db'.applied[i] = db.applied[i]

\* What has been mapped at or below the finalized head is permanent: no
\* transaction undoes it, and the finalized head only moves up its own chain.
FinalizedIsPermanent == [][KeepsFinalized /\ On(db.status, db'.status)]_db

Index == INSTANCE IndexedChain
             WITH final <- db.status, head <- HeadOf(db), mapped <- db.applied

\* The tables implement an indexed chain: every transaction, a rollback across a
\* fork included, leads from one faithfully indexed chain to another.
ImplementsIndexedChain == Index!Spec

------------------------------------------------------------------------------
(***************************************************************************)
(* No batch is large enough to be grouped.                                  *)
(***************************************************************************)
Ungrouped == \A s \in Segment : Len(s.blocks) < 2 * GroupDivisor

\* The mapped blocks that no hot row can undo.
Settled(d) == Len(d.applied) - Len(d.hot)

\* Without groups, the hot rows are the last blocks mapped, one row each.
RowsAreTail(d) ==
    /\ Len(d.hot) <= Len(d.applied)
    /\ \A j \in 1..Len(d.hot) :
           /\ d.hot[j].ref = d.applied[Settled(d) + j]
           /\ d.hot[j].undo = Settled(d) + j - 1

\* The finalized head parts the settled blocks from those of the hot rows.
SplitAtFinal(d) ==
    \A i \in 1..Len(d.applied) :
        i <= Settled(d) <=> Height(d.applied[i]) <= Height(d.status)

\* The entity tables tell the chain of the head, on which the finalized head is.
HeadReflected(d) ==
    /\ On(d.status, HeadOf(d))
    /\ Reflects(d.applied, HeadOf(d))

\* The inductive invariant behind Addressable and FinalizedIsPermanent.
Sound(d) ==
    /\ d \in DatabaseState
    /\ RowsAreTail(d)
    /\ SplitAtFinal(d)
    /\ HeadReflected(d)

\* Every hot row undoes exactly its own block, the settled blocks are the
\* finalized ones, and the tables tell the chain of the head.
IndInv == Sound(db)

------------------------------------------------------------------------------
(***************************************************************************)
(* With groups, a row stands for the mapped blocks that only it undoes: those *)
(* after the first "undo" ones, up to the mark of the row.                    *)
(***************************************************************************)
RowCovers(d, j, i) == d.hot[j].undo < i /\ i <= MarkAt(d, j)

\* A template of the i-th mapped block, filed under height h, goes when the block goes: it
\* is filed under the row that covers the block, or it stays with the finalized blocks.
FiledRight(d, i, h) ==
    \/ /\ h <= Height(d.status)
       /\ \A j \in 1..Len(d.hot) :
              d.hot[j].undo < i => Height(d.hot[j].ref) <= Height(d.status)
    \/ \E j \in 1..Len(d.hot) : RowCovers(d, j, i) /\ h = Height(d.hot[j].ref)

\* The rows climb the chain of head, and so do the blocks they stand for: below each row
\* are blocks up to the row before it only, or finalized ones.
RowsClimb(d, head) ==
    /\ \A j \in 1..Len(d.hot) :
           /\ On(d.hot[j].ref, head)
           /\ d.hot[j].undo <= Len(d.applied)
           /\ \A i \in 1..d.hot[j].undo :
                  \/ Height(d.applied[i]) <= Height(d.status)
                  \/ j > 1 /\ Height(d.applied[i]) <= Height(d.hot[j - 1].ref)
    /\ \A j, k \in 1..Len(d.hot) :
           j < k => /\ Height(d.hot[j].ref) < Height(d.hot[k].ref)
                    /\ d.hot[j].undo <= d.hot[k].undo

\* The registry holds the templates of the mapped blocks, each filed right.
RegistryFits(d) ==
    /\ \A t \in d.templates :
           /\ t.block \in Registering
           /\ \E i \in 1..Len(d.applied) : d.applied[i] = t.block /\ FiledRight(d, i, t.height)
    /\ \A i \in 1..Len(d.applied) :
           d.applied[i] \in Registering => \E t \in d.templates : t.block = d.applied[i]

\* The tables between the mapping of a batch that ends in head and the removal of the rows
\* that are finalized by then.
GroupsFit(d, head) ==
    /\ d \in DatabaseState /\ head \in Ref
    /\ On(d.status, head)
    /\ head = d.status \/ (Len(d.hot) > 0 /\ head = d.hot[Len(d.hot)].ref)
    /\ OnlyChain(d.applied, head)
    /\ RowsClimb(d, head)
    /\ RegistryFits(d)

\* The inductive invariant behind RollbackKeepsOneChain and TemplatesFollowBlocks.
GroupsSound(d) ==
    /\ GroupsFit(d, HeadOf(d))
    /\ \A j \in 1..Len(d.hot) : Height(d.hot[j].ref) > Height(d.status)

GroupsInv == GroupsSound(db)

==============================================================================
