---------------------------- MODULE ChangeTracker ----------------------------
(***************************************************************************)
(* The undo log of hot blocks (typeorm/typeorm-store/src/hot.ts and the     *)
(* writing operations of store.ts): while a hot block is mapped, every      *)
(* write to an entity table leaves change records, and rollbackBlock()      *)
(* replays them backwards.                                                  *)
(*                                                                          *)
(* rows   the entity tables: a function on the ids that exist; a row has a  *)
(*        value and a reference (or Null) in each foreign key column        *)
(* hot    the hot blocks; a block has its change records and, for the       *)
(*        properties, the tables as they were before it                     *)
(*                                                                          *)
(* The database enforces its foreign keys at the end of a statement.  A     *)
(* statement that breaks one, or inserts an id that exists, fails and takes *)
(* its transaction with it.                                                 *)
(***************************************************************************)
EXTENDS Integers, Sequences, SequencesExt

CONSTANTS
    Id,             \* the entity ids
    TableOf,        \* [Id -> table]
    Columns,        \* the foreign key columns, in catalogue order
    OwnerOf,        \* [column -> the table it is a column of]
    TargetOf,       \* [column -> the table it references]
    Cascading,      \* the columns with ON DELETE CASCADE; the others have NO ACTION
    Value,          \* the values of the remaining fields of a row
    Null,           \* no reference
    MaxBlocks,      \* bound: hot blocks
    MaxLog          \* bound: change records, of all hot blocks together

ChangeTrackerAssumption ==
    /\ Null \notin Id
    /\ Cascading \subseteq ToSet(Columns)
    /\ MaxBlocks \in Nat /\ MaxLog \in Nat

VARIABLES rows, hot

vars == << rows, hot >>

Row == [value : Value, ref : [ToSet(Columns) -> Id \cup {Null}]]

IsTables(t) == DOMAIN t \subseteq Id /\ \A i \in DOMAIN t : t[i] \in Row

Change ==
    [kind : {"insert"}, id : Id] \cup [kind : {"update", "delete"}, id : Id, fields : Row]

IdsOf(table) == {i \in Id : TableOf[i] = table}

\* The rows that fit the table of i.
RowsOf(i) ==
    {row \in Row : \A c \in ToSet(Columns) :
        row.ref[c] # Null => OwnerOf[c] = TableOf[i] /\ row.ref[c] \in IdsOf(TargetOf[c])}

------------------------------------------------------------------------------
(***************************************************************************)
(* The database.                                                            *)
(***************************************************************************)
ForeignKeysHold(t) ==
    \A i \in DOMAIN t, c \in ToSet(Columns) :
        t[i].ref[c] # Null => t[i].ref[c] \in DOMAIN t

\* The rows a DELETE of ids takes with it.
Deleted(t, ids) ==
    LET Closed(s) == \A i \in DOMAIN t, c \in Cascading : t[i].ref[c] \in s => i \in s
    IN  {i \in DOMAIN t : \A s \in SUBSET Id : ids \subseteq s /\ Closed(s) => i \in s}

WithRow(t, i, row) == [j \in DOMAIN t \cup {i} |-> IF j = i THEN row ELSE t[j]]

WithoutRows(t, ids) == [j \in DOMAIN t \ Deleted(t, ids) |-> t[j]]

------------------------------------------------------------------------------
(***************************************************************************)
(* The change records of a write, taken before it is executed.              *)
(***************************************************************************)
TrackInsert(t, i) == << [kind |-> "insert", id |-> i] >>

TrackUpsert(t, i) ==
    IF i \in DOMAIN t
    THEN << [kind |-> "update", id |-> i, fields |-> t[i]] >>
    ELSE TrackInsert(t, i)

\* fetchEntities(): the rows of ids, as delete records.
DeleteRecords(t, ids) ==
    LET found == SetToSeq(ids \cap DOMAIN t)
    IN  [k \in 1..Len(found) |-> [kind |-> "delete", id |-> found[k], fields |-> t[found[k]]]]

\* The children a deletion cascades to, table by table and depth first, then the
\* rows themselves.
RECURSIVE CollectCascadeDeletes(_, _, _)
CollectCascadeDeletes(t, table, ids) ==
    LET below(out, c) ==
            IF c \in Cascading /\ TargetOf[c] = table
            THEN out \o CollectCascadeDeletes(t, OwnerOf[c], {i \in DOMAIN t : t[i].ref[c] \in ids})
            ELSE out
    IN  IF ids = {} THEN << >>
        ELSE FoldLeft(below, << >>, Columns) \o DeleteRecords(t, ids)

\* Bug: only the rows that are named are recorded.
TrackDeleteShallow(t, table, ids) == DeleteRecords(t, ids)

TrackDelete(t, table, ids) == CollectCascadeDeletes(t, table, ids)

------------------------------------------------------------------------------
(***************************************************************************)
(* rollbackBlock(): the records are undone from the last to the first; the  *)
(* result says whether every statement succeeded.                           *)
(***************************************************************************)
Undone(t, ch) ==
    CASE ch.kind = "insert"                      -> WithoutRows(t, {ch.id})
      [] ch.kind = "delete"                      -> WithRow(t, ch.id, ch.fields)
      [] ch.kind = "update" ->
             IF ch.id \in DOMAIN t THEN WithRow(t, ch.id, ch.fields) ELSE t

UndoStep(res, ch) ==
    LET t == Undone(res.rows, ch)
    IN  [ok   |-> /\ res.ok
                  /\ ch.kind = "delete" => ch.id \notin DOMAIN res.rows
                  /\ ForeignKeysHold(t),
         rows |-> t]

Undo(t, log) == FoldLeft(UndoStep, [ok |-> TRUE, rows |-> t], Reverse(log))

------------------------------------------------------------------------------
Init == rows = << >> /\ hot = << >>

\* insertHotBlock() and a fresh ChangeTracker
BeginBlock ==
    /\ Len(hot) < MaxBlocks
    /\ hot' = Append(hot, [before |-> rows, log |-> << >>])
    /\ UNCHANGED rows

\* The change log from the k-th hot block up.
FullLog(k) == FoldLeft(LAMBDA acc, b : acc \o b.log, << >>, SubSeq(hot, k, Len(hot)))

\* A write of the handler: tracked in a hot block, untracked without one.
Write(changes, t) ==
    /\ ForeignKeysHold(t)
    /\ rows' = t
    /\ IF hot = << >> THEN UNCHANGED hot
       ELSE /\ Len(FullLog(1)) + Len(changes) <= MaxLog
            /\ hot' = [hot EXCEPT ![Len(hot)].log = @ \o changes]

Insert(i, row) ==
    /\ i \notin DOMAIN rows
    /\ Write(TrackInsert(rows, i), WithRow(rows, i, row))

Upsert(i, row) == Write(TrackUpsert(rows, i), WithRow(rows, i, row))

RemoveRows(table, ids) == Write(TrackDelete(rows, table, ids), WithoutRows(rows, ids))

\* A fork: the highest block is undone.
RollbackBlock ==
    /\ hot # << >>
    /\ LET res == Undo(rows, hot[Len(hot)].log)
       IN  res.ok /\ rows' = res.rows
    /\ hot' = SubSeq(hot, 1, Len(hot) - 1)

\* deleteHotBlocks(): the lowest block is finalized, its records are dropped.
FinalizeBlock ==
    /\ hot # << >>
    /\ hot' = SubSeq(hot, 2, Len(hot))
    /\ UNCHANGED rows

Next ==
    \/ BeginBlock
    \/ \E i \in Id : \E row \in RowsOf(i) : Insert(i, row)
    \/ \E i \in Id : \E row \in RowsOf(i) : Upsert(i, row)
    \/ \E table \in {TableOf[i] : i \in Id} :
           \E ids \in SUBSET IdsOf(table) \ {{}} : RemoveRows(table, ids)
    \/ RollbackBlock
    \/ FinalizeBlock

Spec == Init /\ [][Next]_vars

------------------------------------------------------------------------------
\* Types: rows, and change records that hold what an undo of theirs needs.
TypeOK ==
    /\ IsTables(rows)
    /\ \A k \in 1..Len(hot) : IsTables(hot[k].before) /\ hot[k].log \in Seq(Change)

\* Undoing the hot blocks from the highest down brings the entity tables back to
\* what they were before each of them, and no statement of it fails on a foreign
\* key or a duplicate id: parents are restored before their children.
RollbackRestores ==
    \A k \in 1..Len(hot) :
        LET res == Undo(rows, FullLog(k))
        IN  res.ok /\ res.rows = hot[k].before

==============================================================================
