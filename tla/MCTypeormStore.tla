---------------------------- MODULE MCTypeormStore ----------------------------
(***************************************************************************)
(* The database of a squid, at three levels: the tables that describe the    *)
(* chain when a hot row is a block ("blocks"), the same when it stands for a *)
(* group of blocks ("groups"), and the rows of the entity tables, which the  *)
(* change records of a block give back ("rows").  The levels share no state, *)
(* and a behaviour of this module is one of a single one of them.            *)
(***************************************************************************)
EXTENDS MCTypeormDatabase

CONSTANTS
    MaxGroupNonce,                  \* MaxNonce of the level of groups
    owner, account, transfer,       \* the ids of three entities
    ownerId, accountId, toId,       \* the columns of the schema of MCChangeTracker
    Null, Value, MaxBlocks, MaxLog

VARIABLES level, groups, rows, hot

Grouped == INSTANCE TypeormDatabase
    WITH db <- groups, GroupDivisor <- 1, MaxNonce <- MaxGroupNonce,
         Relevant <- Block, Registering <- Block, Segment <- TreeDense4

Entity == {owner, account, transfer}
TableOfEntity == (owner :> "owner") @@ (account :> "account") @@ (transfer :> "transfer")

\* One column of a table cascades: accounts go with their owner, transfers with their
\* account, but not with the receiving one.
ForeignKeys == << ownerId, accountId, toId >>
OwnerOfKey == (ownerId :> "account") @@ (accountId :> "transfer") @@ (toId :> "transfer")
TargetOfKey == (ownerId :> "owner") @@ (accountId :> "account") @@ (toId :> "account")
CascadingKeys == {ownerId, accountId}

Tracker == INSTANCE ChangeTracker
    WITH Id <- Entity, TableOf <- TableOfEntity, Columns <- ForeignKeys,
         OwnerOf <- OwnerOfKey, TargetOf <- TargetOfKey, Cascading <- CascadingKeys

ASSUME TrackerAssumption == Tracker!ChangeTrackerAssumption

StoreInit ==
    /\ level \in {"blocks", "groups", "rows"}
    /\ Init
    /\ Grouped!Init
    /\ Tracker!Init

StoreNext ==
    /\ UNCHANGED level
    /\ \/ level = "blocks" /\ Next /\ UNCHANGED << groups, rows, hot >>
       \/ level = "groups" /\ Grouped!Next /\ UNCHANGED << db, rows, hot >>
       \/ level = "rows" /\ Tracker!Next /\ UNCHANGED << db, groups >>

StoreSpec == StoreInit /\ [][StoreNext]_<< level, db, groups, rows, hot >>

\* Whatever part of a group is finalized or reverted, what is left of the mapped blocks is
\* on the chain the tables tell, up to each of its references, and so is the template
\* registry (database.ts:173-300).
GroupsKeepOneChain == Grouped!KeepsOneChain

\* Undoing the hot blocks from the highest down brings the entity tables back to what
\* they were before each of them (hot.ts:251-306), and no statement of it fails.
RollbackRestores == Tracker!RollbackRestores

==============================================================================
