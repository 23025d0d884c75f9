--------------------------- MODULE MCChangeTracker ---------------------------
(***************************************************************************)
(* Schemas for TLC.  In both, a transfer belongs to an account and an       *)
(* account to an owner.                                                     *)
(***************************************************************************)
EXTENDS ChangeTracker, TLC

CONSTANTS o1, a1, a2, t1, ownerId, accountId, toId

MCId == {o1, a1, a2, t1}

\* Without the second account.
SmallId == {o1, a1, t1}

MCTableOf ==
    (o1 :> "owner") @@ (a1 :> "account") @@ (a2 :> "account") @@ (t1 :> "transfer")

SmallTableOf == [i \in SmallId |-> MCTableOf[i]]

\* A transfer references its account and the receiving one.
MCColumns == << ownerId, accountId, toId >>
MCOwner == (ownerId :> "account") @@ (accountId :> "transfer") @@ (toId :> "transfer")
MCTarget == (ownerId :> "owner") @@ (accountId :> "account") @@ (toId :> "account")

\* One column of a table cascades: accounts go with their owner, transfers with
\* their account.
OneCascade == {ownerId, accountId}

\* A transfer goes with either account.
TwoCascades == {ownerId, accountId, toId}

==============================================================================
