----------------------------- MODULE BlockStream -----------------------------
(***************************************************************************)
(* What the consumers of a DataSource rely on                               *)
(* (util/util-internal-data-source/src/index.ts): batches that continue one  *)
(* another, with finalized heads that are final and of the stream's chain -  *)
(* "certain guarantees", as Chain.finalize() calls them.                     *)
(***************************************************************************)
EXTENDS BlockTree

VARIABLES
    node,   \* the chain behind the source: tip and fin
    pos,    \* the last block delivered, at first the one asked to build on
    told,   \* the finalized head of the last batch, Origin for none
    ended   \* the stream is over

streamVars == << node, pos, told, ended >>

\* One of the two is on the chain of the other.
Comparable(r, t) == On(r, t) \/ On(t, r)

StreamInit ==
    /\ told = Origin
    /\ ~ ended

\* Forks come and go, finality stays.
NodeStep ==
    /\ On(node.fin, node'.fin)
    /\ UNCHANGED << pos, told, ended >>

DeliverBatch ==
    /\ ~ ended
    /\ pos' # pos
    /\ On(pos, pos')
    /\ On(told', node.fin)
    /\ Comparable(told', pos')
    /\ UNCHANGED << node, ended >>

\* The end of the requested range, a ForkException or an error.
EndStream ==
    /\ ~ ended
    /\ ended'
    /\ UNCHANGED << node, pos, told >>

StreamNext == NodeStep \/ DeliverBatch \/ EndStream

StreamSpec == StreamInit /\ [][StreamNext]_streamVars

==============================================================================
