--------------------------- MODULE MCRpcDataSource ---------------------------
(***************************************************************************)
(* A data source on the trees of MCBlockTree.                               *)
(***************************************************************************)
EXTENDS RpcDataSource, MCBlockTree

\* To the head and beyond, and a range of finalized blocks.
TwoRequests == {[commitment |-> "latest", to |-> 9], [commitment |-> "finalized", to |-> 3]}

==============================================================================
