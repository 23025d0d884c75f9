--------------------------- MODULE MCBatchProcessor ---------------------------
(***************************************************************************)
(* The whole pipeline: a node, its stream, the processors and the database. *)
(***************************************************************************)
EXTENDS BatchProcessor, MCBlockTree, TLC

\* The processors are alike.
Alike == Permutations(Processor)

\* Hot blocks may be turned on later, not off.
HotLater == {<< FALSE, TRUE >>}

\* The requested blocks of the sparse tree of three levels.
Relevant3 == Blocks3 \ {a2}

==============================================================================
