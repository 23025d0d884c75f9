----------------------------- MODULE HotProcessor -----------------------------
(***************************************************************************)
(* HotProcessor (util/util-internal-ingest-tools/src/hot.ts): follows the    *)
(* head of a chain through forks.                                            *)
(*                                                                          *)
(* Its chain has no gaps, so it is given by its ends: final is chain[0] and  *)
(* head its last block.  Finality is passed by height only, as the EVM and   *)
(* the substrate data sources do.                                            *)
(***************************************************************************)
EXTENDS BlockTree, FiniteSets

Parent(b) == IF Len(Path[b]) > 1 THEN Path[b][Len(Path[b]) - 1] ELSE Origin

\* The block at height h of the chain of t, for -1 <= h <= Height(t).
At(t, h) == IF h < 0 THEN Origin ELSE Path[t][h + 1]

\* The last block that the chains of r and t share.
Common(r, t) ==
    LET shared == {h \in -1..Height(r) : On(At(r, h), t)}
    IN  At(r, CHOOSE h \in shared : \A k \in shared : k <= h)

\* isKnownBlock(): best has a height, and a hash or not (Origin).
IsKnownBlock(chain, height, hash) ==
    \/ height <= Height(chain.final)
    \/ IF hash = Origin THEN height < Height(chain.head) ELSE On(hash, chain.head)

\* finalize(): finality ahead of the chain is deferred.
Finalize(chain, height) ==
    IF height > Height(chain.head) \/ height <= Height(chain.final) THEN chain
    ELSE [chain EXCEPT !.final = At(chain.head, height)]

\* The walk of moveToBlocks() from the parent of the first new block back to the chain.
Base(chain, first) == Common(chain.head, Parent(first))

\* moveToBlocks() finds where the new blocks fork off, within the local chain.
Reachable(chain, first) == Height(Base(chain, first)) >= Height(chain.final)

\* moveToBlocks(): the chain after new blocks that end in last.
MoveToBlocks(chain, last, finalizedHeight) ==
    Finalize([chain EXCEPT !.head = last], finalizedHeight)
==============================================================================
