------------------------------ MODULE BlockTree ------------------------------
(***************************************************************************)
(* The vocabulary of the ingestion pipeline: blocks, the references to      *)
(* them and the runs of blocks a data source delivers.                      *)
(*                                                                          *)
(* A {height, hash} pair is one value here: a hash determines its block and *)
(* the block its height, so a reference is a block, or Origin, which stands *)
(* for {height: -1, hash: '0x'} and for an undefined reference (the code    *)
(* converts one to the other).  Path[r] is the chain from the first block   *)
(* to r; forks are blocks whose paths part.                                 *)
(***************************************************************************)
EXTENDS Integers, Sequences

CONSTANTS
    Block,      \* every block of every fork
    Origin,     \* "nothing processed yet"
    Path,       \* [Ref -> Seq(Block)]
    Relevant,   \* the blocks that match the squid's data request
    Segment     \* the runs of blocks a source may deliver on top of a base

Ref == Block \cup {Origin}

Height(r) == Len(Path[r]) - 1

\* r is t or an ancestor of t.
On(r, t) ==
    r # Origin => /\ Len(Path[r]) <= Len(Path[t])
                  /\ Path[t][Len(Path[r])] = r

Tip(s) == s.blocks[Len(s.blocks)]

Ascending(s) == \A i, j \in 1..Len(s) : i < j => Height(s[i]) < Height(s[j])

ASSUME TreeAssumption ==
    /\ Origin \notin Block
    /\ Path \in [Ref -> Seq(Block)]
    /\ Path[Origin] = << >>
    /\ \A b \in Block : Len(Path[b]) > 0 /\ Path[b][Len(Path[b])] = b
    /\ \A b \in Block : \A i \in 1..Len(Path[b]) :
           Path[Path[b][i]] = SubSeq(Path[b], 1, i)

ASSUME RelevantAssumption == Relevant \subseteq Block

(***************************************************************************)
(* A source filters: it may skip the blocks the squid did not ask for, but  *)
(* it keeps the order, stays on one chain and always sends the last block   *)
(* of the range it covered.                                                 *)
(***************************************************************************)
ASSUME SegmentAssumption ==
    \A s \in Segment :
        /\ s.base \in Ref
        /\ s.blocks \in Seq(Block)
        /\ Len(s.blocks) > 0
        /\ On(s.base, Tip(s))
        /\ Ascending(s.blocks)
        /\ \A i \in 1..Len(s.blocks) :
               /\ On(s.blocks[i], Tip(s))
               /\ Height(s.blocks[i]) > Height(s.base)
        /\ \A b \in Relevant :
               On(b, Tip(s)) /\ Height(b) > Height(s.base)
                   => \E i \in 1..Len(s.blocks) : s.blocks[i] = b

(***************************************************************************)
(* s is a faithful record of the chain that ends in r: blocks of that chain *)
(* only, each one once and in order ...                                     *)
(***************************************************************************)
OnlyChain(s, r) ==
    /\ \A i \in 1..Len(s) : On(s[i], r)
    /\ Ascending(s)

\* ... and none of the blocks the squid asked for is missing.
Reflects(s, r) ==
    /\ OnlyChain(s, r)
    /\ \A b \in Relevant : On(b, r) => \E i \in 1..Len(s) : s[i] = b

==============================================================================
