----------------------------- MODULE MCBlockTree -----------------------------
(***************************************************************************)
(* Trees for TLC: a trunk a1 - a2 - a3 - a4 and a branch b2 - b3 - b4 that   *)
(* leaves it above a1, whole or cut at a height.                             *)
(***************************************************************************)
EXTENDS BlockTree, TLC

CONSTANTS a1, a2, a3, a4, b2, b3, b4

Trunk == << a1, a2, a3, a4 >>
Branch == << a1, b2, b3, b4 >>

TreePath ==
    (Origin :> << >>)
        @@ (a1 :> << a1 >>) @@ (a2 :> << a1, a2 >>) @@ (a3 :> << a1, a2, a3 >>) @@ (a4 :> Trunk)
        @@ (b2 :> << a1, b2 >>) @@ (b3 :> << a1, b2, b3 >>) @@ (b4 :> Branch)

\* The blocks of the first n levels.
Levels(n) == {Trunk[i] : i \in 1..n} \cup {Branch[i] : i \in 1..n}

PathUpTo(n) == [r \in Levels(n) \cup {Origin} |-> TreePath[r]]

\* Everything a source may deliver when only the blocks of relevant are asked
\* for: of the chain above base up to t, the relevant blocks, t and whatever else
\* it happens to include.
Segments(blocks, relevant) ==
    LET Above(base, t) == SubSeq(TreePath[t], Len(TreePath[base]) + 1, Len(TreePath[t]))
        Extends(base, t) == /\ Len(TreePath[base]) < Len(TreePath[t])
                            /\ base = Origin \/ TreePath[t][Len(TreePath[base])] = base
    IN  UNION { { [base |-> p[1],
                   blocks |-> SelectSeq(Above(p[1], p[2]),
                                        LAMBDA b : b = p[2] \/ b \in relevant \cup extra)]
                    : extra \in SUBSET (blocks \ relevant) }
                : p \in {q \in (blocks \cup {Origin}) \X blocks : Extends(q[1], q[2])} }

\* a2 and b3 hold nothing the squid asked for.
Sparse == {a1, a3, a4, b2, b4}

\* TLC evaluates a definition that stands for a constant at every use, and one
\* without parameters it refers to only once.
TreeLevels2 == Levels(2)
TreeLevels3 == Levels(3)
TreeLevels4 == Levels(4)
TreePath2 == PathUpTo(2)
TreePath3 == PathUpTo(3)
TreePath4 == PathUpTo(4)
TreeDense2 == Segments(TreeLevels2, TreeLevels2)
TreeDense3 == Segments(TreeLevels3, TreeLevels3)
TreeDense4 == Segments(TreeLevels4, TreeLevels4)
TreeSparse3 == Segments(TreeLevels3, TreeLevels3 \ {a2})
TreeSparse4 == Segments(TreeLevels4, Sparse)

Blocks2 == TreeLevels2
Blocks3 == TreeLevels3
Blocks4 == TreeLevels4
Path2 == TreePath2
Path3 == TreePath3
Path4 == TreePath4
Dense2 == TreeDense2
Dense3 == TreeDense3
Dense4 == TreeDense4
Sparse3 == TreeSparse3
Sparse4 == TreeSparse4

==============================================================================
