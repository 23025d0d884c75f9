---------------------------- MODULE MCDataService ----------------------------
(***************************************************************************)
(* A data service on a trunk a1 - a2 - a3 - a4 and a branch b3 that leaves   *)
(* it above a2: a stream may be told of finality before it gets to the fork. *)
(***************************************************************************)
EXTENDS DataService, MCBlockTree

LatePaths ==
    (Origin :> << >>)
        @@ (a1 :> << a1 >>) @@ (a2 :> << a1, a2 >>)
        @@ (a3 :> << a1, a2, a3 >>) @@ (a4 :> << a1, a2, a3, a4 >>)
        @@ (b3 :> << a1, a2, b3 >>)

LateBlocks == DOMAIN LatePaths \ {Origin}

\* All blocks between two blocks of a chain.
LateStreams ==
    LET Above(base, t) == SubSeq(LatePaths[t], Len(LatePaths[base]) + 1, Len(LatePaths[t]))
        Extends(base, t) == /\ Len(LatePaths[base]) < Len(LatePaths[t])
                            /\ LatePaths[t][Len(LatePaths[base])] = base
    IN  { [base |-> p[1], blocks |-> Above(p[1], p[2])]
            : p \in {q \in LateBlocks \X LateBlocks : Extends(q[1], q[2])} }

\* Block numbers with gaps: nothing at 2 and 4 on the trunk.
Gaps ==
    (Origin :> 0) @@ (a1 :> 1) @@ (a2 :> 3) @@ (a3 :> 5) @@ (a4 :> 6)
                  @@ (b3 :> 4)

==============================================================================
