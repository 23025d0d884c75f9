----------------------------- MODULE IndexedChain -----------------------------
(***************************************************************************)
(* What the database promises to a squid's user, whatever the forks, stale  *)
(* reports, restarts and configuration changes: the entity tables always    *)
(* tell one chain, that of the head, and completely; the finalized block is *)
(* on it and only moves up; what has been mapped up to the finalized block  *)
(* is never undone.                                                         *)
(***************************************************************************)
EXTENDS BlockTree

VARIABLES
    final,      \* the finalized block
    head,       \* the last block of the indexed chain
    mapped      \* the blocks whose effects the entity tables hold

Init == final = Origin /\ head = Origin /\ mapped = << >>

\* Mapped blocks up to the finalized one stay in place.
Permanent ==
    \A i \in 1..Len(mapped) :
        Height(mapped[i]) <= Height(final)
            => i <= Len(mapped') /\ mapped'[i] = mapped[i]

\* One transaction: the index moves to another head, forwards or to another fork.
Update ==
    /\ final' \in Ref /\ head' \in Ref
    /\ On(final, final') /\ On(final', head')
    /\ Reflects(mapped', head')
    /\ Permanent

Spec == Init /\ [][Update]_<< final, head, mapped >>

==============================================================================
