------------------------------- MODULE MCChains -------------------------------
(***************************************************************************)
(* What is dumped: two finalized chains that part above their first block   *)
(* and skip numbers, and the ranges of two dumpers, of which the second     *)
(* begins at a skipped number.                                              *)
(***************************************************************************)
EXTENDS Naturals

BlockAt(n, h) == [number |-> n, hash |-> h]

TwoChains ==
    { << BlockAt(0, "a"), BlockAt(1, "a"), BlockAt(3, "a"), BlockAt(4, "a"), BlockAt(6, "a"),
         BlockAt(7, "a") >>,
      << BlockAt(0, "a"), BlockAt(2, "b"), BlockAt(3, "b"), BlockAt(4, "b"), BlockAt(6, "b"),
         BlockAt(7, "b") >> }

TwoRanges == [w1 |-> [from |-> 0, to |-> 4], w2 |-> [from |-> 5, to |-> 7]]

==============================================================================
