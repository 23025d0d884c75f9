------------------------------- MODULE MCRunner -------------------------------
(***************************************************************************)
(* The older processors: how the requests of one are merged, how the archive *)
(* it reads from is written, and how it runs.  The three share no state, and *)
(* a behaviour of this module is one of a single one of them: it is chosen   *)
(* at the start, and the others rest.                                        *)
(*                                                                          *)
(* The runner has a trunk a1 .. a6 with a branch b2 - b3 - b4 above a1: high *)
(* enough for an archive to overtake the hot blocks of a processor that was  *)
(* stopped.                                                                  *)
(***************************************************************************)
EXTENDS Runner, MCChains, TLC

CONSTANTS
    a1, a2, a3, a4, a5, a6, b2, b3, b4,
    DumpedChains, DumpedRanges, Writer, TopDirSize, Storages, MaxSwitches,
    MaxBlock, MaxRequests

VARIABLES
    running,
    source, storage, tops, chunks, writer, spent,
    asked, heap, top, merged, merging, rounds

TreePath ==
    (Origin :> << >>)
        @@ (a1 :> << a1 >>) @@ (a2 :> << a1, a2 >>) @@ (a3 :> << a1, a2, a3 >>)
        @@ (a4 :> << a1, a2, a3, a4 >>) @@ (a5 :> << a1, a2, a3, a4, a5 >>)
        @@ (a6 :> << a1, a2, a3, a4, a5, a6 >>)
        @@ (b2 :> << a1, b2 >>) @@ (b3 :> << a1, b2, b3 >>) @@ (b4 :> << a1, b2, b3, b4 >>)

RunnerPath == TreePath

Blocks == {a1, a2, a3, a4, a5, a6, b2, b3, b4}

\* All but the first block are requested.
AboveFirst == {a2, a3, a4, a5, a6, b2, b3, b4}

NoSegments == {}

Dumper == INSTANCE Archive WITH Chains <- DumpedChains, RangeOf <- DumpedRanges, used <- spent
Requests == INSTANCE Ranges

ASSUME OlderProcessorsAssumption ==
    /\ Dumper!ArchiveAssumption
    /\ Requests!RangesAssumption

archiveVars == << source, storage, tops, chunks, writer, spent >>
requestVars == << asked, heap, top, merged, merging, rounds >>

AllInit ==
    /\ running \in {"runner", "archive", "requests"}
    /\ Init
    /\ Dumper!Init
    /\ Requests!Init
    /\ running # "runner" => heads = NoHeads(TRUE)
    /\ running # "archive" => /\ source = CHOOSE c \in DumpedChains : TRUE
                              /\ storage = "local"
    /\ running # "requests" => asked = << >>

AllNext ==
    /\ UNCHANGED running
    /\ \/ running = "runner" /\ Next /\ UNCHANGED << archiveVars, requestVars >>
       \/ running = "archive" /\ Dumper!Next /\ UNCHANGED << vars, requestVars >>
       \/ running = "requests" /\ Requests!Next /\ UNCHANGED << vars, archiveVars >>

\* The fairness of the one that runs.
AllFairness ==
    /\ WF_vars(running = "runner" /\ Run)
    /\ \A w \in Writer : WF_archiveVars(running = "archive" /\ Dumper!Dump(w))

AllSpec ==
    AllInit /\ [][AllNext]_<< running, vars, archiveVars, requestVars >> /\ AllFairness

\* Forks, restarts and requests that fail only delay the runner: its index gets as high as
\* the node, or as the head a subscriber took up.
TipIsReached == running = "runner" => CatchesUp

\* In an archive there is never a gap or anything a reader or writer stops on, and what is
\* read of it is everything there is; as long as the finalized chain of the source stays,
\* and on S3 anyway, it holds one chain.
ArchiveIsSound == Dumper!ArchiveIsSound

\* A dumper that is started again whenever it stops gets its range done, unless its source
\* has given up what is archived.
ArchiveCompletes == running = "archive" => Dumper!ArchiveCompletes

\* Merged, cut and split, the requests of a processor ask of every block what its user asked.
RequestsAreKept == Requests!RequestsAreKept

==============================================================================
