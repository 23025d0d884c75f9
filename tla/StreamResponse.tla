---------------------------- MODULE StreamResponse ----------------------------
(***************************************************************************)
(* A request that starts below the window of a data service, from the query  *)
(* to the end of the HTTP response: belowQuery() of data-service.ts takes a  *)
(* snapshot of the window and opens a stream of the missing blocks, and      *)
(* writeBlocks() of http-app.ts sends the one after the other, at the pace   *)
(* of the client, for a minute at most.                                      *)
(*                                                                          *)
(* The missing blocks are 1 .. HeadSize, the snapshot goes on from there.    *)
(*                                                                          *)
(* phase      where the handler is                                           *)
(* source     the stream behind it: "open" or "released"                     *)
(* read       the last missing block the source has delivered                *)
(* batch      the blocks of the current batch that are not written yet       *)
(* written    what was sent                                                  *)
(* socket     ctx.response: full (writableNeedDrain), destroyed; waiting when *)
(*            the handler is in waitDrain(), which only a drain or an error    *)
(*            ends - a client that disconnects causes neither: its response    *)
(*            is closed and what is written to it discarded                    *)
(* late       maxDuration is over                                            *)
(***************************************************************************)
EXTENDS Integers, Sequences

CONSTANTS
    HeadSize,   \* missing blocks
    TailSize,   \* blocks of the snapshot
    MaxBatch,   \* bound: blocks of a batch
    TimeLimit,  \* whether a minute may pass
    MaxFills    \* bound: how often the socket gets full

ResponseAssumption ==
    /\ {HeadSize, TailSize, MaxBatch} \subseteq Nat \ {0}
    /\ TimeLimit \in BOOLEAN
    /\ MaxFills \in Nat

VARIABLES phase, source, read, batch, written, socket, late

vars == << phase, source, read, batch, written, socket, late >>

Range(a, b) == [i \in 1..(b - a + 1) |-> a + i - 1]

Snapshot == Range(HeadSize + 1, HeadSize + TailSize)

\* it.return(): the generator behind the stream runs its finally.
Release == source' = "released"

\* The handler is over; res.close() has been called whatever happened.
End(how) == phase' = how /\ Release

------------------------------------------------------------------------------
(***************************************************************************)
(* belowQuery()                                                             *)
(***************************************************************************)
\* The first batch has come: the request is answered with a response.
FirstBatch ==
    \E n \in 1..MaxBatch :
        /\ phase = "query"
        /\ n <= HeadSize
        /\ read' = n
        /\ batch' = Range(1, n)
        /\ phase' = "head"
        /\ UNCHANGED << source, written, socket, late >>

\* Bug: the stream is left open.
FirstBatchFailsOpen ==
    /\ phase = "query"
    /\ phase' = "failed"
    /\ UNCHANGED << source, read, batch, written, socket, late >>

\* The source fails or reports a fork: 409 or an error.
FirstBatchFails ==
    /\ phase = "query"
    /\ End("failed")
    /\ UNCHANGED << read, batch, written, socket, late >>

------------------------------------------------------------------------------
(***************************************************************************)
(* head() and the first loop of writeBlocks().                              *)
(***************************************************************************)
\* The next block of a batch is written.
WriteHead ==
    /\ phase = "head"
    /\ batch # << >>
    /\ ~ socket.destroyed
    /\ ~ socket.full
    /\ written' = Append(written, Head(batch))
    /\ batch' = Tail(batch)
    /\ UNCHANGED << phase, source, read, socket, late >>

\* The time is over: the loop is left, for the second one.  The check comes at a full
\* socket and after a batch; leaving the loop returns the generator.
LeaveHead ==
    /\ phase = "head"
    /\ ~ socket.destroyed
    /\ ~ socket.waiting
    /\ late
    /\ socket.full \/ batch = << >>
    /\ phase' = "tail"
    /\ Release
    /\ batch' = Snapshot
    /\ UNCHANGED << read, written, socket, late >>

\* The generator goes on: the next batch ...
PullBatch ==
    \E n \in 1..MaxBatch :
        /\ phase = "head"
        /\ batch = << >>
        /\ ~ socket.destroyed
        /\ ~ late
        /\ read + n <= HeadSize
        /\ read' = read + n
        /\ batch' = Range(read + 1, read + n)
        /\ UNCHANGED << phase, source, written, socket, late >>

\* Bug: one batch is taken for all.
HeadDoneEarly ==
    /\ phase = "head"
    /\ batch = << >>
    /\ ~ socket.destroyed
    /\ ~ late
    /\ Release
    /\ phase' = "tail"
    /\ batch' = Snapshot
    /\ UNCHANGED << read, written, socket, late >>

\* ... or its end, and the snapshot.
HeadDone ==
    /\ phase = "head"
    /\ batch = << >>
    /\ ~ socket.destroyed
    /\ ~ late
    /\ read = HeadSize
    /\ Release
    /\ phase' = "tail"
    /\ batch' = Snapshot
    /\ UNCHANGED << read, written, socket, late >>

\* ... or an error, of the source or of a continuity check.
PullFails ==
    /\ phase = "head"
    /\ batch = << >>
    /\ ~ socket.destroyed
    /\ ~ late
    /\ End("failed")
    /\ UNCHANGED << read, batch, written, socket, late >>

------------------------------------------------------------------------------
(***************************************************************************)
(* The second loop of writeBlocks().                                        *)
(***************************************************************************)
WriteTail ==
    /\ phase = "tail"
    /\ batch # << >>
    /\ ~ socket.destroyed
    /\ ~ socket.full
    /\ written' = Append(written, Head(batch))
    /\ batch' = Tail(batch)
    /\ UNCHANGED << phase, source, read, socket, late >>

\* All is written, or the time is over and the socket full: response.end()
Finish ==
    /\ phase = "tail"
    /\ ~ socket.destroyed
    /\ ~ socket.waiting
    /\ batch = << >> \/ (socket.full /\ late)
    /\ End("done")
    /\ UNCHANGED << read, batch, written, socket, late >>

\* The socket is full and there is time: the handler waits.
WaitDrain ==
    /\ phase \in {"head", "tail"}
    /\ batch # << >>
    /\ ~ socket.destroyed
    /\ socket.full
    /\ ~ late
    /\ ~ socket.waiting
    /\ socket' = [socket EXCEPT !.waiting = TRUE]
    /\ UNCHANGED << phase, source, read, batch, written, late >>

\* The client is gone: both loops return at the next block.
Stop ==
    /\ phase \in {"head", "tail"}
    /\ socket.destroyed
    /\ ~ socket.waiting
    /\ End("gone")
    /\ UNCHANGED << read, batch, written, socket, late >>

------------------------------------------------------------------------------
(***************************************************************************)
(* The client and the clock.                                                *)
(***************************************************************************)
Fill ==
    /\ ~ socket.full
    /\ written # << >>
    /\ socket.fills < MaxFills
    /\ socket' = [socket EXCEPT !.full = TRUE, !.fills = @ + 1]
    /\ UNCHANGED << phase, source, read, batch, written, late >>

Drain ==
    /\ socket.full
    /\ ~ socket.destroyed
    /\ socket' = [socket EXCEPT !.full = FALSE, !.waiting = FALSE]
    /\ UNCHANGED << phase, source, read, batch, written, late >>

\* The client leaves, whether it has read all or not.
Disconnect ==
    /\ ~ socket.destroyed
    /\ socket' = [socket EXCEPT !.destroyed = TRUE]
    /\ UNCHANGED << phase, source, read, batch, written, late >>

TimePasses ==
    /\ TimeLimit
    /\ ~ late
    /\ late' = TRUE
    /\ UNCHANGED << phase, source, read, batch, written, socket >>

Init ==
    /\ phase = "query"
    /\ source = "open"
    /\ read = 0
    /\ batch = << >>
    /\ written = << >>
    /\ socket = [full |-> FALSE, waiting |-> FALSE, destroyed |-> FALSE, fills |-> 0]
    /\ late = FALSE

Next ==
    \/ FirstBatch \/ FirstBatchFails
    \/ WriteHead \/ LeaveHead \/ PullBatch \/ HeadDone \/ PullFails
    \/ WriteTail \/ Finish \/ Stop \/ WaitDrain
    \/ Fill \/ Drain \/ Disconnect \/ TimePasses

\* The source answers, and a client that stays reads.
Fairness ==
    /\ WF_vars(FirstBatch \/ FirstBatchFails)
    /\ WF_vars(WriteHead) /\ WF_vars(LeaveHead)
    /\ WF_vars(PullBatch \/ HeadDone \/ PullFails)
    /\ WF_vars(WriteTail) /\ WF_vars(Finish) /\ WF_vars(Stop)
    /\ WF_vars(WaitDrain) /\ WF_vars(Drain)

Spec == Init /\ [][Next]_vars /\ Fairness

------------------------------------------------------------------------------
\* Types: belowQuery() never reads past the first block of the snapshot.
TypeOK ==
    /\ phase \in {"query", "head", "tail", "done", "failed", "gone"}
    /\ source \in {"open", "released"}
    /\ read \in 0..HeadSize
    /\ socket \in [full : BOOLEAN, waiting : BOOLEAN, destroyed : BOOLEAN, fills : 0..MaxFills]
    /\ late \in BOOLEAN

\* "chain continuity": the blocks of a response follow one another, the snapshot
\* after the missing ones; it may break off, and a response that ends holds everything
\* up to the end of the snapshot.  All this unless its time is over.
ResponseIsChain ==
    ~ late => /\ written = Range(1, Len(written))
              /\ phase = "done" => Len(written) = HeadSize + TailSize

\* The blocks of a response follow one another, whether its time is over or not: what
\* belowQuery() asserts of the missing blocks and the window (data-service.ts:132-153).
NoGap == written = Range(1, Len(written))

\* The handler is over and the stream behind it - worker threads - is released.
Over == source = "released" /\ phase \in {"done", "failed", "gone"}

\* The client has left while the handler is in waitDrain().
Abandoned == socket.waiting /\ socket.destroyed

\* Every request ends and the stream behind it is released - when the first batch
\* fails, when a later one does, at the end of the blocks or of the time, when the
\* client leaves - but for one case: the client leaves while the handler is in
\* waitDrain(), which listens for drain and error only (util-internal/src/io.ts:29).
\* That request never ends.
ReleasedUnlessAbandoned == <>[](Over <=> ~ Abandoned)

==============================================================================
