----------------------------- MODULE PortalStream -----------------------------
(***************************************************************************)
(* The stream of blocks of a portal (util/portal-client/src/client.ts):      *)
(* ingest() of createPortalStream() requests and reads responses, into a     *)
(* PortalStreamBuffer that hands them to a consumer in portions, neither too *)
(* large nor too late.                                                       *)
(*                                                                          *)
(* Blocks are the numbers 1 .. ToBlock, each of one byte.                    *)
(*                                                                          *)
(* ingest    "request", "reading", "putting" while put() waits for a take,   *)
(*           "polling" after an answer without data, "ended"                 *)
(* fromBlock the next block to ask for                                       *)
(* buffer    blocks, headUpdated and state of the buffer; put and take are   *)
(*           the semaphores (isReady); timeouted is waitTimeouted, idle and  *)
(*           wait say which timers run                                       *)
(* consumer  "idle" between two portions, "taking" while take() waits,       *)
(*           "done", "threw" or "left"                                       *)
(* got       the blocks the consumer has got                                 *)
(* used      faults and empty answers so far                                 *)
(***************************************************************************)
EXTENDS Integers, Sequences

CONSTANTS
    ToBlock,    \* toBlock
    MaxBytes,   \* maxBytes
    MaxLines,   \* bound: the lines of a chunk
    MaxFaults   \* bound: connection resets, and answers without data

PortalAssumption ==
    /\ {ToBlock, MaxBytes, MaxLines} \subseteq Nat \ {0}
    /\ MaxFaults \in Nat

VARIABLES ingest, fromBlock, buffer, consumer, got, used

vars == << ingest, fromBlock, buffer, consumer, got, used >>

UpTo(n) == [i \in 1..n |-> i]

HasData(b) == b.blocks # << >> \/ b.headUpdated

StopTimers(b) == [b EXCEPT !.idle = FALSE, !.wait = FALSE]

Flush(b) == IF HasData(b) THEN [StopTimers(b) EXCEPT !.put = TRUE] ELSE b

UpdateHead(b) == [b EXCEPT !.headUpdated = TRUE]

\* close() and fail(): whoever waits is woken, ingest() aborted.
Terminate(b, how) ==
    IF b.state # "open" THEN b
    ELSE [StopTimers(b) EXCEPT !.state = how, !.put = TRUE]

Full(b) == Len(b.blocks) >= MaxBytes

\* Bug: the idle timer is not started again.
PutInUntimed(b, blocks) ==
    LET added == [b EXCEPT !.blocks = @ \o blocks, !.idle = FALSE]
        shown == IF b.timeouted \/ Full(added) THEN Flush(added) ELSE added
    IN  IF Full(shown) THEN [shown EXCEPT !.take = FALSE] ELSE shown

\* put() up to its first wait: with room left the idle timer is started.
PutIn(b, blocks) ==
    LET added == [b EXCEPT !.blocks = @ \o blocks, !.idle = FALSE]
        shown == IF b.timeouted \/ Full(added) THEN Flush(added) ELSE added
    IN  IF Full(shown) THEN [shown EXCEPT !.take = FALSE] ELSE [shown EXCEPT !.idle = TRUE]

Collected(b) == [b EXCEPT !.blocks = << >>, !.headUpdated = FALSE]

------------------------------------------------------------------------------
(***************************************************************************)
(* ingest()                                                                 *)
(***************************************************************************)
Open == buffer.state = "open"

\* The answer has data (a 200 has a body, so the break on a missing one is left out) ...
AnswerData ==
    /\ ingest = "request"
    /\ Open
    /\ fromBlock <= ToBlock
    /\ ingest' = "reading"
    /\ buffer' = UpdateHead(buffer)
    /\ UNCHANGED << fromBlock, consumer, got, used >>

\* ... or none: the head is passed on, and the portal asked again a little later.
AnswerNoData ==
    /\ ingest = "request"
    /\ Open
    /\ fromBlock <= ToBlock
    /\ used < MaxFaults
    /\ used' = used + 1
    /\ ingest' = "polling"
    /\ buffer' = Flush(UpdateHead(buffer))
    /\ UNCHANGED << fromBlock, consumer, got >>

PollAgain ==
    /\ ingest = "polling"
    /\ Open
    /\ ingest' = "request"
    /\ UNCHANGED << fromBlock, buffer, consumer, got, used >>

\* ... or is a fork or an error: fail().
AnswerFails ==
    /\ ingest \in {"request", "reading"}
    /\ Open
    /\ ingest' = "ended"
    /\ buffer' = Terminate(buffer, "failed")
    /\ UNCHANGED << fromBlock, consumer, got, used >>

\* A chunk with complete lines: put().
ReadChunk ==
    \E n \in 1..MaxLines :
        LET blocks == [i \in 1..n |-> fromBlock + i - 1]
        IN  /\ ingest = "reading"
            /\ Open
            /\ fromBlock + n - 1 <= ToBlock
            /\ fromBlock' = fromBlock + n
            /\ buffer' = PutIn(buffer, blocks)
            /\ ingest' = IF Full(buffer') THEN "putting" ELSE "reading"
            /\ UNCHANGED << consumer, got, used >>

\* Bug: what was read is asked for again.
ResetRewinds ==
    /\ ingest = "reading"
    /\ Open
    /\ used < MaxFaults
    /\ used' = used + 1
    /\ ingest' = "request"
    /\ fromBlock' = IF fromBlock > 1 THEN fromBlock - 1 ELSE 1
    /\ UNCHANGED << buffer, consumer, got >>

\* The connection is reset: the next request goes on from the last complete line.
Reset ==
    /\ ingest = "reading"
    /\ Open
    /\ used < MaxFaults
    /\ used' = used + 1
    /\ ingest' = "request"
    /\ UNCHANGED << fromBlock, buffer, consumer, got >>

\* The end of the response.
ResponseEnds ==
    /\ ingest = "reading"
    /\ Open
    /\ ingest' = "request"
    /\ buffer' = Flush(buffer)
    /\ UNCHANGED << fromBlock, consumer, got, used >>

\* put() has been woken by a take.
PutResumes ==
    /\ ingest = "putting"
    /\ Open
    /\ buffer.take
    /\ ingest' = "reading"
    /\ buffer' = [buffer EXCEPT !.idle = TRUE]
    /\ UNCHANGED << fromBlock, consumer, got, used >>

\* The range is read: flush() and close().
RangeEnds ==
    /\ ingest = "request"
    /\ Open
    /\ fromBlock > ToBlock
    /\ ingest' = "ended"
    /\ buffer' = Terminate(Flush(buffer), "closed")
    /\ UNCHANGED << fromBlock, consumer, got, used >>

\* The buffer was closed by its consumer: requests and waits are aborted.  The body of a
\* response is no longer watched for that, so that it is seen at its next chunk, if one comes.
Aborted ==
    /\ ingest # "ended"
    /\ ~ Open
    /\ ingest' = "ended"
    /\ UNCHANGED << fromBlock, buffer, consumer, got, used >>

------------------------------------------------------------------------------
(***************************************************************************)
(* Timers.                                                                  *)
(***************************************************************************)
IdleTimer ==
    /\ buffer.idle
    /\ buffer' = Flush([buffer EXCEPT !.idle = FALSE])
    /\ UNCHANGED << ingest, fromBlock, consumer, got, used >>

WaitTimer ==
    /\ buffer.wait
    /\ buffer' = [buffer EXCEPT !.wait = FALSE, !.timeouted = TRUE]
    /\ UNCHANGED << ingest, fromBlock, consumer, got, used >>

------------------------------------------------------------------------------
(***************************************************************************)
(* The consumer.                                                            *)
(***************************************************************************)
\* collect(): what there is; then the error or the end.
Collect ==
    IF HasData(buffer)
    THEN consumer' = "idle" /\ got' = got \o buffer.blocks
    ELSE /\ consumer' = IF buffer.state = "failed" THEN "threw" ELSE "done"
         /\ UNCHANGED got

\* take() begins; on a terminated buffer it does not wait.
Take ==
    /\ consumer = "idle"
    /\ IF Open
       THEN /\ consumer' = "taking"
            /\ buffer' = [buffer EXCEPT !.wait = TRUE]
            /\ UNCHANGED got
       ELSE /\ Collect
            /\ buffer' = Collected(buffer)
    /\ UNCHANGED << ingest, fromBlock, used >>

\* The rest of take().
Taken(b) ==
    [Collected(b) EXCEPT !.wait = FALSE, !.put = FALSE, !.take = TRUE, !.timeouted = FALSE]

TakeResumes ==
    /\ consumer = "taking"
    /\ buffer.put
    /\ Collect
    /\ buffer' = Taken(buffer)
    /\ UNCHANGED << ingest, fromBlock, used >>

\* The consumer breaks out of its loop: return().
Leave ==
    /\ consumer = "idle"
    /\ consumer' = "left"
    /\ buffer' = Terminate(buffer, "closed")
    /\ UNCHANGED << ingest, fromBlock, got, used >>

------------------------------------------------------------------------------
Init ==
    /\ ingest = "request"
    /\ fromBlock = 1
    /\ buffer = [blocks |-> << >>, headUpdated |-> FALSE, state |-> "open",
                 put |-> FALSE, take |-> TRUE, timeouted |-> FALSE,
                 idle |-> FALSE, wait |-> FALSE]
    /\ consumer = "idle"
    /\ got = << >>
    /\ used = 0

Next ==
    \/ AnswerData \/ AnswerNoData \/ PollAgain \/ AnswerFails
    \/ ReadChunk \/ Reset \/ ResponseEnds \/ PutResumes \/ RangeEnds \/ Aborted
    \/ IdleTimer \/ WaitTimer
    \/ Take \/ TakeResumes \/ Leave

\* Timers fire, promises that are resolved go on, the consumer asks for more.  Nothing
\* is assumed of the portal, save that a request is answered.
Fairness ==
    /\ WF_vars(IdleTimer) /\ WF_vars(WaitTimer)
    /\ WF_vars(PutResumes) /\ WF_vars(RangeEnds)
    /\ WF_vars(PollAgain)
    /\ WF_vars(ingest = "request" /\ (AnswerData \/ AnswerNoData \/ AnswerFails))
    /\ WF_vars(Take \/ Leave) /\ WF_vars(TakeResumes)

Spec == Init /\ [][Next]_vars /\ Fairness

------------------------------------------------------------------------------
\* put() bounds what is buffered: less than maxBytes and one chunk.
TypeOK ==
    /\ ingest \in {"request", "reading", "putting", "polling", "ended"}
    /\ fromBlock \in 1..(ToBlock + 1)
    /\ Len(buffer.blocks) < MaxBytes + MaxLines
    /\ buffer.state \in {"open", "closed", "failed"}
    /\ consumer \in {"idle", "taking", "done", "threw", "left"}
    /\ used \in 0..MaxFaults

\* Every block that was read gets to the consumer once and in order, across resets,
\* full buffers and timers: what it has got and what is buffered is what was read.
NothingLost == got \o buffer.blocks = UpTo(fromBlock - 1)

\* The stream ends only after the last block of the range, and throws only after
\* everything that was read before the error.
EndsAfterData ==
    /\ consumer = "done" => got = UpTo(ToBlock)
    /\ consumer = "threw" => got = UpTo(fromBlock - 1)

\* put() waits for a take that can go on: nobody waits for each other.
NoStandoff == ingest = "putting" /\ Open => buffer.put \/ buffer.take

\* A block that was read is not kept: the consumer gets it or leaves, even if the
\* portal sends nothing more.
BlocksMoveOn ==
    \A n \in 1..ToBlock : fromBlock > n ~> (Len(got) >= n \/ consumer = "left")

\* The stream gives its consumer all that was read, in order, and ends or throws only
\* after it; put() and take() do not wait for each other.
StreamIsSound == TypeOK /\ NothingLost /\ EndsAfterData /\ NoStandoff

==============================================================================
