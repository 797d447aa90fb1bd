--------------------------- MODULE SegmentPipeline ---------------------------
(***************************************************************************)
(* downloadFile and processSegment (internal/engine/engine.go): how one    *)
(* file of an NZB is fetched.  A feeder goroutine sends segment indices to *)
(* worker goroutines over segCh; each worker sends what it fetched over    *)
(* resultCh; the engine's own goroutine, the consumer, writes the segments *)
(* in order and keeps those that arrive early in a map.                    *)
(*                                                                         *)
(* Indices are fed in increasing order, so segCh is the interval of those  *)
(* fed and not yet taken.  A step is one channel operation, one fetch or   *)
(* one processSegment.                                                     *)
(***************************************************************************)
EXTENDS Integers, Sequences

CONSTANTS
    NumSegments,  \* len(file.Segments)
    MaxConns      \* pools[0].pool.MaxConns()

ASSUME NumSegmentsIsNat == NumSegments \in Nat
ASSUME MaxConnsIsInt == MaxConns \in Int

\* One worker at least, and no more than there are segments.
Concurrency ==
    LET conns == IF MaxConns < 1 THEN 1 ELSE MaxConns
    IN  IF conns > NumSegments THEN NumSegments ELSE conns

ChanCap == 2 * Concurrency
Workers == 1..Concurrency

Segment == 0..(NumSegments - 1)

\* segmentResult: data says that the fetch returned no error.
Result == [index : Segment, data : BOOLEAN]

VARIABLES
    fed,        \* indices sent to segCh
    taken,      \* indices received from segCh
    feeder,     \* "feeding", "waiting" (segCh closed), "closed" (resultCh too)
    at,         \* where each worker is
    holds,      \* the result in each worker's hands, meaningful when it has one
    results,    \* resultCh
    consumer,   \* where downloadFile's own loop is
    pending,    \* the map of segments that arrived and are not written
    writeIdx,   \* the next segment to write
    done,       \* segments counted in DoneSegments
    failed,     \* segments counted in FailedSegments
    cancelled,  \* the job's context is done
    lost        \* history variable: indices taken by workers that then exited

feedVars == <<fed, feeder>>
workVars == <<taken, at, holds, lost>>
consVars == <<consumer, pending, writeIdx, done, failed>>
vars == <<feedVars, workVars, consVars, results, cancelled>>

\* Neither channel holds more than its capacity, and the write cursor and the
\* two counters never pass the number of segments of the file.
TypeOK ==
    /\ fed \in 0..NumSegments
    /\ taken \in 0..fed
    /\ feeder \in {"feeding", "waiting", "closed"}
    /\ at \in [Workers -> {"receive", "fetch", "send", "exited"}]
    /\ holds \in [Workers -> Result]
    /\ results \in Seq(Result)
    /\ Len(results) <= ChanCap
    /\ consumer \in {"receive", "drain", "flush", "returned", "failed"}
    /\ pending \subseteq Result
    /\ writeIdx \in 0..NumSegments
    /\ done \in 0..NumSegments
    /\ failed \in 0..NumSegments
    /\ cancelled \in BOOLEAN
    /\ lost \subseteq Segment

\* What a worker holds while it fetches segment i.
Fetching(i) == [index |-> i, data |-> FALSE]

Init ==
    /\ fed = 0
    /\ taken = 0
    /\ feeder = "feeding"
    /\ at = [w \in Workers |-> "receive"]
    /\ holds = [w \in Workers |-> Fetching(0)]
    /\ results = <<>>
    /\ consumer = "receive"
    /\ pending = {}
    /\ writeIdx = 0
    /\ done = 0
    /\ failed = 0
    /\ cancelled = FALSE
    /\ lost = {}

-----------------------------------------------------------------------------
(* The feeder.                                                             *)

Feed ==
    /\ feeder = "feeding"
    /\ fed < NumSegments
    /\ fed - taken < ChanCap
    /\ fed' = fed + 1
    /\ UNCHANGED <<feeder, workVars, consVars, results, cancelled>>

\* Mutant of CloseSegCh: wg.Wait comes before close(segCh).
CloseSegCh_AfterWait ==
    /\ feeder = "feeding"
    /\ fed = NumSegments
    /\ \A w \in Workers : at[w] = "exited"
    /\ feeder' = "waiting"
    /\ UNCHANGED <<fed, workVars, consVars, results, cancelled>>

CloseSegCh ==
    /\ feeder = "feeding"
    /\ fed = NumSegments
    /\ feeder' = "waiting"
    /\ UNCHANGED <<fed, workVars, consVars, results, cancelled>>

\* Mutant of CloseResultCh: no wg.Wait.
CloseResultCh_NoWait ==
    /\ feeder = "waiting"
    /\ feeder' = "closed"
    /\ UNCHANGED <<fed, workVars, consVars, results, cancelled>>

\* Mutant of CloseResultCh: the first worker to exit is taken for all.
CloseResultCh_AnyWorker ==
    /\ feeder = "waiting"
    /\ \E w \in Workers : at[w] = "exited"
    /\ feeder' = "closed"
    /\ UNCHANGED <<fed, workVars, consVars, results, cancelled>>

\* wg.Wait, then close(resultCh).
CloseResultCh ==
    /\ feeder = "waiting"
    /\ \A w \in Workers : at[w] = "exited"
    /\ feeder' = "closed"
    /\ UNCHANGED <<fed, workVars, consVars, results, cancelled>>

-----------------------------------------------------------------------------
(* The workers.                                                            *)

\* Receive an index; a worker that sees the context done drops it and exits.
Take(w) ==
    /\ at[w] = "receive"
    /\ taken < fed
    /\ taken' = taken + 1
    /\ IF cancelled
       THEN /\ at' = [at EXCEPT ![w] = "exited"]
            /\ lost' = lost \cup {taken}
            /\ UNCHANGED holds
       ELSE /\ at' = [at EXCEPT ![w] = "fetch"]
            /\ holds' = [holds EXCEPT ![w] = Fetching(taken)]
            /\ UNCHANGED lost
    /\ UNCHANGED <<feedVars, consVars, results, cancelled>>

\* The range over segCh ends when it is closed and empty.
Exit(w) ==
    /\ at[w] = "receive"
    /\ taken = fed
    /\ feeder # "feeding"
    /\ at' = [at EXCEPT ![w] = "exited"]
    /\ UNCHANGED <<feedVars, taken, holds, lost, consVars, results, cancelled>>

\* fetchSegment returns the article or the last error of the servers.
FetchReturns(w) ==
    /\ at[w] = "fetch"
    /\ \E data \in BOOLEAN : holds' = [holds EXCEPT ![w].data = data]
    /\ at' = [at EXCEPT ![w] = "send"]
    /\ UNCHANGED <<feedVars, taken, lost, consVars, results, cancelled>>

SendResult(w) ==
    /\ at[w] = "send"
    /\ Len(results) < ChanCap
    /\ results' = Append(results, holds[w])
    /\ at' = [at EXCEPT ![w] = "receive"]
    /\ holds' = [holds EXCEPT ![w] = Fetching(0)]  \* out of scope
    /\ UNCHANGED <<feedVars, taken, lost, consVars, cancelled>>

Work(w) == Take(w) \/ Exit(w) \/ FetchReturns(w) \/ SendResult(w)

-----------------------------------------------------------------------------
(* The consumer.                                                           *)

Arrived == {r.index : r \in pending}

ReceiveResult ==
    /\ consumer = "receive"
    /\ results # <<>>
    /\ pending' = pending \cup {Head(results)}
    /\ results' = Tail(results)
    /\ consumer' = "drain"
    /\ UNCHANGED <<feedVars, workVars, writeIdx, done, failed, cancelled>>

\* resultCh is closed and empty.
ResultsEnd ==
    /\ consumer = "receive"
    /\ results = <<>>
    /\ feeder = "closed"
    /\ consumer' = "flush"
    /\ UNCHANGED <<feedVars, workVars, pending, writeIdx, done, failed,
                   results, cancelled>>

\* processSegment counts a segment that was not fetched, or that cannot be
\* decoded at all, as failed; it writes any other, a bad CRC included.
CountFailed ==
    /\ failed' = failed + 1
    /\ writeIdx' = writeIdx + 1
    /\ UNCHANGED <<consumer, done>>

CountDone ==
    /\ done' = done + 1
    /\ writeIdx' = writeIdx + 1
    /\ UNCHANGED <<consumer, failed>>

\* The write fails: downloadFile returns and leaves its goroutines behind.
WriteFails ==
    /\ consumer' = "failed"
    /\ UNCHANGED <<writeIdx, done, failed>>

\* Mutant of ProcessSegment: the segment stays in the map.
ProcessSegment_NoDelete ==
    /\ consumer \in {"drain", "flush"}
    /\ \E r \in pending :
          /\ r.index = writeIdx
          /\ \/ CountFailed
             \/ r.data /\ (CountDone \/ WriteFails)
    /\ UNCHANGED <<feedVars, workVars, pending, results, cancelled>>

ProcessSegment ==
    /\ consumer \in {"drain", "flush"}
    /\ \E r \in pending :
          /\ r.index = writeIdx
          /\ pending' = pending \ {r}
          /\ \/ CountFailed
             \/ r.data /\ (CountDone \/ WriteFails)
    /\ UNCHANGED <<feedVars, workVars, results, cancelled>>

DrainEnds ==
    /\ consumer = "drain"
    /\ writeIdx \notin Arrived
    /\ consumer' = "receive"
    /\ UNCHANGED <<feedVars, workVars, pending, writeIdx, done, failed,
                   results, cancelled>>

\* Mutant of FlushMissing: one index too many.
FlushMissing_OneMore ==
    /\ consumer = "flush"
    /\ writeIdx <= NumSegments
    /\ writeIdx \notin Arrived
    /\ CountFailed
    /\ UNCHANGED <<feedVars, workVars, pending, results, cancelled>>

\* Mutant of FlushMissing: a missing segment is skipped and not counted.
FlushMissing_Uncounted ==
    /\ consumer = "flush"
    /\ writeIdx < NumSegments
    /\ writeIdx \notin Arrived
    /\ writeIdx' = writeIdx + 1
    /\ UNCHANGED <<feedVars, workVars, consumer, done, failed, pending,
                   results, cancelled>>

FlushMissing ==
    /\ consumer = "flush"
    /\ writeIdx < NumSegments
    /\ writeIdx \notin Arrived
    /\ CountFailed
    /\ UNCHANGED <<feedVars, workVars, pending, results, cancelled>>

Return ==
    /\ consumer = "flush"
    /\ writeIdx = NumSegments
    /\ consumer' = "returned"
    /\ UNCHANGED <<feedVars, workVars, pending, writeIdx, done, failed,
                   results, cancelled>>

FeederStep == Feed \/ CloseSegCh \/ CloseResultCh

ConsumerStep ==
    \/ ReceiveResult \/ ResultsEnd
    \/ ProcessSegment \/ DrainEnds
    \/ FlushMissing \/ Return

-----------------------------------------------------------------------------

\* The job is deleted, or the process is told to stop.
Cancel ==
    /\ ~cancelled
    /\ cancelled' = TRUE
    /\ UNCHANGED <<feedVars, workVars, consVars, results>>

Next == FeederStep \/ (\E w \in Workers : Work(w)) \/ ConsumerStep \/ Cancel

Spec == Init /\ [][Next]_vars

\* Goroutines are scheduled, and a server answers or the connection fails.
Fairness ==
    /\ WF_vars(FeederStep)
    /\ WF_vars(ConsumerStep)
    /\ \A w \in Workers : WF_vars(Work(w))

FairSpec == Spec /\ Fairness

-----------------------------------------------------------------------------
(* Properties.                                                             *)

\* The flush loop's comment, "shouldn't happen if all segments arrived": as
\* long as the job is not cancelled, when resultCh is closed every segment
\* has gone through processSegment; none is stuck in a channel, in the map
\* or in a worker, whatever the order the fetches return in.
NothingLeftToFlush ==
    consumer = "flush" /\ ~cancelled => writeIdx = NumSegments /\ pending = {}

\* A nil return means that every segment has been counted exactly once, as
\* done or as failed, in a cancelled download too.
ReturnCountsEverySegment ==
    consumer = "returned" => done + failed = NumSegments

\* resultCh is closed only when nobody can still send to it (a send on a
\* closed channel panics), so a nil return leaves no goroutine behind.
NoSendAfterClose ==
    feeder = "closed" \/ consumer = "returned"
        => \A w \in Workers : at[w] = "exited"

\* A segment is in one place at most: workers and channels hand it on, so
\* it is never fetched twice nor written twice.
Holding == {w \in Workers : at[w] \in {"fetch", "send"}}

SegmentInOnePlace ==
    /\ \A v, w \in Holding : holds[v].index = holds[w].index => v = w
    /\ \A j, k \in 1..Len(results) :
          results[j].index = results[k].index => j = k
    /\ \A w \in Holding, k \in 1..Len(results) :
          holds[w].index # results[k].index
    /\ \A r \in pending :
          /\ r.index >= writeIdx
          /\ \A w \in Holding : holds[w].index # r.index
          /\ \A k \in 1..Len(results) : results[k].index # r.index

\* A download that is not cancelled returns: the two bounded channels and
\* the in-order consumer never wait for each other in a circle.
DownloadReturns ==
    <>(consumer \in {"returned", "failed"} \/ cancelled)

-----------------------------------------------------------------------------
(* What a comment says and the code does not keep.                        *)

\* engine.go: the context is cancellable "so it can be stopped on delete".
CancelledReturns == cancelled ~> consumer \in {"returned", "failed"}

=============================================================================
