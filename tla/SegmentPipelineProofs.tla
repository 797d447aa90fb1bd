------------------------ MODULE SegmentPipelineProofs ------------------------
(***************************************************************************)
(* Every segment of a file goes through the workers, the result channel    *)
(* and the map exactly once, for any number of segments and connections.   *)
(***************************************************************************)
EXTENDS SegmentPipeline, TLAPS

\* The map has one result for an index.
PendingOnce == \A q, r \in pending : q.index = r.index => q = r

\* Workers, channel and map hold indices that were taken and are not behind
\* the write cursor.
InFlight(i) == writeIdx <= i /\ i < taken

AllInFlight ==
    /\ \A w \in Holding : InFlight(holds[w].index)
    /\ \A k \in 1..Len(results) : InFlight(results[k].index)
    /\ \A r \in pending : InFlight(r.index)

\* The write cursor overtakes the workers only in the flush loop.
CursorBehind == feeder # "closed" => writeIdx <= taken

\* An index that was taken is written, somewhere on its way, or lost: unless
\* its write has failed, after which nobody asks for it.
OnItsWay(i) ==
    \/ \E w \in Holding : holds[w].index = i
    \/ \E k \in 1..Len(results) : results[k].index = i
    \/ \E r \in pending : r.index = i

NoneForgotten ==
    consumer # "failed" =>
        \A i \in Segment : i < taken => i < writeIdx \/ OnItsWay(i) \/ i \in lost

LostByCancel == lost # {} => cancelled

\* The range over segCh ends after its last index, unless the job is cancelled.
FedAll == feeder # "feeding" => fed = NumSegments

ExitAtEnd ==
    ~cancelled => \A w \in Workers : at[w] = "exited" => taken = NumSegments

\* resultCh is closed behind the last worker, and drained behind that.
ClosedAtEnd ==
    /\ feeder = "closed" => \A w \in Workers : at[w] = "exited"
    /\ consumer \in {"flush", "returned"} => feeder = "closed" /\ results = <<>>

\* The in-order loop stops in front of a segment that has not arrived.
CursorWaits == consumer = "receive" => writeIdx \notin Arrived

CursorCounts ==
    /\ done + failed = writeIdx
    /\ consumer = "returned" => writeIdx = NumSegments

IndInv ==
    /\ TypeOK
    /\ SegmentInOnePlace
    /\ PendingOnce
    /\ AllInFlight
    /\ CursorBehind
    /\ NoneForgotten
    /\ LostByCancel
    /\ FedAll
    /\ ExitAtEnd
    /\ ClosedAtEnd
    /\ CursorWaits
    /\ CursorCounts
    /\ NothingLeftToFlush
-----------------------------------------------------------------------------

LEMMA ConstantFacts ==
    /\ ChanCap \in Nat
    /\ NumSegments > 0 => Workers # {}
    /\ Workers # {} => 0 \in Segment
<1>1. Concurrency \in Nat /\ (NumSegments > 0 => Concurrency >= 1)
      /\ (Concurrency >= 1 => NumSegments > 0)
  BY NumSegmentsIsNat, MaxConnsIsInt DEF Concurrency
<1>2. NumSegments > 0 => 1 \in Workers
  BY <1>1, NumSegmentsIsNat DEF Workers
<1>3. Workers # {} => Concurrency >= 1
  BY <1>1 DEF Workers
<1>. QED
  BY <1>1, <1>2, <1>3, NumSegmentsIsNat DEF ChanCap, Segment

LEMMA FetchingIsResult == \A i \in Segment : Fetching(i) \in Result /\ Fetching(i).index = i
BY DEF Fetching, Result

LEMMA InitIndInv == Init => IndInv
<1> SUFFICES ASSUME Init
             PROVE  IndInv
  OBVIOUS
<1>1. holds \in [Workers -> Result]
  BY ConstantFacts, FetchingIsResult DEF Init
<1>2. Len(results) = 0 /\ results \in Seq(Result)
  BY DEF Init
<1>3. TypeOK
  <2>1. at \in [Workers -> {"receive", "fetch", "send", "exited"}]
    BY DEF Init
  <2>2. /\ fed \in 0..NumSegments /\ taken \in 0..fed /\ writeIdx \in 0..NumSegments
        /\ done \in 0..NumSegments /\ failed \in 0..NumSegments
    BY NumSegmentsIsNat DEF Init
  <2>3. Len(results) <= ChanCap
    BY <1>2, ConstantFacts
  <2>4. /\ feeder = "feeding" /\ consumer = "receive" /\ cancelled = FALSE
        /\ pending = {} /\ lost = {}
    BY DEF Init
  <2>. QED
    BY <1>1, <1>2, <2>1, <2>2, <2>3, <2>4 DEF TypeOK
<1>4. Holding = {} /\ 1..Len(results) = {}
  BY <1>2 DEF Init, Holding
<1>5. SegmentInOnePlace /\ PendingOnce /\ AllInFlight
  BY <1>4 DEF Init, SegmentInOnePlace, PendingOnce, AllInFlight
<1>6. NoneForgotten
  BY DEF Init, NoneForgotten, Segment
<1>7. CursorWaits /\ CursorBehind /\ CursorCounts /\ NothingLeftToFlush
  BY DEF Init, CursorWaits, CursorBehind, CursorCounts, NothingLeftToFlush, Arrived
<1>8. LostByCancel /\ FedAll /\ ExitAtEnd /\ ClosedAtEnd
  BY DEF Init, LostByCancel, FedAll, ExitAtEnd, ClosedAtEnd
<1>. QED
  BY <1>3, <1>5, <1>6, <1>7, <1>8 DEF IndInv

\* What the workers, the channel and the map hold is as before.
LEMMA SamePlaces ==
    ASSUME UNCHANGED <<at, holds, results, pending>>
    PROVE  /\ Holding' = Holding
           /\ Arrived' = Arrived
           /\ \A i : OnItsWay(i)' <=> OnItsWay(i)
           /\ PendingOnce' <=> PendingOnce
BY DEF Holding, Arrived, OnItsWay, PendingOnce

LEMMA IndexIsSegment ==
    ASSUME TypeOK
    PROVE  /\ \A w \in Workers : holds[w].index \in Segment
           /\ \A k \in 1..Len(results) : results[k].index \in Segment
           /\ \A r \in pending : r.index \in Segment
<1>1. \A r \in Result : r.index \in Segment
  BY DEF Result
<1>2. \A k \in 1..Len(results) : results[k] \in Result
  BY DEF TypeOK
<1>. QED
  BY <1>1, <1>2 DEF TypeOK

LEMMA FeederSteps ==
    ASSUME IndInv, FeederStep
    PROVE  IndInv'
<1>. USE DEF IndInv
<1>1. UNCHANGED <<workVars, consVars, results, cancelled>>
  BY DEF FeederStep, Feed, CloseSegCh, CloseResultCh
<1>2. /\ Holding' = Holding
      /\ Arrived' = Arrived
      /\ \A i : OnItsWay(i)' <=> OnItsWay(i)
      /\ PendingOnce'
  BY <1>1, SamePlaces DEF workVars, consVars
<1>3. fed' \in 0..NumSegments /\ taken \in 0..fed'
      /\ feeder' \in {"feeding", "waiting", "closed"}
  BY NumSegmentsIsNat DEF FeederStep, Feed, CloseSegCh, CloseResultCh, TypeOK, feedVars,
     workVars
<1>4. TypeOK'
  BY <1>1, <1>3 DEF TypeOK, workVars, consVars
<1>5. SegmentInOnePlace' /\ AllInFlight' /\ NoneForgotten' /\ CursorWaits' /\ CursorCounts'
      /\ LostByCancel' /\ ExitAtEnd' /\ NothingLeftToFlush'
  BY <1>1, <1>2 DEF SegmentInOnePlace, AllInFlight, InFlight, NoneForgotten, CursorWaits,
     CursorCounts, LostByCancel, ExitAtEnd, NothingLeftToFlush, workVars, consVars
<1>6. CursorBehind' /\ FedAll' /\ ClosedAtEnd'
  BY <1>1 DEF CursorBehind, FedAll, ClosedAtEnd, FeederStep, Feed, CloseSegCh, CloseResultCh,
     workVars, consVars
<1>. QED
  BY <1>2, <1>4, <1>5, <1>6

-----------------------------------------------------------------------------
(* The workers.                                                            *)

\* A worker that neither has a segment nor gets one.
LEMMA ExitStep ==
    ASSUME IndInv, NEW w \in Workers, Exit(w)
    PROVE  IndInv'
<1>. USE DEF IndInv
<1>1. /\ at[w] = "receive" /\ taken = fed /\ fed = NumSegments
      /\ at' = [at EXCEPT ![w] = "exited"]
      /\ UNCHANGED <<feedVars, taken, holds, lost, consVars, results, cancelled>>
  BY DEF Exit, FedAll
<1>2. Holding' = Holding /\ Arrived' = Arrived
  BY <1>1 DEF Holding, Arrived, consVars, TypeOK
<1>3. \A i : OnItsWay(i)' <=> OnItsWay(i)
  BY <1>1, <1>2 DEF OnItsWay, consVars
<1>4. TypeOK'
  BY <1>1 DEF TypeOK, feedVars, consVars
<1>5. /\ SegmentInOnePlace' /\ PendingOnce' /\ AllInFlight' /\ CursorBehind'
      /\ NoneForgotten' /\ LostByCancel' /\ FedAll' /\ CursorWaits' /\ CursorCounts'
      /\ NothingLeftToFlush'
  BY <1>1, <1>2, <1>3 DEF SegmentInOnePlace, PendingOnce, AllInFlight, InFlight, CursorBehind,
     NoneForgotten, LostByCancel, FedAll, CursorWaits, CursorCounts, NothingLeftToFlush,
     feedVars, consVars
<1>6. ExitAtEnd' /\ ClosedAtEnd'
  BY <1>1 DEF ExitAtEnd, ClosedAtEnd, TypeOK, feedVars, consVars
<1>. QED
  BY <1>4, <1>5, <1>6

\* The index received is in no other place, since all of them were taken before.
LEMMA TakeStep ==
    ASSUME IndInv, NEW w \in Workers, Take(w)
    PROVE  IndInv'
<1>. USE DEF IndInv
<1>1. /\ at[w] = "receive" /\ taken < fed /\ taken' = taken + 1
      /\ UNCHANGED <<feedVars, consVars, results, cancelled>>
  BY DEF Take
<1>2. taken \in Nat /\ taken \in Segment /\ taken' \in 0..fed
  BY <1>1, NumSegmentsIsNat DEF TypeOK, Segment
<1>3. feeder # "closed" /\ consumer \notin {"flush", "returned"}
  BY <1>1 DEF ClosedAtEnd
<1>4. Arrived' = Arrived
  BY <1>1 DEF Arrived, consVars
<1>5. CursorBehind' /\ FedAll' /\ ClosedAtEnd' /\ CursorWaits' /\ CursorCounts'
      /\ NothingLeftToFlush' /\ PendingOnce'
  BY <1>1, <1>2, <1>3, <1>4 DEF CursorBehind, FedAll, ClosedAtEnd, CursorWaits,
     CursorCounts, NothingLeftToFlush, PendingOnce, feedVars, consVars, TypeOK
<1>6. \A i \in Segment : (InFlight(i) => InFlight(i)')
  BY <1>1, <1>2 DEF InFlight, consVars, Segment
<1>7. CASE cancelled
  <2>1. /\ at' = [at EXCEPT ![w] = "exited"]
        /\ lost' = lost \cup {taken}
        /\ holds' = holds
    BY <1>7 DEF Take
  <2>2. Holding' = Holding
    BY <1>1, <2>1 DEF Holding, TypeOK
  <2>3. \A i : OnItsWay(i)' <=> OnItsWay(i)
    BY <1>1, <2>1, <2>2 DEF OnItsWay, consVars
  <2>4. TypeOK'
    BY <1>1, <1>2, <2>1 DEF TypeOK, feedVars, consVars
  <2>5. SegmentInOnePlace' /\ LostByCancel' /\ ExitAtEnd'
    BY <1>1, <1>7, <2>1, <2>2 DEF SegmentInOnePlace, LostByCancel, ExitAtEnd, consVars
  <2>6. AllInFlight'
    BY <1>1, <1>6, <2>1, <2>2, IndexIsSegment DEF AllInFlight, Holding, consVars
  <2>7. NoneForgotten'
    BY <1>1, <1>2, <2>1, <2>3 DEF NoneForgotten, consVars, TypeOK, Segment
  <2>. QED
    BY <1>5, <2>4, <2>5, <2>6, <2>7
<1>8. CASE ~cancelled
  <2>1. /\ at' = [at EXCEPT ![w] = "fetch"]
        /\ holds' = [holds EXCEPT ![w] = Fetching(taken)]
        /\ lost' = lost
    BY <1>8 DEF Take
  <2>2. w \notin Holding /\ Holding' = Holding \cup {w}
    BY <1>1, <2>1 DEF Holding, TypeOK
  <2>3. /\ holds' \in [Workers -> Result]
        /\ holds'[w].index = taken
        /\ \A v \in Holding : holds'[v] = holds[v]
    BY <1>2, <2>1, <2>2, FetchingIsResult DEF TypeOK, Holding
  <2>4. TypeOK'
    BY <1>1, <1>2, <2>1, <2>3 DEF TypeOK, feedVars, consVars
  <2>5. AllInFlight'
    <3>1. \A i : i = taken => (InFlight(i)')
      BY <1>1, <1>2, <1>3 DEF InFlight, CursorBehind, consVars, TypeOK
    <3>. QED
      BY <1>1, <1>6, <2>2, <2>3, <3>1, IndexIsSegment DEF AllInFlight, Holding, consVars
  <2>6. SegmentInOnePlace'
    <3>1. /\ \A v \in Holding : holds[v].index # taken
          /\ \A k \in 1..Len(results) : results[k].index # taken
          /\ \A r \in pending : r.index # taken
      BY <1>2 DEF AllInFlight, InFlight
    <3>. QED
      BY <1>1, <2>2, <2>3, <3>1 DEF SegmentInOnePlace, consVars
  <2>7. LostByCancel' /\ ExitAtEnd'
    BY <1>1, <1>2, <1>8, <2>1 DEF LostByCancel, ExitAtEnd, TypeOK
  <2>8. \A i : OnItsWay(i) \/ i = taken => OnItsWay(i)'
    BY <1>1, <2>2, <2>3 DEF OnItsWay, consVars
  <2>9. NoneForgotten'
    BY <1>1, <1>2, <2>1, <2>8 DEF NoneForgotten, consVars, TypeOK, Segment
  <2>. QED
    BY <1>5, <2>4, <2>5, <2>6, <2>7, <2>9
<1>. QED
  BY <1>7, <1>8

LEMMA FetchReturnsStep ==
    ASSUME IndInv, NEW w \in Workers, FetchReturns(w)
    PROVE  IndInv'
<1>. USE DEF IndInv
<1>1. PICK data \in BOOLEAN :
         /\ at[w] = "fetch"
         /\ holds' = [holds EXCEPT ![w].data = data]
         /\ at' = [at EXCEPT ![w] = "send"]
         /\ UNCHANGED <<feedVars, taken, lost, consVars, results, cancelled>>
  BY DEF FetchReturns
<1>2. Holding' = Holding /\ Arrived' = Arrived
  BY <1>1 DEF Holding, Arrived, TypeOK, consVars
<1>3. /\ holds' \in [Workers -> Result]
      /\ \A v \in Workers : holds'[v].index = holds[v].index
  <2>1. /\ [holds[w] EXCEPT !.data = data] \in Result
        /\ [holds[w] EXCEPT !.data = data].index = holds[w].index
    BY DEF Result, TypeOK
  <2>2. holds' = [holds EXCEPT ![w] = [holds[w] EXCEPT !.data = data]]
    BY <1>1
  <2>. QED
    BY <2>1, <2>2 DEF TypeOK
<1>4. \A i : OnItsWay(i)' <=> OnItsWay(i)
  BY <1>1, <1>2, <1>3 DEF OnItsWay, consVars, Holding
<1>5. TypeOK'
  BY <1>1, <1>3 DEF TypeOK, feedVars, consVars
<1>6. SegmentInOnePlace' /\ AllInFlight' /\ PendingOnce'
  BY <1>1, <1>2, <1>3 DEF SegmentInOnePlace, AllInFlight, InFlight, PendingOnce, consVars, Holding
<1>7. /\ CursorBehind' /\ NoneForgotten' /\ LostByCancel' /\ FedAll' /\ CursorWaits'
      /\ CursorCounts' /\ NothingLeftToFlush'
  BY <1>1, <1>2, <1>4 DEF CursorBehind, NoneForgotten, LostByCancel, FedAll, CursorWaits,
     CursorCounts, NothingLeftToFlush, feedVars, consVars
<1>8. ExitAtEnd' /\ ClosedAtEnd'
  BY <1>1 DEF ExitAtEnd, ClosedAtEnd, TypeOK, feedVars, consVars
<1>. QED
  BY <1>5, <1>6, <1>7, <1>8

\* A segment goes from a worker's hands to the end of the channel.
LEMMA SendResultStep ==
    ASSUME IndInv, NEW w \in Workers, SendResult(w)
    PROVE  IndInv'
<1>. USE DEF IndInv
<1>1. /\ at[w] = "send"
      /\ Len(results) < ChanCap
      /\ results' = Append(results, holds[w])
      /\ at' = [at EXCEPT ![w] = "receive"]
      /\ holds' = [holds EXCEPT ![w] = Fetching(0)]
      /\ UNCHANGED <<feedVars, taken, lost, consVars, cancelled>>
  BY DEF SendResult
<1>2. /\ w \in Holding /\ Holding' = Holding \ {w} /\ Arrived' = Arrived
      /\ feeder # "closed" /\ consumer \notin {"flush", "returned"}
  BY <1>1 DEF Holding, Arrived, TypeOK, consVars, ClosedAtEnd
<1>3. /\ holds' \in [Workers -> Result] /\ holds[w] \in Result
      /\ \A v \in Holding' : holds'[v] = holds[v]
  BY <1>1, <1>2, ConstantFacts, FetchingIsResult DEF TypeOK, Holding
<1>4. /\ results' \in Seq(Result) /\ Len(results) \in Nat /\ Len(results') = Len(results) + 1
      /\ \A k \in 1..Len(results) : results'[k] = results[k]
      /\ results'[Len(results) + 1] = holds[w]
  BY <1>1, <1>3 DEF TypeOK
<1>5. TypeOK'
  BY <1>1, <1>3, <1>4, ConstantFacts DEF TypeOK, feedVars, consVars
<1>6. AllInFlight' /\ PendingOnce'
  BY <1>1, <1>2, <1>3, <1>4 DEF AllInFlight, InFlight, PendingOnce, consVars
<1>7. SegmentInOnePlace'
  BY <1>1, <1>2, <1>3, <1>4 DEF SegmentInOnePlace, consVars
<1>8. \A i : OnItsWay(i) => OnItsWay(i)'
  BY <1>1, <1>2, <1>3, <1>4 DEF OnItsWay, consVars
<1>9. /\ CursorBehind' /\ NoneForgotten' /\ LostByCancel' /\ FedAll' /\ CursorWaits'
      /\ CursorCounts' /\ NothingLeftToFlush'
  BY <1>1, <1>2, <1>8 DEF CursorBehind, NoneForgotten, LostByCancel, FedAll, CursorWaits,
     CursorCounts, NothingLeftToFlush, feedVars, consVars
<1>10. ExitAtEnd' /\ ClosedAtEnd'
  BY <1>1, <1>2 DEF ExitAtEnd, ClosedAtEnd, TypeOK, feedVars, consVars
<1>. QED
  BY <1>5, <1>6, <1>7, <1>9, <1>10

-----------------------------------------------------------------------------
(* The consumer.                                                           *)

\* A segment goes from the head of the channel to the map.
LEMMA ReceiveResultStep ==
    ASSUME IndInv, ReceiveResult
    PROVE  IndInv'
<1>. USE DEF IndInv
<1>1. /\ consumer = "receive" /\ results # <<>>
      /\ pending' = pending \cup {Head(results)}
      /\ results' = Tail(results)
      /\ consumer' = "drain"
      /\ UNCHANGED <<feedVars, workVars, writeIdx, done, failed, cancelled>>
  BY DEF ReceiveResult
<1>2. /\ results' \in Seq(Result) /\ Len(results) \in Nat
      /\ Len(results') = Len(results) - 1 /\ Len(results) >= 1
      /\ \A k \in 1..Len(results') : results'[k] = results[k + 1]
      /\ Head(results) = results[1] /\ results[1] \in Result
  BY <1>1 DEF TypeOK
<1>3. Holding' = Holding
  BY <1>1 DEF Holding, workVars
<1>4. TypeOK'
  BY <1>1, <1>2, ConstantFacts DEF TypeOK, feedVars, workVars
<1>5. /\ \A r \in pending : r.index # results[1].index
      /\ \A k \in 2..Len(results) : results[k].index # results[1].index
      /\ \A v \in Holding : holds[v].index # results[1].index
      /\ InFlight(results[1].index)
  BY <1>2 DEF SegmentInOnePlace, AllInFlight
<1>6. PendingOnce'
  BY <1>1, <1>2, <1>5 DEF PendingOnce
<1>7. AllInFlight'
  BY <1>1, <1>2, <1>3, <1>5 DEF AllInFlight, InFlight, workVars
<1>8. SegmentInOnePlace'
  <2>1. \A j, k \in 1..Len(results') : results'[j].index = results'[k].index => j = k
    BY <1>2 DEF SegmentInOnePlace
  <2>2. \A v \in Holding, k \in 1..Len(results') : holds[v].index # results'[k].index
    BY <1>2 DEF SegmentInOnePlace
  <2>3. \A r \in pending' :
           /\ r.index >= writeIdx
           /\ \A v \in Holding : holds[v].index # r.index
           /\ \A k \in 1..Len(results') : results'[k].index # r.index
    BY <1>1, <1>2, <1>5 DEF SegmentInOnePlace, InFlight
  <2>. QED
    BY <1>1, <1>3, <2>1, <2>2, <2>3 DEF SegmentInOnePlace, workVars
<1>9. \A i : OnItsWay(i) => OnItsWay(i)'
  <2> SUFFICES ASSUME NEW i, OnItsWay(i)
               PROVE  OnItsWay(i)'
    OBVIOUS
  <2>1. CASE \E k \in 1..Len(results) : results[k].index = i
    <3>1. PICK k \in 1..Len(results) : results[k].index = i
      BY <2>1
    <3>2. CASE k = 1
      BY <1>1, <1>2, <3>1, <3>2 DEF OnItsWay
    <3>3. CASE k # 1
      <4>1. k - 1 \in 1..Len(results') /\ results'[k - 1] = results[k]
        BY <1>2, <3>3
      <4>. QED
        BY <3>1, <4>1 DEF OnItsWay
    <3>. QED
      BY <3>2, <3>3
  <2>. QED
    BY <1>1, <1>3, <2>1 DEF OnItsWay, workVars
<1>10. NoneForgotten'
  BY <1>1, <1>9 DEF NoneForgotten, workVars
<1>11. /\ CursorBehind' /\ LostByCancel' /\ FedAll' /\ CursorWaits' /\ CursorCounts'
       /\ NothingLeftToFlush' /\ ExitAtEnd' /\ ClosedAtEnd'
  BY <1>1 DEF CursorBehind, LostByCancel, FedAll, CursorWaits, CursorCounts,
     NothingLeftToFlush, ExitAtEnd, ClosedAtEnd, feedVars, workVars
<1>. QED
  BY <1>4, <1>6, <1>7, <1>8, <1>10, <1>11

\* When the channel has been drained behind the last worker, the segments that
\* were not lost are written: what is behind the cursor is, nothing is on its
\* way but what is in the map, and the cursor stands at none of that.
LEMMA ResultsEndStep ==
    ASSUME IndInv, ResultsEnd
    PROVE  IndInv'
<1>. USE DEF IndInv
<1>1. /\ consumer = "receive" /\ results = <<>> /\ feeder = "closed"
      /\ consumer' = "flush"
      /\ UNCHANGED <<feedVars, workVars, pending, writeIdx, done, failed, results, cancelled>>
  BY DEF ResultsEnd
<1>2. /\ Holding' = Holding /\ Arrived' = Arrived /\ PendingOnce'
      /\ \A i : OnItsWay(i)' <=> OnItsWay(i)
  BY <1>1, SamePlaces DEF workVars
<1>3. TypeOK'
  BY <1>1 DEF TypeOK, feedVars, workVars
<1>4. /\ SegmentInOnePlace' /\ AllInFlight' /\ CursorBehind' /\ NoneForgotten'
      /\ LostByCancel' /\ FedAll' /\ ExitAtEnd' /\ ClosedAtEnd' /\ CursorWaits'
      /\ CursorCounts'
  BY <1>1, <1>2 DEF SegmentInOnePlace, AllInFlight, InFlight, CursorBehind, NoneForgotten,
     LostByCancel, FedAll, ExitAtEnd, ClosedAtEnd, CursorWaits, CursorCounts, feedVars, workVars
<1>5. ASSUME ~cancelled
      PROVE  writeIdx = NumSegments /\ pending = {}
  <2>1. Holding = {} /\ Len(results) = 0 /\ lost = {}
    BY <1>1, <1>5 DEF Holding, ClosedAtEnd, LostByCancel
  <2>2. ASSUME writeIdx # NumSegments
        PROVE  FALSE
    <3>1. writeIdx \in Segment
      BY <2>2, NumSegmentsIsNat DEF TypeOK, Segment
    <3>2. taken = NumSegments
      <4>1. \E w \in Workers : TRUE
        BY <3>1, ConstantFacts, NumSegmentsIsNat DEF Segment
      <4>. QED
        BY <1>1, <1>5, <4>1 DEF ExitAtEnd, ClosedAtEnd
    <3>3. OnItsWay(writeIdx)
      BY <1>1, <2>1, <3>1, <3>2, NumSegmentsIsNat DEF NoneForgotten, Segment
    <3>4. writeIdx \in Arrived
      BY <2>1, <3>3 DEF OnItsWay, Arrived
    <3>. QED
      BY <1>1, <3>4 DEF CursorWaits
  <2>3. pending = {}
    <3>1. ASSUME NEW r \in pending
          PROVE  FALSE
      <4>1. r.index \in Segment /\ r.index >= writeIdx
        BY IndexIsSegment DEF SegmentInOnePlace
      <4>. QED
        BY <2>2, <4>1, NumSegmentsIsNat DEF Segment
    <3>. QED
      BY <3>1
  <2>. QED
    BY <2>2, <2>3
<1>6. NothingLeftToFlush'
  BY <1>1, <1>5 DEF NothingLeftToFlush
<1>. QED
  BY <1>2, <1>3, <1>4, <1>6

\* The segment at the cursor leaves the map, and the others are behind it.
LEMMA ProcessSegmentStep ==
    ASSUME IndInv, ProcessSegment
    PROVE  IndInv'
<1>. USE DEF IndInv
<1>1. PICK r \in pending :
         /\ r.index = writeIdx
         /\ pending' = pending \ {r}
         /\ CountFailed \/ (r.data /\ (CountDone \/ WriteFails))
  BY DEF ProcessSegment
<1>2. /\ consumer \in {"drain", "flush"}
      /\ UNCHANGED <<feedVars, workVars, results, cancelled>>
  BY DEF ProcessSegment
<1>3. writeIdx \in Segment /\ writeIdx < taken /\ taken \in Nat /\ writeIdx \in Nat
  BY <1>1, IndexIsSegment, NumSegmentsIsNat DEF AllInFlight, InFlight, TypeOK, Segment
<1>4. /\ \/ /\ consumer' = consumer
            /\ writeIdx' = writeIdx + 1
            /\ \/ failed' = failed + 1 /\ done' = done
               \/ done' = done + 1 /\ failed' = failed
         \/ consumer' = "failed" /\ UNCHANGED <<writeIdx, done, failed>>
  BY <1>1 DEF CountFailed, CountDone, WriteFails
<1>5. Holding' = Holding
  BY <1>2 DEF Holding, workVars
<1>6. /\ \A q \in pending' : q.index # writeIdx
      /\ \A w \in Holding : holds[w].index # writeIdx
      /\ \A k \in 1..Len(results) : results[k].index # writeIdx
  BY <1>1 DEF PendingOnce, SegmentInOnePlace
<1>7. \A i \in Segment : InFlight(i) /\ i # writeIdx => (InFlight(i)')
  BY <1>2, <1>3, <1>4 DEF InFlight, workVars, Segment
<1>8. TypeOK'
  <2>1. writeIdx' \in 0..NumSegments /\ done' \in 0..NumSegments /\ failed' \in 0..NumSegments
    BY <1>3, <1>4, NumSegmentsIsNat DEF TypeOK, CursorCounts, Segment
  <2>. QED
    BY <1>1, <1>2, <1>4, <2>1 DEF TypeOK, feedVars, workVars
<1>9. PendingOnce'
  BY <1>1 DEF PendingOnce
<1>10. AllInFlight'
  BY <1>1, <1>2, <1>5, <1>6, <1>7, IndexIsSegment DEF AllInFlight, Holding, workVars
<1>11. SegmentInOnePlace'
  <2>1. \A q \in pending' : q.index >= writeIdx'
    BY <1>10, <1>8 DEF AllInFlight, InFlight
  <2>. QED
    BY <1>1, <1>2, <1>5, <2>1 DEF SegmentInOnePlace, workVars
<1>12. CursorBehind' /\ CursorCounts' /\ CursorWaits'
  BY <1>2, <1>3, <1>4 DEF CursorBehind, CursorCounts, CursorWaits, feedVars, workVars, TypeOK
<1>13. NoneForgotten'
  <2>1. \A i : OnItsWay(i) /\ i # writeIdx => OnItsWay(i)'
    BY <1>1, <1>2, <1>5 DEF OnItsWay, workVars
  <2>. QED
    BY <1>2, <1>3, <1>4, <2>1 DEF NoneForgotten, workVars, Segment
<1>14. /\ LostByCancel' /\ FedAll' /\ ExitAtEnd' /\ ClosedAtEnd'
  BY <1>2, <1>4 DEF LostByCancel, FedAll, ExitAtEnd, ClosedAtEnd, feedVars, workVars
<1>15. NothingLeftToFlush'
  BY <1>1, <1>2, <1>4 DEF NothingLeftToFlush
<1>. QED
  BY <1>8, <1>9, <1>10, <1>11, <1>12, <1>13, <1>14, <1>15

\* In front of a segment that is not in the map the consumer waits, fills the
\* gap, or returns.
LEMMA DrainEndsStep ==
    ASSUME IndInv, DrainEnds
    PROVE  IndInv'
<1>. USE DEF IndInv
<1>1. /\ writeIdx \notin Arrived /\ consumer = "drain" /\ consumer' = "receive"
      /\ UNCHANGED <<feedVars, workVars, pending, writeIdx, done, failed, results, cancelled>>
  BY DEF DrainEnds
<1>2. /\ Holding' = Holding /\ Arrived' = Arrived /\ PendingOnce'
      /\ \A i : OnItsWay(i)' <=> OnItsWay(i)
  BY <1>1, SamePlaces DEF workVars
<1>3. TypeOK'
  BY <1>1 DEF TypeOK, feedVars, workVars
<1>4. SegmentInOnePlace' /\ AllInFlight' /\ NoneForgotten'
  BY <1>1, <1>2 DEF SegmentInOnePlace, AllInFlight, InFlight, NoneForgotten, workVars
<1>5. /\ CursorBehind' /\ LostByCancel' /\ FedAll' /\ ExitAtEnd' /\ ClosedAtEnd'
      /\ CursorWaits' /\ CursorCounts' /\ NothingLeftToFlush'
  BY <1>1, <1>2 DEF CursorBehind, LostByCancel, FedAll, ExitAtEnd, ClosedAtEnd, CursorWaits,
     CursorCounts, NothingLeftToFlush, feedVars, workVars
<1>. QED
  BY <1>2, <1>3, <1>4, <1>5

LEMMA FlushMissingStep ==
    ASSUME IndInv, FlushMissing
    PROVE  IndInv'
<1>. USE DEF IndInv
<1>1. /\ consumer = "flush" /\ writeIdx < NumSegments /\ writeIdx \notin Arrived
      /\ failed' = failed + 1 /\ writeIdx' = writeIdx + 1
      /\ UNCHANGED <<feedVars, workVars, pending, results, cancelled, consumer, done>>
  BY DEF FlushMissing, CountFailed
<1>2. /\ Holding' = Holding /\ Arrived' = Arrived /\ PendingOnce'
      /\ \A i : OnItsWay(i)' <=> OnItsWay(i)
  BY <1>1, SamePlaces DEF workVars
<1>3. feeder = "closed" /\ Holding = {} /\ Len(results) = 0
  BY <1>1 DEF ClosedAtEnd, Holding
<1>4. \A r \in pending : r.index \in Segment /\ r.index > writeIdx
  BY <1>1, IndexIsSegment DEF SegmentInOnePlace, Arrived, TypeOK, Segment
<1>5. TypeOK'
  <2>1. writeIdx' \in 0..NumSegments /\ failed' \in 0..NumSegments
    BY <1>1, NumSegmentsIsNat DEF TypeOK, CursorCounts
  <2>. QED
    BY <1>1, <2>1 DEF TypeOK, feedVars, workVars
<1>6. SegmentInOnePlace' /\ AllInFlight'
  BY <1>1, <1>2, <1>3, <1>4 DEF SegmentInOnePlace, AllInFlight, InFlight, workVars, TypeOK,
     Segment
<1>7. NoneForgotten'
  BY <1>1, <1>2 DEF NoneForgotten, workVars, TypeOK, Segment
<1>8. /\ CursorBehind' /\ LostByCancel' /\ FedAll' /\ ExitAtEnd' /\ ClosedAtEnd'
      /\ CursorWaits' /\ CursorCounts' /\ NothingLeftToFlush'
  BY <1>1, <1>2, <1>3 DEF CursorBehind, LostByCancel, FedAll, ExitAtEnd, ClosedAtEnd,
     CursorWaits, CursorCounts, NothingLeftToFlush, feedVars, workVars, TypeOK
<1>. QED
  BY <1>2, <1>5, <1>6, <1>7, <1>8

LEMMA ReturnStep ==
    ASSUME IndInv, Return
    PROVE  IndInv'
<1>. USE DEF IndInv
<1>1. /\ consumer = "flush" /\ writeIdx = NumSegments /\ consumer' = "returned"
      /\ UNCHANGED <<feedVars, workVars, pending, writeIdx, done, failed, results, cancelled>>
  BY DEF Return
<1>2. /\ Holding' = Holding /\ Arrived' = Arrived /\ PendingOnce'
      /\ \A i : OnItsWay(i)' <=> OnItsWay(i)
  BY <1>1, SamePlaces DEF workVars
<1>3. TypeOK'
  BY <1>1 DEF TypeOK, feedVars, workVars
<1>4. SegmentInOnePlace' /\ AllInFlight' /\ NoneForgotten'
  BY <1>1, <1>2 DEF SegmentInOnePlace, AllInFlight, InFlight, NoneForgotten, workVars
<1>5. /\ CursorBehind' /\ LostByCancel' /\ FedAll' /\ ExitAtEnd' /\ ClosedAtEnd'
      /\ CursorWaits' /\ CursorCounts' /\ NothingLeftToFlush'
  BY <1>1, <1>2 DEF CursorBehind, LostByCancel, FedAll, ExitAtEnd, ClosedAtEnd, CursorWaits,
     CursorCounts, NothingLeftToFlush, feedVars, workVars
<1>. QED
  BY <1>2, <1>3, <1>4, <1>5

-----------------------------------------------------------------------------

LEMMA CancelStep ==
    ASSUME IndInv, Cancel
    PROVE  IndInv'
<1>. USE DEF IndInv
<1>1. cancelled' = TRUE /\ UNCHANGED <<feedVars, workVars, consVars, results>>
  BY DEF Cancel
<1>2. /\ Holding' = Holding /\ Arrived' = Arrived /\ PendingOnce'
      /\ \A i : OnItsWay(i)' <=> OnItsWay(i)
  BY <1>1, SamePlaces DEF workVars, consVars
<1>3. TypeOK'
  BY <1>1 DEF TypeOK, feedVars, workVars, consVars
<1>4. SegmentInOnePlace' /\ AllInFlight' /\ NoneForgotten'
  BY <1>1, <1>2 DEF SegmentInOnePlace, AllInFlight, InFlight, NoneForgotten, workVars, consVars
<1>5. /\ CursorBehind' /\ LostByCancel' /\ FedAll' /\ ExitAtEnd' /\ ClosedAtEnd'
      /\ CursorWaits' /\ CursorCounts' /\ NothingLeftToFlush'
  BY <1>1, <1>2 DEF CursorBehind, LostByCancel, FedAll, ExitAtEnd, ClosedAtEnd, CursorWaits,
     CursorCounts, NothingLeftToFlush, feedVars, workVars, consVars
<1>. QED
  BY <1>2, <1>3, <1>4, <1>5

LEMMA StutterStep ==
    ASSUME IndInv, UNCHANGED vars
    PROVE  IndInv'
<1>. USE DEF IndInv
<1>1. UNCHANGED <<feedVars, workVars, consVars, results, cancelled>>
  BY DEF vars
<1>2. /\ Holding' = Holding /\ Arrived' = Arrived /\ PendingOnce'
      /\ \A i : OnItsWay(i)' <=> OnItsWay(i)
  BY <1>1, SamePlaces DEF workVars, consVars
<1>3. TypeOK' /\ SegmentInOnePlace' /\ AllInFlight' /\ NoneForgotten'
  BY <1>1, <1>2 DEF TypeOK, SegmentInOnePlace, AllInFlight, InFlight, NoneForgotten, feedVars,
     workVars, consVars
<1>4. /\ CursorBehind' /\ LostByCancel' /\ FedAll' /\ ExitAtEnd' /\ ClosedAtEnd'
      /\ CursorWaits' /\ CursorCounts' /\ NothingLeftToFlush'
  BY <1>1, <1>2 DEF CursorBehind, LostByCancel, FedAll, ExitAtEnd, ClosedAtEnd, CursorWaits,
     CursorCounts, NothingLeftToFlush, feedVars, workVars, consVars
<1>. QED
  BY <1>2, <1>3, <1>4

LEMMA StepIndInv == IndInv /\ [Next]_vars => IndInv'
BY FeederSteps, TakeStep, ExitStep, FetchReturnsStep, SendResultStep, ReceiveResultStep,
   ResultsEndStep, ProcessSegmentStep, DrainEndsStep, FlushMissingStep, ReturnStep, CancelStep,
   StutterStep DEF Next, Work, ConsumerStep

LEMMA Invariant == Spec => []IndInv
BY InitIndInv, StepIndInv, PTL DEF Spec

-----------------------------------------------------------------------------

\* Every reachable state of the pipeline is type correct: the channels keep to
\* their capacity, and the cursor and the counters to the length of the file.
THEOREM PipelineTypeCorrect == Spec => []TypeOK
<1>1. IndInv => TypeOK
  BY DEF IndInv
<1>. QED
  BY Invariant, <1>1, PTL

\* No segment is fetched twice or written twice, for any number of segments,
\* workers and any order of the fetches (engine.go 325-433).
THEOREM OnePlace == Spec => []SegmentInOnePlace
<1>1. IndInv => SegmentInOnePlace
  BY DEF IndInv
<1>. QED
  BY Invariant, <1>1, PTL

\* The flush loop of a download that is not cancelled finds nothing to do
\* (engine.go 416-433).
THEOREM FlushIsIdle == Spec => []NothingLeftToFlush
<1>1. IndInv => NothingLeftToFlush
  BY DEF IndInv
<1>. QED
  BY Invariant, <1>1, PTL

\* When downloadFile returns nil every segment has been counted once.
THEOREM AllCounted == Spec => []ReturnCountsEverySegment
<1>1. IndInv => ReturnCountsEverySegment
  BY DEF IndInv, CursorCounts, ReturnCountsEverySegment
<1>. QED
  BY Invariant, <1>1, PTL

\* resultCh is closed behind the last send, and nobody is left when
\* downloadFile returns nil.
THEOREM CloseIsSafe == Spec => []NoSendAfterClose
<1>1. IndInv => NoSendAfterClose
  BY DEF IndInv, ClosedAtEnd, NoSendAfterClose
<1>. QED
  BY Invariant, <1>1, PTL

=============================================================================
