------------------------- MODULE StreamPipelineProofs -------------------------
(***************************************************************************)
(* Part one: the invariants of the pending buffer, for any number of       *)
(* producers, any watermarks, any segments and any number of appends.      *)
(* Every operation of the buffer keeps BufferInv, whatever its clients do  *)
(* between the operations; BufferClients adds what any clients have.       *)
(*                                                                         *)
(* Part two: the session as a whole, for every stream, watermark and       *)
(* interleaving.  What Append took is somewhere between the buffer, the    *)
(* batch in flight and the client, in its order; the end of the session    *)
(* and the tokens it reports follow from that; and every step is one of    *)
(* CoalescingStream.  It rests on part one's lemmas on the buffer's        *)
(* operations; the variables of BufferClients are no part of it.           *)
(*                                                                         *)
(* In a session a fragment is its position in the stream, so a segment     *)
(* holds a run of positions and the segments between two points of the     *)
(* stream cover the positions between them: no clause of its invariant     *)
(* needs a sum or a flattened sequence.                                    *)
(***************************************************************************)
EXTENDS StreamPipeline, BufferClients, SequenceTheorems, FiniteSetTheorems,
        TLAPS

\* The watermarks NewPendingBuffer settles on (buffer.go:49-55): the low one
\* is at least one byte and below the high one, whatever was configured.
LEMMA Watermarks ==
  /\ highWatermark \in Nat /\ lowWatermark \in Nat
  /\ 1 <= lowWatermark /\ lowWatermark < highWatermark
BY BufferAssumption DEF highWatermark, lowWatermark

\* BytesLen is a natural number (segments.go:18, 49, 89, ...).
LEMMA BytesLenType == ASSUME NEW s \in SegmentType PROVE BytesLen(s) \in Nat
BY SegmentAssumption DEF SegmentType, BytesLen

\* Merging keeps the key and the overhead, and adds the payload.
LEMMA MergeType ==
  ASSUME NEW s \in SegmentType, NEW n \in SegmentType
  PROVE  /\ Merge(s, n) \in SegmentType
         /\ Merge(s, n).key = s.key
         /\ BytesLen(Merge(s, n)) = BytesLen(s) + n.size
<1>1. MergeCalls(s.calls, n.calls) \in SUBSET Call
  BY DEF MergeCalls, SegmentType
<1>2. s.text \o n.text \in Seq(Fragments)
  BY ConcatProperties DEF SegmentType
<1>3. s.size + n.size \in Nat
  BY DEF SegmentType
<1>4. QED
  BY <1>1, <1>2, <1>3, SegmentAssumption DEF Merge, SegmentType, BytesLen

\* What could not merge with a segment cannot merge with what that segment
\* grows into: a conflicting tool-call id stays (segments.go:105-111).
LEMMA ConflictStays ==
  ASSUME NEW s \in SegmentType, NEW t \in SegmentType, NEW n \in SegmentType,
         ~CanMerge(s, t)
  PROVE  ~CanMerge(s, Merge(t, n))
<1>1. CASE s.key = t.key /\ s.key \in Coalesceable
  <2>1. PICK c \in s.calls, d \in t.calls : Conflict(c, d)
    BY <1>1 DEF CanMerge
  <2>2. d \in MergeCalls(t.calls, n.calls)
    BY <2>1 DEF MergeCalls, Conflict
  <2>3. QED
    BY <2>1, <2>2 DEF CanMerge, Merge
<1>2. CASE ~(s.key = t.key /\ s.key \in Coalesceable)
  BY <1>2 DEF CanMerge, Merge
<1>3. QED
  BY <1>1, <1>2

-----------------------------------------------------------------------------
\* Signal leaves at most what was waiting; with one consumer, nobody.
LEMMA SignalWakes ==
  ASSUME NEW W, W \subseteq {Consumer}, NEW V \in Signal(W)
  PROVE  V = {}
BY DEF Signal

\* Append merged the segment into the last one (buffer.go:94-108).
LEMMA MergeKeeps ==
  ASSUME BufferInv, NEW seg \in Admissible, MergeIntoLast(seg), ~closed,
         currentBytes < highWatermark
  PROVE  /\ segments' \in Seq(SegmentType) /\ segments' # <<>>
         /\ currentBytes' \in Nat /\ currentBytes' >= currentBytes
         /\ currentBytes' < highWatermark + MaxSegmentBytes
         /\ hasBarrier' \in BOOLEAN /\ barrierWake' \in {"open", "closed"}
         /\ BarrierChannel'
         /\ (closed' = closed) => BarrierExact'
         /\ MaximalRuns'
<1> DEFINE n == Len(segments)
           last == segments[n]
           merged == Merge(last, seg)
<1>1. /\ segments \in Seq(SegmentType) /\ segments # <<>>
      /\ n \in Nat /\ n >= 1 /\ last \in SegmentType
      /\ seg \in SegmentType /\ BytesLen(seg) <= MaxSegmentBytes
  BY EmptySeq, ElementOfSeq
     DEF BufferInv, BufferTypeOK, MergeIntoLast, MergesIntoLast, Admissible
<1>2. /\ merged \in SegmentType /\ merged.key = last.key
      /\ BytesLen(merged) = BytesLen(last) + seg.size
  BY <1>1, MergeType
<1>3. /\ segments' = [segments EXCEPT ![n] = merged]
      /\ segments' \in Seq(SegmentType) /\ Len(segments') = n
      /\ \A j \in 1 .. n : segments'[j] = IF j = n THEN merged ELSE segments[j]
  BY <1>1, <1>2, ExceptSeq DEF MergeIntoLast
<1>4. segments' # <<>>
  BY <1>1, <1>3, EmptySeq
<1>5. /\ currentBytes' \in Nat /\ currentBytes' = currentBytes + seg.size
  <2>1. currentBytes' = currentBytes + (BytesLen(merged) - BytesLen(last))
    BY DEF MergeIntoLast
  <2>2. BytesLen(last) \in Nat /\ seg.size \in Nat /\ currentBytes \in Nat
    BY <1>1, BytesLenType DEF SegmentType, BufferInv, BufferTypeOK
  <2>3. QED
    BY <2>1, <2>2, <1>2
<1>6. seg.size \in Nat /\ seg.size <= BytesLen(seg)
  BY <1>1, SegmentAssumption DEF SegmentType, BytesLen
<1>7. currentBytes' < highWatermark + MaxSegmentBytes
  BY <1>1, <1>5, <1>6, Watermarks, BytesLenType, BufferAssumption
     DEF BufferInv, BufferTypeOK
<1>8. UNCHANGED <<hasBarrier, barrierWake>>
  BY DEF MergeIntoLast, barrier
<1>9. ASSUME closed' = closed PROVE BarrierExact'
  <2>1. \A i \in 1 .. n : segments'[i].key = segments[i].key
    BY <1>2, <1>3
  <2>2. DOMAIN segments = 1 .. n /\ DOMAIN segments' = 1 .. n
    BY <1>1, <1>3, LenProperties
  <2>3. QED
    BY <1>3, <1>8, <1>9, <2>1, <2>2 DEF BufferInv, BarrierExact
<1>10. MaximalRuns'
  <2>1. SUFFICES ASSUME NEW i \in 1 .. n - 1
                 PROVE  ~CanMerge(segments'[i], segments'[i + 1])
    BY <1>3 DEF MaximalRuns
  <2>2. /\ i \in 1 .. n /\ i # n /\ i + 1 \in 1 .. n
        /\ i \in 1 .. Len(segments) - 1
    BY <1>1
  <2>3. segments'[i] = segments[i]
    BY <1>3, <2>2
  <2>4. segments[i] \in SegmentType
    BY <1>1, <2>2, ElementOfSeq
  <2>5. ~CanMerge(segments[i], segments[i + 1])
    BY <2>2 DEF BufferInv, MaximalRuns
  <2>6. CASE i + 1 = n
    <3>1. segments'[i + 1] = merged /\ segments[i + 1] = last
      BY <1>3, <2>2, <2>6
    <3>2. QED
      BY <1>1, <2>3, <2>4, <2>5, <3>1, ConflictStays
  <2>7. CASE i + 1 # n
    BY <1>3, <2>2, <2>3, <2>5, <2>7
  <2>8. QED
    BY <2>6, <2>7
<1>11. QED
  BY <1>3, <1>4, <1>5, <1>6, <1>7, <1>8, <1>9, <1>10
     DEF BufferInv, BufferTypeOK, BarrierChannel

\* Append pushed the segment as the new last one (buffer.go:110-121).
LEMMA PushKeeps ==
  ASSUME BufferInv, NEW seg \in Admissible, PushSegment(seg), ~closed,
         currentBytes < highWatermark
  PROVE  /\ segments' \in Seq(SegmentType) /\ segments' # <<>>
         /\ currentBytes' \in Nat /\ currentBytes' >= currentBytes
         /\ currentBytes' < highWatermark + MaxSegmentBytes
         /\ hasBarrier' \in BOOLEAN /\ barrierWake' \in {"open", "closed"}
         /\ BarrierChannel'
         /\ (closed' = closed) => BarrierExact'
         /\ MaximalRuns'
<1> DEFINE n == Len(segments)
<1>1. /\ segments \in Seq(SegmentType) /\ n \in Nat
      /\ seg \in SegmentType /\ BytesLen(seg) <= MaxSegmentBytes
      /\ BytesLen(seg) \in Nat
  BY LenProperties, BytesLenType DEF BufferInv, BufferTypeOK, Admissible
<1>2. /\ segments' \in Seq(SegmentType) /\ Len(segments') = n + 1
      /\ \A j \in 1 .. n : segments'[j] = segments[j]
      /\ segments'[n + 1] = seg
      /\ segments' # <<>>
  BY <1>1, AppendProperties DEF PushSegment
<1>3. currentBytes' \in Nat /\ currentBytes' = currentBytes + BytesLen(seg)
  BY <1>1 DEF PushSegment, BufferInv, BufferTypeOK
<1>4. currentBytes' < highWatermark + MaxSegmentBytes
  BY <1>1, <1>3, Watermarks, BufferAssumption DEF BufferInv, BufferTypeOK
<1>5. /\ hasBarrier' \in BOOLEAN /\ barrierWake' \in {"open", "closed"}
      /\ BarrierChannel'
  BY DEF PushSegment, notifyBarrierLocked, barrier, BufferInv, BufferTypeOK,
         BarrierChannel
<1>6. ASSUME closed' = closed PROVE BarrierExact'
  <2>1. DOMAIN segments' = 1 .. n + 1
    BY <1>1, <1>2, LenProperties
  <2>2. CASE segments = <<>>
    <3>1. n = 0 /\ ~hasBarrier
      BY <2>2 DEF BufferInv, BarrierExact
    <3>2. hasBarrier' <=> seg.key \notin Coalesceable
      BY <2>2, <3>1 DEF PushSegment, notifyBarrierLocked, barrier,
                        isCoalesceableSegment
    <3>3. QED
      BY <1>2, <2>1, <3>1, <3>2 DEF BarrierExact
  <2>3. CASE segments # <<>>
    <3>1. n >= 1
      BY <1>1, <2>3, EmptySeq
    <3>2. hasBarrier'
      BY <2>3 DEF PushSegment, notifyBarrierLocked
    <3>3. QED
      BY <1>1, <1>2, <3>1, <3>2 DEF BarrierExact
  <2>4. QED
    BY <2>2, <2>3
<1>7. MaximalRuns'
  <2>1. SUFFICES ASSUME NEW i \in 1 .. n
                 PROVE  ~CanMerge(segments'[i], segments'[i + 1])
    BY <1>1, <1>2 DEF MaximalRuns
  <2>2. CASE i = n
    <3>1. segments # <<>>
      BY <1>1, <2>2, EmptySeq
    <3>2. QED
      BY <1>2, <2>2, <3>1 DEF PushSegment, MergesIntoLast
  <2>3. CASE i # n
    BY <1>1, <1>2, <2>3 DEF BufferInv, MaximalRuns
  <2>4. QED
    BY <2>2, <2>3
<1>8. QED
  BY <1>1, <1>2, <1>3, <1>4, <1>5, <1>6, <1>7 DEF BufferInv, BufferTypeOK

-----------------------------------------------------------------------------
\* Append inserts the segment and returns nil.
LEMMA InsertKeeps ==
  ASSUME BufferInv, NEW p \in Producers, NEW seg \in Admissible,
         AppendInsert(p, seg), ~closed, currentBytes < highWatermark
  PROVE  BufferInv'
<1> USE DEF AppendInsert
<1>1. /\ segments' \in Seq(SegmentType) /\ segments' # <<>>
      /\ currentBytes' \in Nat /\ currentBytes' >= currentBytes
      /\ currentBytes' < highWatermark + MaxSegmentBytes
      /\ hasBarrier' \in BOOLEAN /\ barrierWake' \in {"open", "closed"}
      /\ BarrierChannel'
      /\ (closed' = closed) => BarrierExact'
      /\ MaximalRuns'
  BY MergeKeeps, PushKeeps
<1>2. notEmpty' = {}
  BY SignalWakes DEF BufferInv, BufferTypeOK
<1>3. /\ op' = [op EXCEPT ![p] = "idle"] /\ arg' = [arg EXCEPT ![p] = NoSegment]
      /\ ret' = [ret EXCEPT ![p] = "ok"]
      /\ closed' = closed /\ upstreamErr' = upstreamErr
      /\ UNCHANGED <<firstEmission, belowHighWater, ctxDone, got>>
  BY DEF Return, closing
<1>4. BufferTypeOK'
  BY <1>1, <1>2, <1>3 DEF BufferInv, BufferTypeOK, Goroutines
<1>5. NoLostWakeup'
  BY <1>1, <1>2, <1>3, Watermarks DEF BufferInv, BufferTypeOK, NoLostWakeup
<1>6. CoalescingHasData'
  BY <1>1 DEF CoalescingHasData
<1>7. \A q \in Producers : op'[q] = "paused" => arg'[q] \in Admissible
  BY <1>3 DEF BufferInv, BufferTypeOK, Goroutines
<1>8. QED
  BY <1>1, <1>3, <1>4, <1>5, <1>6, <1>7 DEF BufferInv, ByteBound

\* Append returns an error and leaves the buffer alone.
LEMMA FailKeeps ==
  ASSUME BufferInv, NEW p \in Producers, NEW answer \in {"closed", "canceled"},
         AppendFail(p, answer)
  PROVE  BufferInv'
<1>1. /\ op' = [op EXCEPT ![p] = "idle"] /\ arg' = [arg EXCEPT ![p] = NoSegment]
      /\ ret' = [ret EXCEPT ![p] = answer]
      /\ UNCHANGED <<segments, currentBytes, hasBarrier, barrierWake,
                     firstEmission, closed, upstreamErr, notEmpty,
                     belowHighWater, ctxDone, got>>
  BY DEF AppendFail, Return, content, barrier, closing
<1>2. BufferTypeOK'
  BY <1>1 DEF BufferInv, BufferTypeOK, Goroutines
<1>3. CoalescingHasData'
  BY <1>1, BufferAssumption
     DEF BufferInv, BufferTypeOK, CoalescingHasData, Goroutines
<1>4. \A q \in Producers : op'[q] = "paused" => arg'[q] \in Admissible
  BY <1>1 DEF BufferInv, BufferTypeOK, Goroutines
<1>5. QED
  BY <1>1, <1>2, <1>3, <1>4
     DEF BufferInv, ByteBound, BarrierExact, BarrierChannel, NoLostWakeup,
         MaximalRuns

\* Append parks its goroutine.
LEMMA PauseKeeps ==
  ASSUME BufferInv, NEW p \in Producers, NEW seg \in Admissible,
         AppendPause(p, seg), currentBytes >= lowWatermark, ~closed
  PROVE  BufferInv'
<1>1. /\ op' = [op EXCEPT ![p] = "paused"] /\ arg' = [arg EXCEPT ![p] = seg]
      /\ belowHighWater' = belowHighWater \cup {p}
      /\ UNCHANGED <<segments, currentBytes, hasBarrier, barrierWake,
                     firstEmission, closed, upstreamErr, notEmpty,
                     ctxDone, ret, got>>
  BY DEF AppendPause, content, barrier, closing
<1>2. BufferTypeOK'
  BY <1>1 DEF BufferInv, BufferTypeOK, Goroutines, Admissible
<1>3. CoalescingHasData'
  BY <1>1, BufferAssumption
     DEF BufferInv, BufferTypeOK, CoalescingHasData, Goroutines
<1>4. \A q \in Producers : op'[q] = "paused" => arg'[q] \in Admissible
  BY <1>1 DEF BufferInv, BufferTypeOK, Goroutines
<1>5. NoLostWakeup'
  BY <1>1 DEF BufferInv, NoLostWakeup
<1>6. QED
  BY <1>1, <1>2, <1>3, <1>4, <1>5
     DEF BufferInv, ByteBound, BarrierExact, BarrierChannel, MaximalRuns

\* Append (buffer.go:69-127), when it is called.
LEMMA AppendCallKeeps ==
  ASSUME BufferInv, NEW p \in Producers, NEW seg \in Admissible,
         AppendCall(p, seg)
  PROVE  BufferInv'
<1>1. CASE AppendPauseLoop(p, seg)
  <2>1. lowWatermark < highWatermark /\ currentBytes \in Nat
        /\ lowWatermark \in Nat /\ highWatermark \in Nat
    BY Watermarks DEF BufferInv, BufferTypeOK
  <2>2. currentBytes < lowWatermark => currentBytes < highWatermark
    BY <2>1
  <2>3. QED
    BY <1>1, <2>2, InsertKeeps, FailKeeps, PauseKeeps DEF AppendPauseLoop
<1>2. CASE closed /\ AppendFail(p, "closed")
  BY <1>2, FailKeeps
<1>3. CASE ~closed /\ currentBytes < highWatermark /\ AppendInsert(p, seg)
  BY <1>3, InsertKeeps
<1>4. QED
  BY <1>1, <1>2, <1>3 DEF AppendCall

\* Append, when belowHighWater.Wait returns (buffer.go:79-91).
LEMMA AppendResumeKeeps ==
  ASSUME BufferInv, NEW p \in Producers, AppendResume(p)
  PROVE  BufferInv'
<1>1. arg[p] \in Admissible /\ AppendPauseLoop(p, arg[p])
  BY DEF AppendResume, BufferInv
<1>2. lowWatermark < highWatermark /\ currentBytes \in Nat
      /\ lowWatermark \in Nat /\ highWatermark \in Nat
  BY Watermarks DEF BufferInv, BufferTypeOK
<1>3. currentBytes < lowWatermark => currentBytes < highWatermark
  BY <1>2
<1>4. QED
  BY <1>1, <1>3, InsertKeeps, FailKeeps, PauseKeeps DEF AppendPauseLoop

-----------------------------------------------------------------------------
\* Swap takes everything that is pending (buffer.go:178-189).
LEMMA TakeKeeps ==
  ASSUME BufferInv, SwapTake(Consumer)
  PROVE  BufferInv'
<1>1. /\ op' = [op EXCEPT ![Consumer] = "idle"]
      /\ got' = [segs |-> segments, closed |-> closed, err |-> upstreamErr]
      /\ segments' = <<>> /\ currentBytes' = 0 /\ firstEmission' = FALSE
      /\ hasBarrier' = FALSE
      /\ barrierWake' = IF hasBarrier THEN "open" ELSE barrierWake
      /\ belowHighWater' = {}
      /\ UNCHANGED <<closed, upstreamErr, notEmpty, ctxDone, arg, ret>>
  BY DEF SwapTake, resetBarrierLocked, closing
<1>2. segments' \in Seq(SegmentType) /\ Len(segments') = 0
      /\ DOMAIN segments' = {}
  BY <1>1, EmptySeq
<1>3. got' \in SwapResult
  BY <1>1 DEF BufferInv, BufferTypeOK, SwapResult
<1>4. BufferTypeOK'
  BY <1>1, <1>2, <1>3 DEF BufferInv, BufferTypeOK, Goroutines
<1>5. BarrierChannel' /\ BarrierExact'
  BY <1>1, <1>2 DEF BufferInv, BufferTypeOK, BarrierChannel, BarrierExact
<1>6. NoLostWakeup'
  BY <1>1 DEF BufferInv, NoLostWakeup
<1>7. MaximalRuns' /\ ByteBound'
  BY <1>1, <1>2, Watermarks, BufferAssumption DEF MaximalRuns, ByteBound
<1>8. CoalescingHasData'
  BY <1>1 DEF BufferInv, BufferTypeOK, CoalescingHasData, Goroutines
<1>9. \A q \in Producers : op'[q] = "paused" => arg'[q] \in Admissible
  BY <1>1, BufferAssumption DEF BufferInv, BufferTypeOK, Goroutines
<1>10. QED
  BY <1>4, <1>5, <1>6, <1>7, <1>8, <1>9 DEF BufferInv

\* Swap returns without a segment (buffer.go:137-143, 174-176).
LEMMA ReturnEmptyKeeps ==
  ASSUME BufferInv, NEW err \in Errors \cup {NoErr, "canceled"},
         SwapReturnEmpty(Consumer, err)
  PROVE  BufferInv'
<1>1. /\ op' = [op EXCEPT ![Consumer] = "idle"]
      /\ got' = [segs |-> <<>>, closed |-> closed, err |-> err]
      /\ UNCHANGED <<segments, currentBytes, hasBarrier, barrierWake,
                     firstEmission, closed, upstreamErr, notEmpty,
                     belowHighWater, ctxDone, arg, ret>>
  BY DEF SwapReturnEmpty, content, barrier, closing
<1>2. got' \in SwapResult
  BY <1>1, EmptySeq DEF BufferInv, BufferTypeOK, SwapResult
<1>3. BufferTypeOK'
  BY <1>1, <1>2 DEF BufferInv, BufferTypeOK, Goroutines
<1>4. CoalescingHasData'
  BY <1>1 DEF BufferInv, BufferTypeOK, CoalescingHasData, Goroutines
<1>5. \A q \in Producers : op'[q] = "paused" => arg'[q] \in Admissible
  BY <1>1, BufferAssumption DEF BufferInv, BufferTypeOK, Goroutines
<1>6. QED
  BY <1>1, <1>3, <1>4, <1>5
     DEF BufferInv, ByteBound, BarrierExact, BarrierChannel, NoLostWakeup,
         MaximalRuns

\* Swap parks its goroutine, or leaves it in the select.
LEMMA ParkKeeps ==
  ASSUME BufferInv,
         SwapPark(Consumer) \/ (segments # <<>> /\ SwapCoalesce(Consumer))
  PROVE  BufferInv'
<1>1. /\ UNCHANGED <<segments, currentBytes, hasBarrier, barrierWake,
                     firstEmission, closed, upstreamErr, belowHighWater,
                     ctxDone, arg, ret, got>>
      /\ \/ /\ op' = [op EXCEPT ![Consumer] = "waiting"]
            /\ segments = <<>> /\ ~closed
            /\ notEmpty' = notEmpty \cup {Consumer}
         \/ /\ op' = [op EXCEPT ![Consumer] = "coalescing"]
            /\ segments # <<>> /\ notEmpty' = notEmpty
  BY DEF SwapPark, SwapCoalesce, content, barrier, closing
<1>2. BufferTypeOK'
  BY <1>1 DEF BufferInv, BufferTypeOK, Goroutines
<1>3. CoalescingHasData'
  BY <1>1 DEF BufferInv, BufferTypeOK, CoalescingHasData, Goroutines
<1>4. \A q \in Producers : op'[q] = "paused" => arg'[q] \in Admissible
  BY <1>1, BufferAssumption DEF BufferInv, BufferTypeOK, Goroutines
<1>5. NoLostWakeup'
  BY <1>1 DEF BufferInv, NoLostWakeup
<1>6. QED
  BY <1>1, <1>2, <1>3, <1>4, <1>5
     DEF BufferInv, ByteBound, BarrierExact, BarrierChannel, MaximalRuns

\* Swap (buffer.go:129-190), when it is called and when notEmpty.Wait returns.
LEMMA SwapKeeps ==
  ASSUME BufferInv, SwapCall(Consumer) \/ SwapResume(Consumer)
  PROVE  BufferInv'
<1>1. upstreamErr \in Errors \cup {NoErr, "canceled"}
  BY DEF BufferInv, BufferTypeOK
<1>2. SwapBody(Consumer)
  BY DEF SwapCall, SwapResume
<1>3. QED
  BY <1>1, <1>2, TakeKeeps, ReturnEmptyKeeps, ParkKeeps DEF SwapBody

\* Swap, when its select returns (buffer.go:171-189).
LEMMA CoalesceKeeps ==
  ASSUME BufferInv,
         \/ CoalesceTimer(Consumer)
         \/ CoalesceBarrier(Consumer)
         \/ CoalesceCancel(Consumer)
  PROVE  BufferInv'
<1>1. SwapAfterWait(Consumer)
  BY DEF CoalesceTimer, CoalesceBarrier, CoalesceCancel
<1>2. QED
  BY <1>1, TakeKeeps, ReturnEmptyKeeps DEF SwapAfterWait

-----------------------------------------------------------------------------
\* Close (buffer.go:215-227) wakes everybody, once.
LEMMA CloseKeeps ==
  ASSUME BufferInv, NEW err \in Errors \cup {NoErr}, Close(err)
  PROVE  BufferInv'
<1>1. /\ UNCHANGED <<segments, currentBytes, firstEmission, ctxDone, op, arg,
                     ret, got>>
      /\ \/ UNCHANGED <<closed, upstreamErr, hasBarrier, barrierWake, notEmpty,
                        belowHighWater>>
         \/ /\ closed' = TRUE /\ upstreamErr' = err
            /\ hasBarrier' = TRUE /\ barrierWake' = "closed"
            /\ notEmpty' = {} /\ belowHighWater' = {}
  BY DEF Close, content, closing, barrier, notifyBarrierLocked
<1>2. BufferTypeOK'
  BY <1>1 DEF BufferInv, BufferTypeOK
<1>3. QED
  BY <1>1, <1>2
     DEF BufferInv, ByteBound, BarrierExact, BarrierChannel, NoLostWakeup,
         MaximalRuns, CoalescingHasData

\* A context is done: no state of the buffer changes.
LEMMA CancelKeeps ==
  ASSUME BufferInv, NEW gs \in SUBSET Goroutines, CancelContext(gs)
  PROVE  BufferInv'
<1>1. /\ ctxDone' = ctxDone \cup gs
      /\ UNCHANGED <<segments, currentBytes, hasBarrier, barrierWake,
                     firstEmission, closed, upstreamErr, notEmpty,
                     belowHighWater, op, arg, ret, got>>
  BY DEF CancelContext, content, closing, barrier
<1>2. BufferTypeOK'
  BY <1>1 DEF BufferInv, BufferTypeOK
<1>3. QED
  BY <1>1, <1>2
     DEF BufferInv, ByteBound, BarrierExact, BarrierChannel, NoLostWakeup,
         MaximalRuns, CoalescingHasData

\* A step that does not touch the buffer.
LEMMA StutterKeeps ==
  ASSUME BufferInv, UNCHANGED bufferVars
  PROVE  BufferInv'
BY DEF BufferInv, bufferVars, BufferTypeOK, ByteBound, BarrierExact,
       BarrierChannel, NoLostWakeup, MaximalRuns, CoalescingHasData

\* A new buffer.
LEMMA InitHolds ==
  ASSUME BufferInit
  PROVE  BufferInv
<1>1. segments \in Seq(SegmentType) /\ Len(segments) = 0 /\ DOMAIN segments = {}
  BY EmptySeq DEF BufferInit
<1>2. got \in SwapResult
  BY EmptySeq DEF BufferInit, SwapResult
<1>3. BufferTypeOK
  BY <1>1, <1>2 DEF BufferInit, BufferTypeOK, Goroutines
<1>4. ByteBound
  BY Watermarks, BufferAssumption DEF BufferInit, ByteBound
<1>5. QED
  BY <1>1, <1>3, <1>4
     DEF BufferInit, BufferInv, BarrierExact, BarrierChannel, NoLostWakeup,
         MaximalRuns, CoalescingHasData, Goroutines

------------------------------------------------------------------------------
\* The inductive invariant: what is checked of the buffer, and the types.
IInv == ClientsTypeOK /\ BufferInv

\* A shape and a position make a segment that Append may be given.
LEMMA SegmentOfAdmissible ==
  ASSUME ClientsTypeOK, NEW p \in Producers, NEW shape \in Shapes[p],
         calls[p] < MaxAppends[p]
  PROVE  SegmentOf(p, shape) \in Admissible
<1>1. /\ shape.key \in Keys /\ shape.calls \in SUBSET Call /\ shape.size \in Nat
      /\ shape.size + Overhead[shape.key] <= MaxSegmentBytes
  BY ClientsAssumption
<1>2. << p, calls[p] + 1 >> \in Fragments
  BY ClientsAssumption DEF ClientsTypeOK
<1>3. << << p, calls[p] + 1 >> >> \in Seq(Fragments)
  BY <1>2
<1>4. QED
  BY <1>1, <1>3 DEF SegmentOf, Admissible, SegmentType, BytesLen

\* ClientsInit establishes the invariant.
LEMMA IInvInit == ClientsInit => IInv
<1>1. SUFFICES ASSUME ClientsInit PROVE IInv
  OBVIOUS
<1>2. BufferInv
  BY <1>1, InitHolds DEF ClientsInit
<1>3. history \in Seq(SegmentType) /\ delivered \in Seq(SegmentType)
  BY <1>1, EmptySeq DEF ClientsInit
<1>4. calls \in [Producers -> Nat] /\ \A p \in Producers : calls[p] <= MaxAppends[p]
  BY <1>1, ClientsAssumption DEF ClientsInit
<1>5. QED
  BY <1>1, <1>2, <1>3, <1>4 DEF ClientsInit, IInv, ClientsTypeOK, BufferInv

\* Every step keeps it.
LEMMA IInvStep == IInv /\ [ClientsNext]_allVars => IInv'
<1>1. SUFFICES ASSUME IInv, [ClientsNext]_allVars PROVE IInv'
  OBVIOUS
<1>2. /\ BufferInv /\ BufferTypeOK
      /\ calls \in [Producers -> Nat]
      /\ \A p \in Producers : calls[p] <= MaxAppends[p]
      /\ history \in Seq(SegmentType) /\ delivered \in Seq(SegmentType)
      /\ finished \in BOOLEAN
  BY <1>1 DEF IInv, ClientsTypeOK
<1>3. ASSUME BufferInv', UNCHANGED clientVars PROVE IInv'
  BY <1>2, <1>3 DEF IInv, ClientsTypeOK, clientVars, BufferInv
<1>4. ASSUME BufferInv', Receive PROVE IInv'
  <2>1. got'.segs \in Seq(SegmentType)
    BY <1>4 DEF BufferInv, BufferTypeOK, SwapResult
  <2>2. delivered \o got'.segs \in Seq(SegmentType)
    BY <1>2, <2>1, ConcatProperties
  <2>3. QED
    BY <1>2, <1>4, <2>2 DEF IInv, ClientsTypeOK, Receive, BufferInv
<1>5. ASSUME NEW p \in Producers, CallAppend(p) PROVE IInv'
  <2>1. PICK shape \in Shapes[p] :
          /\ calls[p] < MaxAppends[p]
          /\ AppendCall(p, SegmentOf(p, shape))
          /\ calls' = [calls EXCEPT ![p] = @ + 1]
          /\ Record(p, SegmentOf(p, shape))
          /\ UNCHANGED <<delivered, finished>>
    BY <1>5 DEF CallAppend
  <2>2. SegmentOf(p, shape) \in Admissible
    BY <1>1, <2>1, SegmentOfAdmissible DEF IInv
  <2>3. BufferInv'
    BY <1>2, <2>1, <2>2, AppendCallKeeps
  <2>4. history' \in Seq(SegmentType)
    BY <1>2, <2>1, <2>2, AppendProperties DEF Record, Admissible
  <2>5. /\ calls' \in [Producers -> Nat]
        /\ \A q \in Producers : calls'[q] <= MaxAppends[q]
    <3>1. MaxAppends[p] \in Nat /\ calls[p] \in Nat
      BY <1>2, ClientsAssumption
    <3>2. calls[p] + 1 \in Nat /\ calls[p] + 1 <= MaxAppends[p]
      BY <2>1, <3>1
    <3>3. QED
      BY <1>2, <2>1, <3>2
  <2>6. QED
    BY <1>2, <2>1, <2>3, <2>4, <2>5 DEF IInv, ClientsTypeOK, BufferInv
<1>6. ASSUME NEW p \in Producers, ResumeAppend(p) PROVE IInv'
  <2>1. arg[p] \in Admissible
    BY <1>2, <1>6 DEF ResumeAppend, AppendResume, BufferInv
  <2>2. BufferInv'
    BY <1>2, <1>6, AppendResumeKeeps DEF ResumeAppend
  <2>3. history' \in Seq(SegmentType)
    BY <1>2, <1>6, <2>1, AppendProperties DEF ResumeAppend, Record, Admissible
  <2>4. QED
    BY <1>2, <1>6, <2>2, <2>3 DEF ResumeAppend, IInv, ClientsTypeOK, BufferInv
<1>7. ASSUME CallSwap \/ ResumeSwap PROVE IInv'
  BY <1>2, <1>4, <1>7, SwapKeeps DEF CallSwap, ResumeSwap
<1>8. ASSUME TimerFires \/ BarrierFires \/ CancelFires PROVE IInv'
  BY <1>2, <1>4, <1>8, CoalesceKeeps DEF TimerFires, BarrierFires, CancelFires
<1>9. ASSUME CloseBuffer PROVE IInv'
  BY <1>2, <1>3, <1>9, CloseKeeps DEF CloseBuffer
<1>10. ASSUME NEW g \in Goroutines, Cancel(g) PROVE IInv'
  <2>1. {g} \in SUBSET Goroutines
    OBVIOUS
  <2>2. QED
    BY <1>2, <1>3, <1>10, <2>1, CancelKeeps DEF Cancel
<1>11. ASSUME UNCHANGED allVars PROVE IInv'
  BY <1>2, <1>3, <1>11, StutterKeeps DEF allVars
<1>12. QED
  BY <1>1, <1>5, <1>6, <1>7, <1>8, <1>9, <1>10, <1>11 DEF ClientsNext, ClientsTerminated

\* The invariant holds in every reachable state.
THEOREM Invariance == ClientsSpec => []IInv
BY IInvInit, IInvStep, PTL DEF ClientsSpec

\* Every variable keeps its type.
THEOREM TypeCorrect == ClientsSpec => []ClientsTypeOK
<1>1. IInv => ClientsTypeOK
  BY DEF IInv
<1>2. QED
  BY <1>1, Invariance, PTL

\* Backpressure bounds what is pending, however many producers there are.
THEOREM BytesBounded == ClientsSpec => []ByteBound
<1>1. IInv => ByteBound
  BY DEF IInv, BufferInv
<1>2. QED
  BY <1>1, Invariance, PTL

\* No goroutine stays parked on what has already happened.
THEOREM WakeupsNotLost == ClientsSpec => []NoLostWakeup
<1>1. IInv => NoLostWakeup
  BY DEF IInv, BufferInv
<1>2. QED
  BY <1>1, Invariance, PTL

\* The barrier flag says what is pending, and agrees with its channel.
THEOREM BarrierSound == ClientsSpec => [](BarrierExact /\ BarrierChannel)
<1>1. IInv => BarrierExact /\ BarrierChannel
  BY DEF IInv, BufferInv
<1>2. QED
  BY <1>1, Invariance, PTL

\* Pending neighbours never could have been merged.
THEOREM RunsMaximal == ClientsSpec => []MaximalRuns
<1>1. IInv => MaximalRuns
  BY DEF IInv, BufferInv
<1>2. QED
  BY <1>1, Invariance, PTL

-----------------------------------------------------------------------------
\* On a closed buffer every Append fails, parked goroutines included, and
\* Swap does not park.
LEMMA ClosedStep ==
  ASSUME IInv, [ClientsNext]_allVars
  PROVE  ClosedStays
<1>1. SUFFICES ASSUME closed PROVE ClosedStays
  BY DEF ClosedStays
<1>2. /\ notEmpty = {} /\ belowHighWater = {}
      /\ op \in [Goroutines -> {"idle", "paused", "waiting", "coalescing"}]
      /\ ret \in [Producers -> {"none", "ok", "closed", "canceled"}]
  BY <1>1 DEF IInv, BufferInv, NoLostWakeup, BufferTypeOK
<1>3. ASSUME UNCHANGED <<closing, history, notEmpty, belowHighWater>>
      PROVE  ClosedStays
  BY <1>1, <1>2, <1>3 DEF ClosedStays, closing
<1>4. ASSUME NEW p \in Producers, NEW seg, NEW answer \in {"closed", "canceled"},
             AppendFail(p, answer), Record(p, seg)
      PROVE  ClosedStays
  <2>1. ret'[p] = answer
    BY <1>2, <1>4 DEF AppendFail, Return
  <2>2. history' = history
    BY <1>4, <2>1 DEF Record
  <2>3. QED
    BY <1>3, <1>4, <2>2 DEF AppendFail
<1>5. ASSUME NEW p \in Producers, CallAppend(p) PROVE ClosedStays
  <2>1. PICK shape \in Shapes[p] : /\ AppendCall(p, SegmentOf(p, shape))
                                /\ Record(p, SegmentOf(p, shape))
    BY <1>5 DEF CallAppend
  <2>2. AppendFail(p, "closed")
    BY <1>1, <2>1 DEF AppendCall
  <2>3. QED
    BY <1>4, <2>1, <2>2
<1>6. ASSUME NEW p \in Producers, ResumeAppend(p) PROVE ClosedStays
  <2>1. AppendFail(p, "closed") \/ AppendFail(p, "canceled")
    BY <1>1, <1>6 DEF ResumeAppend, AppendResume, AppendPauseLoop
  <2>2. QED
    BY <1>4, <1>6, <2>1 DEF ResumeAppend
<1>7. ASSUME SwapTake(Consumer), Receive PROVE ClosedStays
  BY <1>1, <1>2, <1>7 DEF ClosedStays, SwapTake, Receive, closing
<1>8. ASSUME NEW err, SwapReturnEmpty(Consumer, err), Receive PROVE ClosedStays
  BY <1>3, <1>8 DEF SwapReturnEmpty, Receive
<1>9. ASSUME CallSwap \/ ResumeSwap PROVE ClosedStays
  <2>1. SwapBody(Consumer) /\ Receive
    BY <1>9 DEF CallSwap, ResumeSwap, SwapCall, SwapResume
  <2>2. ~SwapPark(Consumer) /\ ~ShouldWait
    BY <1>1 DEF SwapPark, ShouldWait
  <2>3. QED
    BY <1>7, <1>8, <2>1, <2>2 DEF SwapBody
<1>10. ASSUME TimerFires \/ BarrierFires \/ CancelFires PROVE ClosedStays
  <2>1. SwapAfterWait(Consumer) /\ Receive
    BY <1>10 DEF TimerFires, BarrierFires, CancelFires, CoalesceTimer,
                 CoalesceBarrier, CoalesceCancel
  <2>2. QED
    BY <1>7, <1>8, <2>1 DEF SwapAfterWait
<1>11. ASSUME CloseBuffer PROVE ClosedStays
  BY <1>1, <1>3, <1>11 DEF CloseBuffer, Close, clientVars
<1>12. ASSUME NEW g \in Goroutines, Cancel(g) PROVE ClosedStays
  BY <1>3, <1>12 DEF Cancel, CancelContext, clientVars
<1>13. ASSUME UNCHANGED allVars PROVE ClosedStays
  BY <1>3, <1>13 DEF allVars, bufferVars, clientVars, closing
<1>14. QED
  BY <1>5, <1>6, <1>9, <1>10, <1>11, <1>12, <1>13 DEF ClientsNext, ClientsTerminated

\* Close is final: nothing is accepted after it and nobody is left parked.
THEOREM CloseFinal == ClientsSpec => ClosedIsFinal
<1>1. IInv /\ [ClientsNext]_allVars => [ClosedStays]_allVars
  BY ClosedStep
<1>2. QED
  BY <1>1, Invariance, PTL DEF ClientsSpec, ClosedIsFinal

-----------------------------------------------------------------------------
\* What was accepted is delivered or pending, once and in its order.

\* IsCut of any two sequences.
Cut(segs, hist, start) ==
  /\ start[1] = 0 /\ start[Len(segs) + 1] = Len(hist)
  /\ \A i \in 1 .. Len(segs) :
       /\ start[i + 1] = start[i] + Len(segs[i].text)
       /\ \A j \in 1 .. Len(segs[i].text) :
            /\ hist[start[i] + j].text = <<segs[i].text[j]>>
            /\ hist[start[i] + j].key = segs[i].key

Cuts(segs, hist) == [1 .. Len(segs) + 1 -> 0 .. Len(hist)]

\* The segments of Append carry one fragment.
SingleFragment(seg) == seg \in SegmentType /\ Len(seg.text) = 1

\* Its text is that fragment.
LEMMA SingleText ==
  ASSUME NEW seg, SingleFragment(seg)
  PROVE  seg.text = <<seg.text[1]>>
BY DEF SingleFragment, SegmentType

\* A segment at the end of both.
LEMMA CutPushed ==
  ASSUME NEW segs \in Seq(SegmentType), NEW hist \in Seq(SegmentType),
         NEW start \in Cuts(segs, hist), Cut(segs, hist, start),
         NEW seg, SingleFragment(seg)
  PROVE  \E new \in Cuts(Append(segs, seg), Append(hist, seg)) :
           Cut(Append(segs, seg), Append(hist, seg), new)
<1> DEFINE n == Len(segs)
           m == Len(hist)
           segs2 == Append(segs, seg)
           hist2 == Append(hist, seg)
           new == [i \in 1 .. n + 2 |-> IF i <= n + 1 THEN start[i] ELSE m + 1]
<1>1. n \in Nat /\ m \in Nat
  BY LenProperties
<1>2. seg \in SegmentType /\ Len(seg.text) = 1 /\ seg.text = <<seg.text[1]>>
  BY SingleText DEF SingleFragment
<1>3. /\ Len(segs2) = n + 1 /\ segs2[n + 1] = seg
      /\ \A i \in 1 .. n : segs2[i] = segs[i]
  BY <1>2, AppendProperties
<1>4. /\ Len(hist2) = m + 1 /\ hist2[m + 1] = seg
      /\ \A i \in 1 .. m : hist2[i] = hist[i]
  BY <1>2, AppendProperties
<1>5. /\ \A i \in 1 .. n + 1 : start[i] \in 0 .. m
      /\ start[1] = 0 /\ start[n + 1] = m
      /\ \A i \in 1 .. n :
           /\ start[i + 1] = start[i] + Len(segs[i].text)
           /\ \A j \in 1 .. Len(segs[i].text) :
                /\ hist[start[i] + j].text = <<segs[i].text[j]>>
                /\ hist[start[i] + j].key = segs[i].key
  BY DEF Cuts, Cut
<1>6. \A i \in 1 .. n : Len(segs[i].text) \in Nat
  <2>1. \A i \in 1 .. n : segs[i] \in SegmentType
    BY ElementOfSeq
  <2>2. \A i \in 1 .. n : segs[i].text \in Seq(Fragments)
    BY <2>1 DEF SegmentType
  <2> QED BY <2>2, LenProperties
<1> HIDE DEF n, m, segs2, hist2
<1>7. /\ \A i \in 1 .. n + 1 : new[i] = start[i]
      /\ new[n + 2] = m + 1
      /\ new \in [1 .. n + 2 -> 0 .. m + 1]
  BY <1>1, <1>5
<1> HIDE DEF new
<1>8. new[1] = 0
  BY <1>1, <1>5, <1>7
<1>9. ASSUME NEW i \in 1 .. n + 1
      PROVE  /\ new[i + 1] = new[i] + Len(segs2[i].text)
             /\ \A j \in 1 .. Len(segs2[i].text) :
                  /\ hist2[new[i] + j].text = <<segs2[i].text[j]>>
                  /\ hist2[new[i] + j].key = segs2[i].key
  <2>1. CASE i \in 1 .. n
    <3>1. segs2[i] = segs[i] /\ new[i] = start[i] /\ new[i + 1] = start[i + 1]
      BY <1>1, <1>3, <1>7, <2>1
    <3>2. ASSUME NEW j \in 1 .. Len(segs[i].text)
          PROVE  hist2[start[i] + j] = hist[start[i] + j]
      <4> DEFINE a == start[i]
                 len == Len(segs[i].text)
      <4>1. a \in 0 .. m /\ a + len \in 0 .. m /\ len \in Nat /\ j \in 1 .. len
        <5>1. i + 1 \in 1 .. n + 1 /\ i \in 1 .. n + 1
          BY <1>1, <2>1
        <5> QED BY <1>5, <1>6, <2>1, <5>1
      <4> HIDE DEF a, len
      <4>2. a + j \in 1 .. m
        BY <1>1, <4>1
      <4> QED BY <1>4, <4>2 DEF a
    <3>3. new[i + 1] = new[i] + Len(segs2[i].text)
      BY <1>5, <2>1, <3>1
    <3>4. ASSUME NEW j \in 1 .. Len(segs2[i].text)
          PROVE  /\ hist2[new[i] + j].text = <<segs2[i].text[j]>>
                 /\ hist2[new[i] + j].key = segs2[i].key
      <4>1. j \in 1 .. Len(segs[i].text)
        BY <3>1
      <4>2. /\ hist[start[i] + j].text = <<segs[i].text[j]>>
            /\ hist[start[i] + j].key = segs[i].key
        BY <1>5, <2>1, <4>1
      <4> QED BY <3>1, <3>2, <4>1, <4>2
    <3> QED BY <3>3, <3>4
  <2>2. CASE i = n + 1
    <3>1. segs2[i] = seg /\ new[i] = m /\ new[i + 1] = m + 1
      BY <1>1, <1>3, <1>5, <1>7, <2>2
    <3>2. hist2[m + 1].text = <<seg.text[1]>> /\ hist2[m + 1].key = seg.key
      BY <1>2, <1>4
    <3>3. new[i + 1] = new[i] + Len(segs2[i].text)
      BY <1>2, <3>1
    <3>4. ASSUME NEW j \in 1 .. Len(segs2[i].text)
          PROVE  /\ hist2[new[i] + j].text = <<segs2[i].text[j]>>
                 /\ hist2[new[i] + j].key = segs2[i].key
      <4>1. j \in 1 .. Len(seg.text)
        BY <3>1
      <4>2. j = 1
        BY <1>2, <4>1
      <4> QED BY <3>1, <3>2, <4>2
    <3> QED BY <3>3, <3>4
  <2>3. i \in 1 .. n \/ i = n + 1
    BY <1>1
  <2> QED BY <2>1, <2>2, <2>3
<1>10. Len(segs2) + 1 = n + 2
  BY <1>1, <1>3
<1>11. new \in Cuts(segs2, hist2) /\ Cut(segs2, hist2, new)
  BY <1>3, <1>4, <1>7, <1>8, <1>9, <1>10 DEF Cuts, Cut
<1> QED BY <1>11 DEF segs2, hist2

\* A segment that joins the last one.
LEMMA CutMerged ==
  ASSUME NEW segs \in Seq(SegmentType), NEW hist \in Seq(SegmentType),
         NEW start \in Cuts(segs, hist), Cut(segs, hist, start),
         segs # <<>>, NEW seg, SingleFragment(seg), segs[Len(segs)].key = seg.key,
         NEW segs2, Len(segs2) = Len(segs),
         \A i \in 1 .. Len(segs) - 1 : segs2[i] = segs[i],
         segs2[Len(segs)].key = seg.key,
         segs2[Len(segs)].text = segs[Len(segs)].text \o seg.text
  PROVE  \E new \in Cuts(segs2, Append(hist, seg)) :
           Cut(segs2, Append(hist, seg), new)
<1> DEFINE n == Len(segs)
           m == Len(hist)
           hist2 == Append(hist, seg)
           text == segs[n].text
           text2 == segs2[n].text
           new == [i \in 1 .. n + 1 |-> IF i <= n THEN start[i] ELSE m + 1]
<1>1. n \in Nat \ {0} /\ m \in Nat
  BY LenProperties, EmptySeq
<1>2. seg \in SegmentType /\ Len(seg.text) = 1 /\ seg.text = <<seg.text[1]>>
  BY SingleText DEF SingleFragment
<1>3. /\ Len(hist2) = m + 1 /\ hist2[m + 1] = seg
      /\ \A i \in 1 .. m : hist2[i] = hist[i]
  BY <1>2, AppendProperties
<1>4. /\ \A i \in 1 .. n + 1 : start[i] \in 0 .. m
      /\ start[1] = 0 /\ start[n + 1] = m
      /\ \A i \in 1 .. n :
           /\ start[i + 1] = start[i] + Len(segs[i].text)
           /\ \A j \in 1 .. Len(segs[i].text) :
                /\ hist[start[i] + j].text = <<segs[i].text[j]>>
                /\ hist[start[i] + j].key = segs[i].key
  BY DEF Cuts, Cut
<1>5. \A i \in 1 .. n : segs[i].text \in Seq(Fragments) /\ Len(segs[i].text) \in Nat
  <2>1. \A i \in 1 .. n : segs[i] \in SegmentType
    BY ElementOfSeq
  <2>2. \A i \in 1 .. n : segs[i].text \in Seq(Fragments)
    BY <2>1 DEF SegmentType
  <2> QED BY <2>2, LenProperties
<1>6. n \in 1 .. n
  BY <1>1
<1>7. /\ Len(text2) = Len(text) + 1 /\ Len(text) \in Nat
      /\ \A j \in 1 .. Len(text) : text2[j] = text[j]
      /\ text2[Len(text) + 1] = seg.text[1]
  <2> DEFINE added == seg.text
  <2>1. text \in Seq(Fragments) /\ added \in Seq(Fragments) /\ text2 = text \o added
    BY <1>2, <1>5, <1>6 DEF SegmentType
  <2>2. Len(added) = 1 /\ Len(text) \in Nat
    BY <1>2, <1>5, <1>6
  <2> HIDE DEF text, added
  <2>3. /\ Len(text \o added) = Len(text) + Len(added)
        /\ \A i \in 1 .. Len(text) + Len(added) : (text \o added)[i] =
             IF i <= Len(text) THEN text[i] ELSE added[i - Len(text)]
    BY <2>1, ConcatProperties
  <2> HIDE DEF text2
  <2>4. /\ Len(text2) = Len(text) + 1
        /\ \A i \in 1 .. Len(text) + 1 : text2[i] =
             IF i <= Len(text) THEN text[i] ELSE added[i - Len(text)]
    BY <2>1, <2>2, <2>3
  <2> QED BY <2>2, <2>4 DEF added
<1> HIDE DEF n, m, hist2, text, text2
<1>8. /\ \A i \in 1 .. n : new[i] = start[i]
      /\ new[n + 1] = m + 1
      /\ new \in [1 .. n + 1 -> 0 .. m + 1]
  BY <1>1, <1>4
<1> HIDE DEF new
<1>9. \A i \in 1 .. n : start[i] \in 0 .. m /\ start[i] + Len(segs[i].text) \in 0 .. m
  <2>1. \A i \in 1 .. n : i + 1 \in 1 .. n + 1 /\ i \in 1 .. n + 1
    BY <1>1
  <2> QED BY <1>4, <2>1
<1>10. ASSUME NEW i \in 1 .. n, NEW j \in 1 .. Len(segs[i].text)
       PROVE  hist2[start[i] + j] = hist[start[i] + j]
  <2> DEFINE a == start[i]
             len == Len(segs[i].text)
  <2>1. a \in 0 .. m /\ a + len \in 0 .. m /\ len \in Nat /\ j \in 1 .. len
    BY <1>5, <1>9
  <2> HIDE DEF a, len
  <2>2. a + j \in 1 .. m
    BY <1>1, <2>1
  <2> QED BY <1>3, <2>2 DEF a
<1>11. ASSUME NEW i \in 1 .. n
       PROVE  /\ new[i + 1] = new[i] + Len(segs2[i].text)
              /\ \A j \in 1 .. Len(segs2[i].text) :
                   /\ hist2[new[i] + j].text = <<segs2[i].text[j]>>
                   /\ hist2[new[i] + j].key = segs2[i].key
  <2>1. CASE i \in 1 .. n - 1
    <3>1. i + 1 \in 1 .. n
      BY <1>1, <2>1
    <3>2. segs2[i] = segs[i] /\ new[i] = start[i] /\ new[i + 1] = start[i + 1]
      BY <1>8, <2>1, <3>1 DEF n
    <3>3. new[i + 1] = new[i] + Len(segs2[i].text)
      BY <1>4, <3>2
    <3>4. ASSUME NEW j \in 1 .. Len(segs2[i].text)
          PROVE  /\ hist2[new[i] + j].text = <<segs2[i].text[j]>>
                 /\ hist2[new[i] + j].key = segs2[i].key
      <4>1. j \in 1 .. Len(segs[i].text)
        BY <3>2
      <4>2. /\ hist[start[i] + j].text = <<segs[i].text[j]>>
            /\ hist[start[i] + j].key = segs[i].key
        BY <1>4, <4>1
      <4> QED BY <1>10, <3>2, <4>1, <4>2
    <3> QED BY <3>3, <3>4
  <2>2. CASE i = n
    <3>1. /\ new[i] = start[n] /\ new[i + 1] = m + 1 /\ start[n] + Len(text) = m
          /\ segs2[i].text = text2 /\ segs2[i].key = segs[n].key
      BY <1>4, <1>6, <1>8, <2>2 DEF n, text, text2
    <3>2. new[i + 1] = new[i] + Len(text2)
      <4> DEFINE a == start[n]  len == Len(text)  len2 == Len(text2)
      <4>1. a \in 0 .. m /\ len \in Nat /\ a + len = m /\ len2 = len + 1
        BY <1>6, <1>7, <1>9, <3>1
      <4> HIDE DEF a, len, len2
      <4>2. m + 1 = a + len2
        BY <1>1, <4>1
      <4> QED BY <3>1, <4>2 DEF a, len2
    <3>3. ASSUME NEW j \in 1 .. Len(text)
          PROVE  /\ hist2[start[n] + j].text = <<text2[j]>>
                 /\ hist2[start[n] + j].key = segs[n].key
      <4>1. j \in 1 .. Len(segs[n].text) /\ text2[j] = segs[n].text[j]
        BY <1>7 DEF text
      <4> QED BY <1>4, <1>6, <1>10, <4>1
    <3>4. /\ hist2[start[n] + (Len(text) + 1)].text = <<text2[Len(text) + 1]>>
          /\ hist2[start[n] + (Len(text) + 1)].key = segs[n].key
      <4>1. start[n] + (Len(text) + 1) = m + 1
        <5> DEFINE a == start[n]  len == Len(text)
        <5>1. a \in 0 .. m /\ len \in Nat /\ a + len = m
          BY <1>6, <1>7, <1>9, <3>1
        <5> HIDE DEF a, len
        <5>2. a + (len + 1) = m + 1
          BY <1>1, <5>1
        <5> QED BY <5>2 DEF a, len
      <4> QED BY <1>2, <1>3, <1>7, <4>1 DEF n
    <3>5. \A j \in 1 .. Len(text2) : j \in 1 .. Len(text) \/ j = Len(text) + 1
      BY <1>7
    <3> QED BY <2>2, <3>1, <3>2, <3>3, <3>4, <3>5
  <2>3. i \in 1 .. n - 1 \/ i = n
    BY <1>1
  <2> QED BY <2>1, <2>2, <2>3
<1>12. new[1] = 0
  BY <1>1, <1>4, <1>8
<1>13. new \in Cuts(segs2, hist2) /\ Cut(segs2, hist2, new)
  BY <1>3, <1>8, <1>11, <1>12 DEF Cuts, Cut, n
<1> QED BY <1>13 DEF hist2

\* What a paused Append holds carries one fragment.
PausedSingle == \A p \in Producers : op[p] = "paused" => SingleFragment(arg[p])

\* The steps of the clients, by what they do to what is accepted, pending and
\* delivered.
Inserts ==
  \E p \in Producers : \E seg \in SegmentType :
    /\ ~closed /\ SingleFragment(seg) /\ AppendInsert(p, seg)
    /\ history' = Append(history, seg)
    /\ UNCHANGED <<delivered, finished>>

Takes ==
  SwapTake(Consumer) /\ delivered' = delivered \o segments /\ history' = history

\* What a step of Append comes to.
Outcome(p, seg) ==
  \/ ~closed /\ AppendInsert(p, seg)
  \/ AppendPause(p, seg)
  \/ AppendFail(p, "closed")
  \/ AppendFail(p, "canceled")

\* An Append inserts its fragment, keeps it while it is paused, or drops it.
LEMMA AppendSteps ==
  ASSUME IInv, PausedSingle, NEW p \in Producers, NEW seg, SingleFragment(seg),
         Outcome(p, seg), Record(p, seg), UNCHANGED <<delivered, finished>>
  PROVE  /\ PausedSingle'
         /\ Inserts \/ UNCHANGED <<content, history, delivered>>
<1>1. /\ op \in [Goroutines -> {"idle", "paused", "waiting", "coalescing"}]
      /\ arg \in [Producers -> SegmentType \cup {NoSegment}]
      /\ ret \in [Producers -> {"none", "ok", "closed", "canceled"}]
      /\ p \in Goroutines /\ Producers \subseteq Goroutines
      /\ seg \in SegmentType
  BY DEF IInv, BufferInv, BufferTypeOK, Goroutines, SingleFragment
<1>2. CASE ~closed /\ AppendInsert(p, seg)
  <2>1. op'[p] = "idle" /\ ret'[p] = "ok"
    BY <1>1, <1>2 DEF AppendInsert, Return
  <2>2. history' = Append(history, seg)
    BY <2>1 DEF Record
  <2>3. PausedSingle'
    BY <1>1, <1>2 DEF AppendInsert, Return, PausedSingle
  <2> QED BY <1>1, <1>2, <2>2, <2>3 DEF Inserts
<1>3. CASE AppendPause(p, seg)
  <2>1. op'[p] = "paused"
    BY <1>1, <1>3 DEF AppendPause
  <2>2. PausedSingle'
    BY <1>1, <1>3 DEF AppendPause, PausedSingle
  <2> QED BY <1>3, <2>1, <2>2 DEF AppendPause, Record
<1>4. ASSUME NEW answer \in {"closed", "canceled"}, AppendFail(p, answer)
      PROVE  PausedSingle' /\ UNCHANGED <<content, history, delivered>>
  <2>1. ret'[p] = answer
    BY <1>1, <1>4 DEF AppendFail, Return
  <2>2. PausedSingle'
    BY <1>1, <1>4 DEF AppendFail, Return, PausedSingle
  <2> QED BY <1>4, <2>1, <2>2 DEF AppendFail, Record
<1> QED BY <1>2, <1>3, <1>4 DEF Outcome

\* A Swap takes all that is pending or nothing.
LEMMA ConsumerSteps ==
  ASSUME IInv, PausedSingle, Receive,
         SwapBody(Consumer) \/ SwapAfterWait(Consumer)
  PROVE  PausedSingle' /\ (Takes \/ UNCHANGED <<content, history, delivered>>)
<1>1. /\ op \in [Goroutines -> {"idle", "paused", "waiting", "coalescing"}]
      /\ Consumer \in Goroutines /\ Producers \subseteq Goroutines
      /\ delivered \in Seq(SegmentType)
  BY DEF IInv, ClientsTypeOK, BufferInv, BufferTypeOK, Goroutines
<1>2. CASE SwapTake(Consumer)
  <2>1. op'[Consumer] = "idle" /\ got'.segs = segments
    BY <1>1, <1>2 DEF SwapTake
  <2>2. PausedSingle'
    BY <1>1, <1>2, BufferAssumption DEF SwapTake, PausedSingle
  <2> QED BY <1>2, <2>1, <2>2 DEF Takes, Receive
<1>3. ASSUME NEW err, SwapReturnEmpty(Consumer, err)
      PROVE  PausedSingle' /\ UNCHANGED <<content, history, delivered>>
  <2>1. got'.segs = <<>>
    BY <1>3 DEF SwapReturnEmpty
  <2>2. delivered' = delivered
    BY <1>1, <2>1, ConcatEmptySeq DEF Receive
  <2>3. PausedSingle'
    BY <1>1, <1>3, BufferAssumption DEF SwapReturnEmpty, PausedSingle
  <2> QED BY <1>3, <2>2, <2>3 DEF SwapReturnEmpty, Receive
<1>4. CASE SwapPark(Consumer) \/ SwapCoalesce(Consumer)
  <2>1. op'[Consumer] # "idle"
    BY <1>1, <1>4 DEF SwapPark, SwapCoalesce
  <2>2. PausedSingle'
    BY <1>1, <1>4, BufferAssumption DEF SwapPark, SwapCoalesce, PausedSingle
  <2> QED BY <1>4, <2>1, <2>2 DEF SwapPark, SwapCoalesce, Receive
<1> QED BY <1>2, <1>3, <1>4 DEF SwapBody, SwapAfterWait

\* A producer's step hands one fragment to the buffer.
LEMMA ProducerSteps ==
  ASSUME IInv, PausedSingle, NEW p \in Producers, CallAppend(p) \/ ResumeAppend(p)
  PROVE  \E seg : /\ SingleFragment(seg) /\ Outcome(p, seg) /\ Record(p, seg)
                  /\ UNCHANGED <<delivered, finished>>
<1>1. CASE CallAppend(p)
  <2>1. PICK shape \in Shapes[p] :
          /\ calls[p] < MaxAppends[p]
          /\ AppendCall(p, SegmentOf(p, shape))
          /\ Record(p, SegmentOf(p, shape))
          /\ UNCHANGED <<delivered, finished>>
    BY <1>1 DEF CallAppend
  <2> DEFINE seg == SegmentOf(p, shape)
  <2>2. SingleFragment(seg)
    <3>1. seg \in SegmentType
      BY <2>1, SegmentOfAdmissible DEF IInv, Admissible
    <3>2. Len(seg.text) = 1
      BY DEF SegmentOf
    <3> QED BY <3>1, <3>2 DEF SingleFragment
  <2> HIDE DEF seg
  <2>3. AppendCall(p, seg) /\ Record(p, seg)
    BY <2>1 DEF seg
  <2>4. Outcome(p, seg)
    BY <2>3 DEF Outcome, AppendCall, AppendPauseLoop
  <2> QED BY <2>1, <2>2, <2>3, <2>4
<1>2. CASE ResumeAppend(p)
  <2>1. SingleFragment(arg[p]) /\ AppendPauseLoop(p, arg[p]) /\ Record(p, arg[p])
    BY <1>2 DEF ResumeAppend, AppendResume, PausedSingle
  <2>2. Outcome(p, arg[p])
    BY <2>1 DEF Outcome, AppendPauseLoop
  <2>3. UNCHANGED <<delivered, finished>>
    BY <1>2 DEF ResumeAppend
  <2> QED BY <2>1, <2>2, <2>3
<1> QED BY <1>1, <1>2

\* No step does anything else to what is pending.
LEMMA ClientSteps ==
  ASSUME IInv, PausedSingle, [ClientsNext]_allVars
  PROVE  /\ PausedSingle'
         /\ Inserts \/ Takes \/ UNCHANGED <<content, history, delivered>>
<1>1. ASSUME NEW p \in Producers, CallAppend(p) \/ ResumeAppend(p)
      PROVE  /\ PausedSingle'
             /\ Inserts \/ UNCHANGED <<content, history, delivered>>
  BY <1>1, ProducerSteps, AppendSteps
<1>2. CASE CallSwap \/ ResumeSwap \/ TimerFires \/ BarrierFires \/ CancelFires
  BY <1>2, ConsumerSteps
     DEF CallSwap, ResumeSwap, TimerFires, BarrierFires, CancelFires, SwapCall,
         SwapResume, CoalesceTimer, CoalesceBarrier, CoalesceCancel
<1>3. ASSUME UNCHANGED <<content, clientVars, op, arg>>
      PROVE  PausedSingle' /\ UNCHANGED <<content, history, delivered>>
  BY <1>3 DEF PausedSingle, clientVars
<1>4. CASE CloseBuffer \/ \E g \in Goroutines : Cancel(g)
  BY <1>3, <1>4 DEF CloseBuffer, Close, Cancel, CancelContext
<1>5. CASE UNCHANGED allVars
  BY <1>3, <1>5 DEF allVars, bufferVars, content
<1> QED BY <1>1, <1>2, <1>4, <1>5 DEF ClientsNext, ClientsTerminated

\* What was handed out and what is pending has a cut of what was accepted.
HandedInv == \E start \in Cuts(Handed, history) : Cut(Handed, history, start)

\* The consumer has seen the end: it calls Swap no more, and the buffer is
\* closed and empty unless it was cancelled.
DeliveredInv ==
  /\ finished =>
       /\ op[Consumer] = "idle"
       /\ Consumer \in ctxDone \/ (closed /\ segments = <<>>)
  /\ upstreamErr # NoErr => closed

\* The pending bytes are as many as currentBytes says.
BytesInv == IsFiniteSet(PendingBytes) /\ BytesExact

OrderInv == IInv /\ PausedSingle /\ HandedInv /\ DeliveredInv /\ BytesInv

\* Appending to the second part appends to the whole.
LEMMA AppendInConcat ==
  ASSUME NEW S, NEW s \in Seq(S), NEW q \in Seq(S), NEW e \in S
  PROVE  s \o Append(q, e) = Append(s \o q, e)
<1>1. <<e>> \in Seq(S)
  OBVIOUS
<1>2. s \o q \in Seq(S)
  BY ConcatProperties
<1>3. Append(q, e) = q \o <<e>> /\ Append(s \o q, e) = (s \o q) \o <<e>>
  BY <1>2, AppendIsConcat
<1> QED BY <1>1, <1>3, ConcatAssociative

\* Merging into the last segment leaves the others alone.
LEMMA MergeInConcat ==
  ASSUME NEW s \in Seq(SegmentType), NEW q \in Seq(SegmentType), q # <<>>,
         NEW e \in SegmentType
  PROVE  LET all == s \o q
             new == s \o [q EXCEPT ![Len(q)] = e]
         IN  /\ all # <<>> /\ all[Len(all)] = q[Len(q)]
             /\ Len(new) = Len(all) /\ new[Len(all)] = e
             /\ \A i \in 1 .. Len(all) - 1 : new[i] = all[i]
<1> DEFINE n == Len(s)
           m == Len(q)
           q2 == [q EXCEPT ![m] = e]
           all == s \o q
           new == s \o q2
<1>1. n \in Nat /\ m \in Nat \ {0} /\ m \in 1 .. m
  BY LenProperties, EmptySeq
<1>2. q2 \in Seq(SegmentType) /\ Len(q2) = m
  BY <1>1, ExceptSeq
<1>3. /\ q2[m] = e /\ \A i \in 1 .. m - 1 : q2[i] = q[i]
  BY <1>1, LenProperties
<1> HIDE DEF q2
<1>4. /\ Len(all) = n + m
      /\ \A i \in 1 .. n + m : all[i] = IF i <= n THEN s[i] ELSE q[i - n]
  BY ConcatProperties
<1>5. /\ Len(new) = n + m
      /\ \A i \in 1 .. n + m : new[i] = IF i <= n THEN s[i] ELSE q2[i - n]
  <2>1. /\ Len(s \o q2) = Len(s) + Len(q2)
        /\ \A i \in 1 .. Len(s) + Len(q2) :
             (s \o q2)[i] = IF i <= Len(s) THEN s[i] ELSE q2[i - Len(s)]
    BY <1>2, ConcatProperties
  <2> QED BY <1>2, <2>1
<1> HIDE DEF all, new, n, m
<1>6. n + m \in 1 .. n + m /\ ~(n + m <= n) /\ (n + m) - n = m
  BY <1>1
<1>7. all[n + m] = q[m] /\ new[n + m] = e
  BY <1>3, <1>4, <1>5, <1>6
<1>8. ASSUME NEW i \in 1 .. n + m - 1 PROVE new[i] = all[i]
  <2>1. i \in 1 .. n + m /\ (i <= n \/ i - n \in 1 .. m - 1)
    BY <1>1
  <2> QED BY <1>3, <1>4, <1>5, <2>1
<1>9. all # <<>>
  BY <1>1, <1>4, EmptySeq
<1> QED BY <1>4, <1>5, <1>7, <1>8, <1>9 DEF all, new, q2, m

\* Inserting and taking keep a cut; the other steps change nothing of it.
LEMMA HandedStep ==
  ASSUME OrderInv, [ClientsNext]_allVars
  PROVE  HandedInv'
<1> USE DEF OrderInv
<1>1. /\ segments \in Seq(SegmentType) /\ delivered \in Seq(SegmentType)
      /\ history \in Seq(SegmentType)
  BY DEF IInv, ClientsTypeOK, BufferInv, BufferTypeOK
<1>2. Handed \in Seq(SegmentType)
  BY <1>1, ConcatProperties DEF Handed
<1>3. PICK start \in Cuts(Handed, history) : Cut(Handed, history, start)
  BY DEF HandedInv
<1>4. ASSUME Handed' = Handed, history' = history PROVE HandedInv'
  <2>1. start \in Cuts(Handed', history') /\ Cut(Handed', history', start)
    BY <1>3, <1>4
  <2> QED BY <2>1 DEF HandedInv, Cuts, Cut
<1>5. CASE Inserts
  <2>1. PICK p \in Producers : \E seg \in SegmentType :
          /\ SingleFragment(seg) /\ AppendInsert(p, seg)
          /\ history' = Append(history, seg) /\ delivered' = delivered
    BY <1>5 DEF Inserts
  <2>2. PICK seg \in SegmentType :
          /\ SingleFragment(seg) /\ AppendInsert(p, seg)
          /\ history' = Append(history, seg) /\ delivered' = delivered
    BY <2>1
  <2>3. MergeIntoLast(seg) \/ PushSegment(seg)
    BY <2>2 DEF AppendInsert
  <2>4. CASE PushSegment(seg)
    <3>1. Handed' = delivered \o Append(segments, seg)
      BY <2>2, <2>4 DEF PushSegment, Handed
    <3>2. Handed' = Append(Handed, seg)
      BY <1>1, <3>1, AppendInConcat DEF Handed
    <3>3. \E new \in Cuts(Append(Handed, seg), Append(history, seg)) :
            Cut(Append(Handed, seg), Append(history, seg), new)
      BY <1>1, <1>2, <1>3, <2>2, CutPushed
    <3>4. \E new \in Cuts(Handed', history') : Cut(Handed', history', new)
      BY <2>2, <3>2, <3>3
    <3> QED BY <3>4 DEF HandedInv, Cuts, Cut
  <2>5. CASE MergeIntoLast(seg)
    <3> DEFINE last == segments[Len(segments)]
               merged == Merge(last, seg)
    <3>1. /\ segments # <<>> /\ CanMerge(last, seg)
          /\ segments' = [segments EXCEPT ![Len(segments)] = merged]
      BY <2>5 DEF MergeIntoLast, MergesIntoLast
    <3>2. last \in SegmentType
      <4>1. Len(segments) \in 1 .. Len(segments)
        BY <1>1, <3>1, LenProperties, EmptySeq
      <4> QED BY <1>1, <4>1, ElementOfSeq
    <3>3. /\ merged \in SegmentType /\ last.key = seg.key /\ merged.key = seg.key
          /\ merged.text = last.text \o seg.text
      BY <2>2, <3>1, <3>2, MergeType DEF CanMerge, Merge
    <3> HIDE DEF merged
    <3>4. Handed' = delivered \o [segments EXCEPT ![Len(segments)] = merged]
      BY <2>2, <3>1 DEF Handed
    <3>5. /\ Handed # <<>> /\ Handed[Len(Handed)] = last
          /\ Len(Handed') = Len(Handed) /\ Handed'[Len(Handed)] = merged
          /\ \A i \in 1 .. Len(Handed) - 1 : Handed'[i] = Handed[i]
      BY <1>1, <3>1, <3>3, <3>4, MergeInConcat DEF Handed
    <3> DEFINE new == Handed'
               old == Handed
    <3>6. /\ old \in Seq(SegmentType) /\ start \in Cuts(old, history)
          /\ Cut(old, history, start)
          /\ old # <<>> /\ old[Len(old)].key = seg.key
          /\ Len(new) = Len(old)
          /\ \A i \in 1 .. Len(old) - 1 : new[i] = old[i]
          /\ new[Len(old)].key = seg.key
          /\ new[Len(old)].text = old[Len(old)].text \o seg.text
      BY <1>2, <1>3, <3>3, <3>5
    <3> HIDE DEF new, old
    <3>7. \E cut \in Cuts(new, Append(history, seg)) :
            Cut(new, Append(history, seg), cut)
      BY <1>1, <2>2, <3>6, CutMerged
    <3> QED BY <2>2, <3>7 DEF HandedInv, Cuts, Cut, new
  <2> QED BY <2>3, <2>4, <2>5
<1>6. CASE Takes
  <2>1. Handed' = (delivered \o segments) \o <<>>
    BY <1>6 DEF Takes, SwapTake, Handed
  <2>2. Handed' = Handed
    BY <1>2, <2>1, ConcatEmptySeq DEF Handed
  <2> QED BY <1>4, <1>6, <2>2 DEF Takes
<1>7. CASE UNCHANGED <<content, history, delivered>>
  BY <1>4, <1>7 DEF content, Handed
<1> QED BY <1>5, <1>6, <1>7, ClientSteps

\* Who has seen the end has seen a closed and empty buffer, or was cancelled.
LEMMA EndStep ==
  ASSUME OrderInv, [ClientsNext]_allVars
  PROVE  DeliveredInv'
<1> USE DEF OrderInv
<1>1. /\ op \in [Goroutines -> {"idle", "paused", "waiting", "coalescing"}]
      /\ Consumer \in Goroutines /\ Consumer \notin Producers
      /\ Producers \subseteq Goroutines
  BY BufferAssumption DEF IInv, ClientsTypeOK, BufferInv, BufferTypeOK, Goroutines
<1>2. ASSUME UNCHANGED <<finished, closing>>, ctxDone \subseteq ctxDone',
             op'[Consumer] = op[Consumer], closed => segments' = segments
      PROVE  DeliveredInv'
  BY <1>2 DEF DeliveredInv, closing
<1>3. ASSUME NEW p \in Producers, CallAppend(p) \/ ResumeAppend(p) PROVE DeliveredInv'
  <2>1. PICK seg : Outcome(p, seg) /\ UNCHANGED finished
    BY <1>3, ProducerSteps
  <2>2. op'[Consumer] = op[Consumer]
    BY <1>1, <2>1 DEF Outcome, AppendInsert, AppendPause, AppendFail, Return
  <2>3. UNCHANGED <<closing, ctxDone>> /\ (closed => segments' = segments)
    BY <2>1 DEF Outcome, AppendInsert, AppendPause, AppendFail, content
  <2> QED BY <1>2, <2>1, <2>2, <2>3
<1>4. ASSUME Receive, SwapBody(Consumer) \/ SwapAfterWait(Consumer) PROVE DeliveredInv'
  <2>1. CASE SwapTake(Consumer)
    BY <1>1, <1>4, <2>1 DEF DeliveredInv, SwapTake, Receive, closing
  <2>2. CASE SwapReturnEmpty(Consumer, "canceled") /\ Consumer \in ctxDone
    BY <1>1, <1>4, <2>2 DEF DeliveredInv, SwapReturnEmpty, Receive, closing
  <2>3. CASE /\ SwapReturnEmpty(Consumer, upstreamErr) /\ segments = <<>>
             /\ closed \/ upstreamErr # NoErr
    BY <1>1, <1>4, <2>3 DEF DeliveredInv, SwapReturnEmpty, Receive, closing, content
  <2>4. CASE SwapPark(Consumer) \/ SwapCoalesce(Consumer)
    BY <1>1, <1>4, <2>4 DEF DeliveredInv, SwapPark, SwapCoalesce, Receive, closing
  <2> QED BY <1>4, <2>1, <2>2, <2>3, <2>4 DEF SwapBody, SwapAfterWait
<1>5. CASE CallSwap \/ ResumeSwap \/ TimerFires \/ BarrierFires \/ CancelFires
  BY <1>4, <1>5
     DEF CallSwap, ResumeSwap, TimerFires, BarrierFires, CancelFires, SwapCall,
         SwapResume, CoalesceTimer, CoalesceBarrier, CoalesceCancel
<1>6. CASE CloseBuffer
  BY <1>6 DEF CloseBuffer, Close, DeliveredInv, clientVars, content, closing
<1>7. ASSUME NEW g \in Goroutines, Cancel(g) PROVE DeliveredInv'
  BY <1>2, <1>7 DEF Cancel, CancelContext, clientVars, content
<1>8. CASE UNCHANGED allVars
  BY <1>2, <1>8 DEF allVars, bufferVars, clientVars, closing
<1> QED BY <1>3, <1>5, <1>6, <1>7, <1>8 DEF ClientsNext, ClientsTerminated

-----------------------------------------------------------------------------
\* The differences Append adds up are the number of bytes it added.

\* The bytes of a sequence of segments, one by one.
BytesOf(segs) == UNION {{i} \X (1 .. BytesLen(segs[i])) : i \in 1 .. Len(segs)}

\* A byte is in one segment, at one place.
LEMMA ByteMember ==
  ASSUME NEW segs, NEW x
  PROVE  x \in BytesOf(segs) <=>
           \E i \in 1 .. Len(segs) : x \in {i} \X (1 .. BytesLen(segs[i]))
BY DEF BytesOf

\* The bytes of the i-th segment after the first a of them.
Row(i, a, b) == {i} \X (a + 1 .. b)

\* A run of bytes of one segment, disjoint from the others.
LEMMA RowAdded ==
  ASSUME NEW S, IsFiniteSet(S), NEW i, NEW a \in Nat, NEW b \in Nat, a <= b,
         S \cap Row(i, a, b) = {}
  PROVE  /\ IsFiniteSet(S \cup Row(i, a, b))
         /\ Cardinality(S \cup Row(i, a, b)) = Cardinality(S) + (b - a)
<1> DEFINE row == Row(i, a, b)
           length == Cardinality(a + 1 .. b)
           one == Cardinality({i})
           size == Cardinality(S)
           added == Cardinality(row)
<1>1. IsFiniteSet({i}) /\ one = 1
  BY FS_Singleton
<1>2. IsFiniteSet(a + 1 .. b) /\ length = b - a
  <2>1. a + 1 \in Int /\ b \in Int
    OBVIOUS
  <2>2. /\ IsFiniteSet(a + 1 .. b)
        /\ length = IF a + 1 > b THEN 0 ELSE b - (a + 1) + 1
    BY <2>1, FS_Interval
  <2> HIDE DEF length
  <2> QED BY <2>2
<1>3. IsFiniteSet(row) /\ added = one * length
  <2>1. /\ IsFiniteSet({i} \X (a + 1 .. b))
        /\ Cardinality({i} \X (a + 1 .. b))
             = Cardinality({i}) * Cardinality(a + 1 .. b)
    BY <1>1, <1>2, FS_Product
  <2> QED BY <2>1 DEF Row
<1>4. size \in Nat /\ Cardinality({}) = 0
  BY FS_CardinalityType, FS_EmptySet
<1>5. /\ IsFiniteSet(S \cup row)
      /\ Cardinality(S \cup row) = size + added - Cardinality(S \cap row)
  BY <1>3, FS_Union
<1>6. S \cap row = {}
  OBVIOUS
<1> HIDE DEF row, length, one, size, added
<1>7. added = b - a
  BY <1>1, <1>2, <1>3
<1>8. size + added - 0 = size + (b - a)
  BY <1>4, <1>7
<1>9. Cardinality(S \cup row) = size + (b - a)
  BY <1>4, <1>5, <1>6, <1>8
<1> QED BY <1>5, <1>9 DEF size, row

\* A new segment brings its bytes.
LEMMA PushBytes ==
  ASSUME NEW segs \in Seq(SegmentType), NEW seg \in SegmentType,
         IsFiniteSet(BytesOf(segs))
  PROVE  /\ IsFiniteSet(BytesOf(Append(segs, seg)))
         /\ Cardinality(BytesOf(Append(segs, seg)))
              = Cardinality(BytesOf(segs)) + BytesLen(seg)
<1> DEFINE n == Len(segs)
           b == BytesLen(seg)
           S == BytesOf(segs)
           row == {n + 1} \X (0 + 1 .. b)
           T == BytesOf(Append(segs, seg))
<1>1. n \in Nat /\ b \in Nat
  BY LenProperties, BytesLenType
<1>2. /\ Len(Append(segs, seg)) = n + 1 /\ Append(segs, seg)[n + 1] = seg
      /\ \A i \in 1 .. n : Append(segs, seg)[i] = segs[i]
  BY AppendProperties
<1>3. \A x : x \in S <=> \E i \in 1 .. n : x \in {i} \X (1 .. BytesLen(segs[i]))
  BY ByteMember
<1>4. \A x : x \in T <=>
        \E i \in 1 .. n + 1 : x \in {i} \X (1 .. BytesLen(Append(segs, seg)[i]))
  BY <1>2, ByteMember
<1> HIDE DEF n, S, T
<1>5. S \cap row = {}
  BY <1>1, <1>3
<1>6. 1 .. n + 1 = (1 .. n) \cup {n + 1} /\ 0 + 1 = 1
  BY <1>1
<1>7. ASSUME NEW x PROVE x \in T <=> x \in S \cup row
  BY <1>2, <1>3, <1>4, <1>6
<1>8. T = S \cup row
  BY <1>7
<1>9. IsFiniteSet(S) /\ 0 \in Nat /\ 0 <= b /\ b - 0 = b
  BY <1>1 DEF S
<1>10. row = Row(n + 1, 0, b)
  BY DEF Row
<1> HIDE DEF row, b
<1>11. /\ IsFiniteSet(S \cup row)
       /\ Cardinality(S \cup row) = Cardinality(S) + (b - 0)
  BY <1>1, <1>5, <1>9, <1>10, RowAdded
<1> QED BY <1>8, <1>9, <1>11 DEF T, S, b

\* A merged segment brings what makes the last one longer.
LEMMA MergeBytes ==
  ASSUME NEW segs \in Seq(SegmentType), segs # <<>>, NEW seg \in SegmentType,
         IsFiniteSet(BytesOf(segs)), BytesLen(segs[Len(segs)]) <= BytesLen(seg)
  PROVE  LET new == [segs EXCEPT ![Len(segs)] = seg]
         IN  /\ IsFiniteSet(BytesOf(new))
             /\ Cardinality(BytesOf(new))
                  = Cardinality(BytesOf(segs))
                      + (BytesLen(seg) - BytesLen(segs[Len(segs)]))
<1> DEFINE n == Len(segs)
           a == BytesLen(segs[n])
           b == BytesLen(seg)
           new == [segs EXCEPT ![n] = seg]
           S == BytesOf(segs)
           row == {n} \X (a + 1 .. b)
           T == BytesOf(new)
<1>1. n \in Nat \ {0} /\ n \in 1 .. n
  BY LenProperties, EmptySeq
<1>2. a \in Nat /\ b \in Nat /\ a <= b
  <2>1. segs[n] \in SegmentType
    BY <1>1, ElementOfSeq
  <2> QED BY <2>1, BytesLenType
<1>3. /\ Len(new) = n /\ new[n] = seg
      /\ \A i \in 1 .. n - 1 : new[i] = segs[i]
  <2>1. /\ Len(new) = n
        /\ \A j \in 1 .. n : new[j] = IF j = n THEN seg ELSE segs[j]
    BY <1>1, ExceptSeq
  <2> HIDE DEF n, new
  <2>2. \A i \in 1 .. n - 1 : i \in 1 .. n /\ i # n
    BY <1>1
  <2> QED BY <1>1, <2>1, <2>2
<1>4. \A x : x \in S <=> \E i \in 1 .. n : x \in {i} \X (1 .. BytesLen(segs[i]))
  BY ByteMember
<1>5. \A x : x \in T <=> \E i \in 1 .. n : x \in {i} \X (1 .. BytesLen(new[i]))
  BY <1>3, ByteMember
<1>6. BytesLen(new[n]) = b /\ BytesLen(segs[n]) = a
  BY <1>3
<1> HIDE DEF n, S, T, new, a, b
<1>7. 1 .. n = (1 .. n - 1) \cup {n}
  BY <1>1
<1>8. S \cap row = {}
  BY <1>2, <1>4, <1>6
<1>9. 1 .. b = (1 .. a) \cup (a + 1 .. b)
  BY <1>2
<1>10. ASSUME NEW x PROVE x \in T <=> x \in S \cup row
  <2>1. x \in T <=> \/ \E i \in 1 .. n - 1 : x \in {i} \X (1 .. BytesLen(segs[i]))
                    \/ x \in {n} \X (1 .. b)
    BY <1>3, <1>5, <1>6, <1>7
  <2>2. x \in S <=> \/ \E i \in 1 .. n - 1 : x \in {i} \X (1 .. BytesLen(segs[i]))
                    \/ x \in {n} \X (1 .. a)
    BY <1>4, <1>6, <1>7
  <2>3. x \in {n} \X (1 .. b) <=> x \in {n} \X (1 .. a) \/ x \in row
    BY <1>9
  <2> QED BY <2>1, <2>2, <2>3
<1>11. T = S \cup row
  BY <1>10
<1>12. IsFiniteSet(S)
  BY DEF S
<1>13. row = Row(n, a, b)
  BY DEF Row
<1> HIDE DEF row
<1>14. /\ IsFiniteSet(S \cup row)
       /\ Cardinality(S \cup row) = Cardinality(S) + (b - a)
  BY <1>2, <1>8, <1>12, <1>13, RowAdded
<1> QED BY <1>11, <1>14 DEF T, S, new, a, b, n

\* An insertion adds its bytes to the count, and Swap starts again at none.
LEMMA BytesStep ==
  ASSUME OrderInv, [ClientsNext]_allVars
  PROVE  BytesInv'
<1> USE DEF OrderInv
<1>1. segments \in Seq(SegmentType)
  BY DEF IInv, ClientsTypeOK, BufferInv, BufferTypeOK
<1>2. \A segs \in Seq(SegmentType) :
        BytesOf(segs) = UNION {{i} \X (1 .. BytesLen(segs[i])) : i \in DOMAIN segs}
  <2>1. ASSUME NEW segs \in Seq(SegmentType) PROVE DOMAIN segs = 1 .. Len(segs)
    BY LenProperties
  <2> QED BY <2>1 DEF BytesOf
<1>3. segments' \in Seq(SegmentType)
  BY IInvStep DEF IInv, ClientsTypeOK, BufferInv, BufferTypeOK
<1>4. PendingBytes = BytesOf(segments) /\ PendingBytes' = BytesOf(segments')
  BY <1>1, <1>2, <1>3 DEF PendingBytes
<1>5. IsFiniteSet(BytesOf(segments)) /\ currentBytes = Cardinality(BytesOf(segments))
  BY <1>4 DEF BytesInv, BytesExact
<1>6. CASE Inserts
  <2>1. PICK seg \in SegmentType : MergeIntoLast(seg) \/ PushSegment(seg)
    BY <1>6 DEF Inserts, AppendInsert
  <2>2. CASE PushSegment(seg)
    <3>1. /\ segments' = Append(segments, seg)
          /\ currentBytes' = currentBytes + BytesLen(seg)
      BY <2>2 DEF PushSegment
    <3>2. /\ IsFiniteSet(BytesOf(segments'))
          /\ Cardinality(BytesOf(segments')) = Cardinality(BytesOf(segments)) + BytesLen(seg)
      BY <1>1, <1>5, <3>1, PushBytes
    <3> QED BY <1>4, <1>5, <3>1, <3>2 DEF BytesInv, BytesExact
  <2>3. CASE MergeIntoLast(seg)
    <3> DEFINE last == segments[Len(segments)]
               merged == Merge(last, seg)
    <3>1. /\ segments # <<>>
          /\ segments' = [segments EXCEPT ![Len(segments)] = merged]
          /\ currentBytes' = currentBytes + (BytesLen(merged) - BytesLen(last))
      BY <2>3 DEF MergeIntoLast, MergesIntoLast
    <3>2. last \in SegmentType
      <4>1. Len(segments) \in 1 .. Len(segments)
        BY <1>1, <3>1, LenProperties, EmptySeq
      <4> QED BY <1>1, <4>1, ElementOfSeq
    <3>3. merged \in SegmentType /\ BytesLen(merged) = BytesLen(last) + seg.size
      BY <3>2, MergeType
    <3>4. BytesLen(last) \in Nat /\ seg.size \in Nat
      BY <3>2, BytesLenType DEF SegmentType
    <3> HIDE DEF merged
    <3>5. BytesLen(last) <= BytesLen(merged)
      BY <3>3, <3>4
    <3>6. /\ IsFiniteSet(BytesOf(segments'))
          /\ Cardinality(BytesOf(segments'))
               = Cardinality(BytesOf(segments)) + (BytesLen(merged) - BytesLen(last))
      BY <1>1, <1>5, <3>1, <3>3, <3>5, MergeBytes
    <3> QED BY <1>4, <1>5, <3>1, <3>6 DEF BytesInv, BytesExact
  <2> QED BY <2>1, <2>2, <2>3
<1>7. CASE Takes
  <2>1. segments' = <<>> /\ currentBytes' = 0
    BY <1>7 DEF Takes, SwapTake
  <2>2. BytesOf(segments') = {}
    BY <2>1, EmptySeq DEF BytesOf
  <2> QED BY <1>4, <2>1, <2>2, FS_EmptySet DEF BytesInv, BytesExact
<1>8. CASE UNCHANGED content
  BY <1>4, <1>5, <1>8 DEF content, BytesInv, BytesExact
<1> QED BY <1>6, <1>7, <1>8, ClientSteps DEF content

\* The invariant of the order holds at first ...
LEMMA OrderInit == ClientsInit => OrderInv
<1> SUFFICES ASSUME ClientsInit PROVE OrderInv
  OBVIOUS
<1>1. IInv /\ PausedSingle /\ DeliveredInv
  BY IInvInit DEF ClientsInit, BufferInit, PausedSingle, DeliveredInv, Goroutines
<1>2. segments = <<>> /\ delivered = <<>> /\ history = <<>> /\ currentBytes = 0
  BY DEF ClientsInit, BufferInit
<1>3. HandedInv
  <2> DEFINE start == [i \in 1 .. 1 |-> 0]
  <2>1. Handed = <<>> /\ Len(Handed) = 0 /\ Len(history) = 0
    BY <1>2, ConcatEmptySeq, EmptySeq DEF Handed
  <2>2. start \in Cuts(Handed, history) /\ Cut(Handed, history, start)
    BY <2>1 DEF Cuts, Cut
  <2> QED BY <2>2 DEF HandedInv
<1>4. BytesInv
  <2>1. PendingBytes = {}
    BY <1>2, EmptySeq DEF PendingBytes
  <2> QED BY <1>2, <2>1, FS_EmptySet DEF BytesInv, BytesExact
<1> QED BY <1>1, <1>3, <1>4 DEF OrderInv

\* ... and is kept by every step, ...
LEMMA OrderStep == OrderInv /\ [ClientsNext]_allVars => OrderInv'
BY IInvStep, ClientSteps, HandedStep, EndStep, BytesStep DEF OrderInv

\* ... and so holds in every reachable state.
LEMMA OrderInvariance == ClientsSpec => []OrderInv
BY OrderInit, OrderStep, PTL DEF ClientsSpec

\* What Append accepted is delivered or pending, once, in the order the lock
\* was taken and under its own key; and the consumer stops at an empty buffer.
THEOREM AcceptedInOrder == ClientsSpec => []InOrder
<1>1. OrderInv => InOrder
  BY DEF OrderInv, HandedInv, Cuts, Cut, DeliveredInv, InOrder, IsCut
<1>2. QED
  BY <1>1, OrderInvariance, PTL

\* currentBytes, kept by differences, is the number of bytes pending.
THEOREM BytesCounted == ClientsSpec => []BytesExact
<1>1. OrderInv => BytesExact
  BY DEF OrderInv, BytesInv
<1>2. QED
  BY <1>1, OrderInvariance, PTL

-----------------------------------------------------------------------------
(***************************************************************************)
(* Part two: the session.                                                  *)
(***************************************************************************)

Piece == [key : Keys, frag : Fragments]

Returned == wpc \in {"stop", "cancel", "close", "record", "body", "returned"}

\* The goroutines' own state.
ControlTypeOK ==
  /\ rpc \in {"check", "read", "segs", "append", "closing", "done"}
  /\ closeArg \in Errors \cup {NoErr}
  /\ mpc \in {"select", "closing", "done"}
  /\ stopMonitor \in BOOLEAN
  /\ wpc \in {"swap", "swapped", "write", "check", "stop", "cancel", "close",
              "record", "body", "returned"}
  /\ result \in Errors \cup {"none", "nil", "write error"}
  /\ bodyClosed \in BOOLEAN

-----------------------------------------------------------------------------
\* Where a segment's run begins and ends: it holds Start + 1 .. End.
Start(s) == s.text[1] - 1
End(s) == Start(s) + Len(s.text)

\* The segment holds consecutive pieces of its kind.
IsRun(acc, s) ==
  /\ s \in SegmentType
  /\ s.text # <<>> /\ Start(s) \in Nat
  /\ \A j \in 1 .. Len(s.text) : s.text[j] = Start(s) + j
  /\ End(s) <= Len(acc)
  /\ \A i \in 1 .. Len(acc) : Start(s) < i /\ i <= End(s) => acc[i].key = s.key

\* The segments hold the pieces from + 1 .. to, each once and in order.
Covers(acc, segs, from, to) ==
  /\ segs \in Seq(SegmentType)
  /\ from \in Nat /\ to \in Nat
  /\ \A i \in 1 .. Len(segs) : IsRun(acc, segs[i])
  /\ \A i \in 1 .. Len(segs) - 1 : Start(segs[i + 1]) = End(segs[i])
  /\ segs = <<>> => from = to
  /\ segs # <<>> => Start(segs[1]) = from /\ End(segs[Len(segs)]) = to

\* How much of the stream was swapped out of the buffer.
Taken == IF segments = <<>> THEN Len(accepted) ELSE Start(segments[1])

\* What the reader has parsed is in the buffer or still in its event.
ReaderInv ==
  /\ batch \in Seq(SegmentType)
  /\ parsed \in 0 .. MaxFragments
  /\ Len(batch) <= parsed /\ Len(accepted) = parsed - Len(batch)
  /\ \A i \in 1 .. Len(batch) :
       batch[i] \in Admissible /\ batch[i].text = <<Len(accepted) + i>>
  /\ accepted \in Seq(Piece)
  /\ \A i \in 1 .. Len(accepted) : accepted[i].frag = i
  /\ rpc \in {"check", "read", "closing"} => batch = <<>>
  /\ rpc = "append" => batch # <<>>
  /\ op[Reader] = "paused" => rpc = "append" /\ arg[Reader] = Head(batch)

\* What the buffer took is written, in flight or pending.
WriterInv ==
  /\ sent \in 0 .. Len(accepted)
  /\ client \in Seq(Seq(Piece))
  /\ inflight \in Seq(SegmentType)
  /\ Covers(accepted, segments, Taken, Len(accepted))
  /\ wpc \in {"swap", "check"} => sent = Taken
  /\ wpc = "swapped" => Covers(accepted, got.segs, sent, Taken)
  /\ wpc = "write" => inflight # <<>> /\ Covers(accepted, inflight, sent, Taken)
  /\ op[Writer] # "idle" => wpc = "swap"

\* Who may close the buffer, and when.
EndInv ==
  /\ result # "none" <=> Returned
  /\ got.closed => closed
  /\ mpc = "closing" => Reader \in ctxDone
  /\ Reader \in ctxDone /\ result = "none" => Writer \in ctxDone
  /\ closed /\ result = "none" /\ Writer \notin ctxDone =>
       rpc = "done" /\ batch = <<>>
  /\ result = "nil" =>
       /\ closed /\ segments = <<>> /\ sent = Len(accepted)
       /\ Writer \notin ctxDone => rpc = "done" /\ batch = <<>>

\* The pieces among the first n that a body event may stand for.
Counted(acc, n) == {i \in 1 .. n : acc[i].key \in Coalesceable}
Tokens(acc, n) == Cardinality(Counted(acc, n))

\* The segment at the head of the event is counted and not in the buffer.
Ahead == rpc = "append" \/ (rpc = "done" /\ batch # <<>>)

\* The two counters, and what is reported of them.
TokenInv ==
  /\ totalTokens = Tokens(accepted, Len(accepted))
                     + (IF Ahead /\ Head(batch).key \in Coalesceable THEN 1 ELSE 0)
  /\ usageTokens = IF \/ \E i \in 1 .. Len(accepted) : accepted[i].key \in UsageKeys
                      \/ Ahead /\ Head(batch).key \in UsageKeys
                     THEN UsageTokens ELSE 0
  /\ eventsOut \in Nat /\ eventsOut <= Tokens(accepted, sent)
  /\ recorded \in 0 .. MaxFragments \cup {UsageTokens}
  /\ (result = "nil" /\ Writer \notin ctxDone /\ wpc \in {"body", "returned"}) =>
       recorded = IF usageTokens > 0 THEN usageTokens ELSE totalTokens

\* The inductive invariant.
Inv ==
  /\ BufferInv
  /\ ControlTypeOK
  /\ ReaderInv
  /\ WriterInv
  /\ EndInv
  /\ TokenInv

-----------------------------------------------------------------------------
\* The instance: one producer and one consumer.
LEMMA Actors ==
  /\ Reader \in Producers /\ Writer \notin Producers /\ Reader # Writer
  /\ Goroutines = {Reader, Writer}
  /\ \A p \in Producers : p = Reader
BY PipelineAssumption, BufferAssumption DEF Goroutines, Writer

\* The first element and the rest of a sequence.
LEMMA HeadTail ==
  ASSUME NEW S, NEW seq \in Seq(S), seq # <<>>
  PROVE  /\ Len(seq) \in Nat /\ Len(seq) >= 1
         /\ Head(seq) = seq[1] /\ Head(seq) \in S
         /\ Tail(seq) \in Seq(S) /\ Len(Tail(seq)) = Len(seq) - 1
         /\ \A i \in 1 .. Len(seq) - 1 : Tail(seq)[i] = seq[i + 1]
<1>1. Len(seq) \in Nat /\ Len(seq) >= 1
  BY EmptySeq, LenProperties
<1>2. QED
  BY <1>1, HeadTailProperties, ElementOfSeq

\* A sequence of one element.
LEMMA Single ==
  ASSUME NEW S, NEW e \in S
  PROVE  LET one == [i \in 1 .. 1 |-> e]
         IN  one \in Seq(S) /\ Len(one) = 1 /\ one[1] = e
<1> DEFINE one == [i \in 1 .. 1 |-> e]
<1>1. one \in [1 .. 1 -> S] /\ DOMAIN one = 1 .. 1 /\ one[1] = e
  OBVIOUS
<1> HIDE DEF one
<1>2. one \in Seq(S)
  BY <1>1, SeqDef
<1>3. Len(one) \in Nat /\ DOMAIN one = 1 .. Len(one)
  BY <1>2, LenProperties
<1>4. Len(one) = 1
  BY <1>1, <1>3
<1>5. QED
  BY <1>1, <1>2, <1>4 DEF one

\* A run stays one when more pieces are taken.
LEMMA RunKept ==
  ASSUME NEW acc \in Seq(Piece), NEW more \in Seq(Piece), NEW s,
         Len(more) >= Len(acc),
         \A i \in 1 .. Len(acc) : more[i] = acc[i],
         IsRun(acc, s)
  PROVE  IsRun(more, s)
<1>1. Len(acc) \in Nat /\ Len(more) \in Nat /\ End(s) <= Len(acc)
      /\ Start(s) \in Nat /\ Len(s.text) \in Nat
  BY LenProperties DEF IsRun, SegmentType
<1>2. End(s) \in Nat
  BY <1>1 DEF End
<1>3. End(s) <= Len(more)
  BY <1>1, <1>2
<1>4. ASSUME NEW i \in 1 .. Len(more), Start(s) < i, i <= End(s)
      PROVE  more[i].key = s.key
  <2>1. i \in 1 .. Len(acc)
    BY <1>1, <1>2, <1>4
  <2>2. QED
    BY <1>4, <2>1 DEF IsRun
<1>5. QED
  BY <1>3, <1>4 DEF IsRun

\* So what covers a part of the stream keeps covering it.
LEMMA CoverKept ==
  ASSUME NEW acc \in Seq(Piece), NEW more \in Seq(Piece), NEW segs, NEW from,
         NEW to, Len(more) >= Len(acc),
         \A i \in 1 .. Len(acc) : more[i] = acc[i],
         Covers(acc, segs, from, to)
  PROVE  Covers(more, segs, from, to)
<1>1. \A i \in 1 .. Len(segs) : IsRun(more, segs[i])
  BY RunKept DEF Covers
<1>2. QED
  BY <1>1 DEF Covers

\* The piece Append takes, and the sequence it makes.
LEMMA TakePiece ==
  ASSUME NEW acc \in Seq(Piece), NEW seg \in SegmentType,
         seg.text = <<Len(acc) + 1>>
  PROVE  LET more == acc \o RunOf(seg)
         IN  /\ more \in Seq(Piece)
             /\ Len(more) = Len(acc) + 1
             /\ \A i \in 1 .. Len(acc) : more[i] = acc[i]
             /\ more[Len(acc) + 1].key = seg.key
             /\ more[Len(acc) + 1].frag = Len(acc) + 1
<1> DEFINE n == Len(acc)
           one == RunOf(seg)
           more == acc \o one
<1>1. n \in Nat
  BY LenProperties
<1>2. /\ Len(seg.text) = 1 /\ DOMAIN seg.text = 1 .. 1
      /\ seg.text[1] = n + 1 /\ n + 1 \in Fragments /\ seg.key \in Keys
  <2>1. seg.text \in Seq(Fragments) /\ seg.key \in Keys
    BY DEF SegmentType
  <2>2. Len(seg.text) = 1 /\ seg.text[1] = n + 1
    OBVIOUS
  <2>3. DOMAIN seg.text = 1 .. 1
    BY <2>1, <2>2, LenProperties
  <2>4. seg.text[1] \in Fragments
    BY <2>1, <2>2, ElementOfSeq
  <2>5. QED
    BY <2>1, <2>2, <2>3, <2>4
<1>3. one = [i \in 1 .. 1 |-> [key |-> seg.key, frag |-> n + 1]]
  BY <1>2 DEF RunOf
<1>4. one \in Seq(Piece) /\ Len(one) = 1
      /\ one[1] = [key |-> seg.key, frag |-> n + 1]
  <2>1. [key |-> seg.key, frag |-> n + 1] \in Piece
    BY <1>2 DEF Piece
  <2>2. QED
    BY <1>3, <2>1, Single
<1>5. /\ more \in Seq(Piece) /\ Len(more) = n + 1
      /\ \A i \in 1 .. n : more[i] = acc[i]
      /\ more[n + 1] = one[1]
  <2>1. /\ more \in Seq(Piece) /\ Len(more) = n + Len(one)
        /\ \A i \in 1 .. n + Len(one) :
             more[i] = IF i <= n THEN acc[i] ELSE one[i - n]
    BY <1>4, ConcatProperties
  <2> HIDE DEF n, one, more
  <2>2. QED
    BY <1>1, <1>4, <2>1
<1>6. QED
  BY <1>4, <1>5
\* Append pushes a segment of one piece behind the others.
LEMMA CoverPushed ==
  ASSUME NEW acc \in Seq(Piece), NEW more \in Seq(Piece), NEW segs, NEW from,
         NEW seg \in SegmentType, NEW pushed,
         Covers(acc, segs, from, Len(acc)),
         seg.text = <<Len(acc) + 1>>,
         Len(more) = Len(acc) + 1,
         \A i \in 1 .. Len(acc) : more[i] = acc[i],
         more[Len(acc) + 1].key = seg.key,
         pushed \in Seq(SegmentType), Len(pushed) = Len(segs) + 1,
         \A i \in 1 .. Len(segs) : pushed[i] = segs[i],
         pushed[Len(segs) + 1] = seg
  PROVE  /\ Covers(more, pushed, from, Len(acc) + 1)
         /\ segs # <<>> => pushed[1] = segs[1]
         /\ segs = <<>> => pushed[1] = seg
<1> DEFINE n == Len(acc)
           k == Len(segs)
<1>1. /\ n \in Nat /\ k \in Nat /\ segs \in Seq(SegmentType) /\ from \in Nat
      /\ segs # <<>> => k >= 1
      /\ segs = <<>> => k = 0
  BY LenProperties, EmptySeq DEF Covers
<1>2. /\ pushed \in Seq(SegmentType) /\ pushed # <<>> /\ Len(pushed) = k + 1
      /\ \A i \in 1 .. k : pushed[i] = segs[i]
      /\ pushed[k + 1] = seg
  BY <1>1, EmptySeq
<1>3. Start(seg) = n /\ End(seg) = n + 1 /\ seg.text # <<>> /\ Len(seg.text) = 1
      /\ seg.text[1] = n + 1
  BY <1>1 DEF Start, End
<1>4. IsRun(more, seg)
  BY <1>1, <1>3 DEF IsRun
<1>5. Covers(more, segs, from, n)
  BY <1>1, CoverKept
<1>6. ASSUME NEW i \in 1 .. k PROVE Start(pushed[i + 1]) = End(pushed[i])
  <2>1. CASE i = k
    BY <1>1, <1>2, <1>3, <2>1 DEF Covers
  <2>2. CASE i # k
    <3>1. i \in 1 .. k - 1 /\ i + 1 \in 1 .. k
      BY <1>1, <2>2
    <3>2. Start(segs[i + 1]) = End(segs[i])
      BY <3>1 DEF Covers
    <3>3. QED
      BY <1>2, <3>1, <3>2
  <2>3. QED
    BY <2>1, <2>2
<1>7. \A i \in 1 .. k + 1 : IsRun(more, pushed[i])
  BY <1>1, <1>2, <1>4, <1>5 DEF Covers
<1>8. /\ segs # <<>> => pushed[1] = segs[1] /\ Start(pushed[1]) = from
      /\ segs = <<>> => pushed[1] = seg /\ Start(pushed[1]) = from
  BY <1>1, <1>2, <1>3 DEF Covers
<1> HIDE DEF n, k
<1>9. Covers(more, pushed, from, n + 1)
  <2>1. /\ \A i \in 1 .. Len(pushed) : IsRun(more, pushed[i])
        /\ \A i \in 1 .. Len(pushed) - 1 : Start(pushed[i + 1]) = End(pushed[i])
    BY <1>1, <1>2, <1>6, <1>7
  <2>2. Start(pushed[1]) = from /\ End(pushed[Len(pushed)]) = n + 1
    BY <1>2, <1>3, <1>8
  <2>3. n + 1 \in Nat
    BY <1>1
  <2>4. QED
    BY <1>1, <1>2, <2>1, <2>2, <2>3 DEF Covers
<1>10. QED
  BY <1>8, <1>9 DEF n

\* Append merges a segment of one piece into the last one.
LEMMA CoverMerged ==
  ASSUME NEW acc \in Seq(Piece), NEW more \in Seq(Piece), NEW segs, NEW from,
         NEW seg \in SegmentType, NEW merged,
         Covers(acc, segs, from, Len(acc)), segs # <<>>,
         seg.text = <<Len(acc) + 1>>,
         Len(more) = Len(acc) + 1,
         \A i \in 1 .. Len(acc) : more[i] = acc[i],
         more[Len(acc) + 1].key = seg.key,
         segs[Len(segs)].key = seg.key,
         merged = [segs EXCEPT ![Len(segs)] = Merge(segs[Len(segs)], seg)]
  PROVE  /\ Covers(more, merged, from, Len(acc) + 1)
         /\ Start(merged[1]) = Start(segs[1])
         /\ merged # <<>>
<1> DEFINE n == Len(acc)
           k == Len(segs)
           last == segs[k]
           m == Len(last.text)
           grown == Merge(last, seg)
<1>1. /\ n \in Nat /\ k \in Nat /\ k >= 1 /\ segs \in Seq(SegmentType)
      /\ from \in Nat /\ last \in SegmentType /\ IsRun(acc, last)
      /\ End(last) = n /\ m \in Nat /\ m >= 1 /\ Start(last) \in Nat
  <2>1. n \in Nat /\ k \in Nat /\ k >= 1 /\ segs \in Seq(SegmentType)
        /\ from \in Nat
    BY LenProperties, EmptySeq DEF Covers
  <2>2. IsRun(acc, last) /\ End(last) = n
    BY <2>1 DEF Covers
  <2>3. last \in SegmentType /\ last.text \in Seq(Fragments) /\ last.text # <<>>
    BY <2>2 DEF IsRun, SegmentType
  <2>4. m \in Nat /\ m >= 1
    BY <2>3, EmptySeq, LenProperties
  <2>5. QED
    BY <2>1, <2>2, <2>3, <2>4 DEF IsRun
<1>2. Start(last) + m = n
  BY <1>1 DEF End
<1>3. grown \in SegmentType /\ grown.key = last.key
  BY <1>1, MergeType
<1>4. /\ Len(grown.text) = m + 1 /\ grown.text # <<>>
      /\ \A j \in 1 .. m : grown.text[j] = last.text[j]
      /\ grown.text[m + 1] = n + 1
  <2>1. grown.text = last.text \o seg.text
    BY DEF Merge
  <2>2. /\ last.text \in Seq(Fragments) /\ seg.text \in Seq(Fragments)
        /\ Len(seg.text) = 1 /\ seg.text[1] = n + 1
    <3>1. Len(seg.text) = 1 /\ seg.text[1] = Len(acc) + 1
      OBVIOUS
    <3>2. last.text \in Seq(Fragments) /\ seg.text \in Seq(Fragments)
      BY <1>1 DEF SegmentType
    <3>3. QED
      BY <3>1, <3>2
  <2>3. /\ grown.text \in Seq(Fragments) /\ Len(grown.text) = m + Len(seg.text)
        /\ \A i \in 1 .. m + Len(seg.text) : grown.text[i] =
             IF i <= m THEN last.text[i] ELSE seg.text[i - m]
    BY <2>1, <2>2, ConcatProperties
  <2> HIDE DEF m, grown, last, n
  <2>4. Len(grown.text) = m + 1 /\ grown.text # <<>>
    BY <1>1, <2>2, <2>3, EmptySeq
  <2>5. QED
    BY <1>1, <2>2, <2>3, <2>4
<1>5. Start(grown) = Start(last) /\ End(grown) = n + 1
  <2>1. grown.text[1] = last.text[1] /\ Len(grown.text) = m + 1
    BY <1>1, <1>4
  <2>2. Start(grown) = Start(last)
    BY <2>1 DEF Start
  <2>3. End(grown) = Start(last) + (m + 1)
    BY <2>1, <2>2 DEF End
  <2>4. Start(last) \in Nat /\ m \in Nat
    BY <1>1
  <2> HIDE DEF m, n, grown, last
  <2>5. QED
    BY <1>2, <2>2, <2>3, <2>4
<1>6. IsRun(more, grown)
  <2>1. ASSUME NEW j \in 1 .. m + 1 PROVE grown.text[j] = Start(grown) + j
    <3>1. CASE j = m + 1
      <4>1. grown.text[j] = n + 1 /\ Start(grown) + j = Start(last) + m + 1
        BY <1>4, <1>5, <1>1, <3>1
      <4> HIDE DEF m, n, grown, last
      <4>2. QED
        BY <1>1, <1>2, <4>1
    <3>2. CASE j # m + 1
      <4>1. m \in Nat /\ m = Len(last.text) /\ IsRun(acc, last)
        BY <1>1
      <4> HIDE DEF m, n, grown, last
      <4>2. j \in 1 .. m
        BY <3>2, <4>1
      <4>3. j \in 1 .. m /\ last.text[j] = Start(last) + j
        BY <4>1, <4>2 DEF IsRun
      <4>4. grown.text[j] = last.text[j]
        BY <1>4, <4>3
      <4>5. QED
        BY <1>5, <4>3, <4>4
    <3>3. QED
      BY <3>1, <3>2
  <2>2. ASSUME NEW i \in 1 .. Len(more), Start(grown) < i, i <= End(grown)
        PROVE  more[i].key = grown.key
    <3>1. CASE i = n + 1
      BY <1>3, <3>1
    <3>2. CASE i # n + 1
      <4>1. i \in 1 .. n
        BY <1>1, <3>2
      <4>2. Start(last) < i /\ i <= End(last)
        BY <1>1, <1>5, <2>2, <4>1
      <4>3. acc[i].key = last.key
        BY <1>1, <4>1, <4>2 DEF IsRun
      <4>4. QED
        BY <1>3, <4>1, <4>3
    <3>3. QED
      BY <3>1, <3>2
  <2>3. Start(grown) \in Nat /\ End(grown) <= Len(more)
    BY <1>1, <1>5
  <2> HIDE DEF m, grown, last, n
  <2>4. QED
    BY <1>3, <1>4, <2>1, <2>2, <2>3 DEF IsRun
<1>7. /\ merged \in Seq(SegmentType) /\ Len(merged) = k
      /\ \A j \in 1 .. k : merged[j] = IF j = k THEN grown ELSE segs[j]
  BY <1>1, <1>3, ExceptSeq
<1>8. merged # <<>>
  BY <1>1, <1>7, EmptySeq
<1> HIDE DEF grown
<1>9. Covers(more, segs, from, n)
  BY <1>1, CoverKept
<1>10. \A i \in 1 .. k : IsRun(more, merged[i])
  BY <1>6, <1>7, <1>9 DEF Covers
<1>11. \A i \in 1 .. k : Start(merged[i]) = Start(segs[i])
  BY <1>5, <1>7
<1>12. ASSUME NEW i \in 1 .. k - 1 PROVE Start(merged[i + 1]) = End(merged[i])
  <2>1. i \in 1 .. k /\ i + 1 \in 1 .. k /\ i # k
    BY <1>1
  <2>2. merged[i] = segs[i] /\ Start(segs[i + 1]) = End(segs[i])
    BY <1>7, <2>1 DEF Covers
  <2>3. QED
    BY <1>11, <2>1, <2>2
<1>13. Start(merged[1]) = from /\ End(merged[k]) = n + 1
  <2>1. 1 \in 1 .. k /\ k \in 1 .. k
    BY <1>1
  <2>2. Start(merged[1]) = Start(segs[1]) /\ merged[k] = grown
    BY <1>7, <1>11, <2>1
  <2>3. QED
    BY <1>5, <2>2 DEF Covers
<1> HIDE DEF n, k, last, m
<1>14. Covers(more, merged, from, n + 1)
  BY <1>1, <1>7, <1>8, <1>10, <1>12, <1>13 DEF Covers
<1>15. QED
  BY <1>1, <1>8, <1>11, <1>14 DEF n, k

\* Writing the first segment of a batch leaves the rest to be written.
LEMMA CoverTail ==
  ASSUME NEW acc \in Seq(Piece), NEW segs, NEW from, NEW to,
         Covers(acc, segs, from, to), segs # <<>>
  PROVE  /\ IsRun(acc, Head(segs)) /\ Start(Head(segs)) = from
         /\ Covers(acc, Tail(segs), End(Head(segs)), to)
         /\ Tail(segs) = <<>> => End(Head(segs)) = to
<1> DEFINE k == Len(segs)
           rest == Tail(segs)
<1>1. /\ segs \in Seq(SegmentType) /\ from \in Nat /\ to \in Nat
      /\ k \in Nat /\ k >= 1
      /\ Head(segs) = segs[1] /\ rest \in Seq(SegmentType)
      /\ Len(rest) = k - 1
      /\ \A i \in 1 .. k - 1 : rest[i] = segs[i + 1]
  BY HeadTail DEF Covers
<1>2. IsRun(acc, segs[1]) /\ Start(segs[1]) = from
  BY <1>1 DEF Covers
<1>3. End(segs[1]) \in Nat
  <2>1. Start(segs[1]) \in Nat /\ Len(segs[1].text) \in Nat
    BY <1>2, LenProperties DEF IsRun, SegmentType
  <2>2. QED
    BY <2>1 DEF End
<1>4. rest = <<>> => k = 1
  <2>1. rest = <<>> => Len(rest) = 0
    BY EmptySeq
  <2> HIDE DEF k, rest
  <2>2. QED
    BY <1>1, <2>1
<1>5. rest # <<>> => k >= 2
  <2>1. rest # <<>> => Len(rest) \in Nat \ {0}
    BY <1>1, EmptySeq
  <2> HIDE DEF k, rest
  <2>2. QED
    BY <1>1, <2>1
<1>6. rest = <<>> => End(segs[1]) = to
  BY <1>4, <1>1 DEF Covers
<1>7. /\ \A i \in 1 .. k : IsRun(acc, segs[i])
      /\ \A i \in 1 .. k - 1 : Start(segs[i + 1]) = End(segs[i])
      /\ End(segs[k]) = to
  BY DEF Covers
<1> HIDE DEF k, rest
<1>8. \A i \in 1 .. k - 1 : IsRun(acc, rest[i])
  BY <1>1, <1>7
<1>9. \A i \in 1 .. k - 2 : Start(rest[i + 1]) = End(rest[i])
  BY <1>1, <1>7
<1>10. rest # <<>> => Start(rest[1]) = End(segs[1]) /\ End(rest[k - 1]) = to
  BY <1>1, <1>5, <1>7
<1>11. Covers(acc, rest, End(segs[1]), to)
  BY <1>1, <1>3, <1>6, <1>8, <1>9, <1>10 DEF Covers
<1>12. QED
  BY <1>1, <1>2, <1>6, <1>11 DEF rest

\* What a segment's run looks like on the wire.
LEMMA RunIsSlice ==
  ASSUME NEW acc \in Seq(Piece), NEW s, IsRun(acc, s),
         \A i \in 1 .. Len(acc) : acc[i].frag = i
  PROVE  /\ RunOf(s) = SubSeq(acc, Start(s) + 1, End(s))
         /\ RunOf(s) \in Seq(Piece)
         /\ Start(s) < End(s) /\ Start(s) \in Nat /\ End(s) \in Nat
         /\ End(s) = Start(s) + Len(s.text)
<1> DEFINE m == Start(s)
           n == End(s)
           slice == SubSeq(acc, m + 1, n)
<1>1. /\ m \in Nat /\ n \in Nat /\ n = m + Len(s.text) /\ m < n
      /\ n <= Len(acc) /\ Len(acc) \in Nat
      /\ s.text \in Seq(Fragments) /\ DOMAIN s.text = 1 .. n - m
  <2>1. s.text \in Seq(Fragments) /\ s.text # <<>> /\ m \in Nat
    BY DEF IsRun, SegmentType
  <2>2. Len(s.text) \in Nat /\ Len(s.text) >= 1 /\ DOMAIN s.text = 1 .. Len(s.text)
    BY <2>1, LenProperties, EmptySeq
  <2>3. n = m + Len(s.text)
    BY DEF End
  <2>4. n <= Len(acc) /\ Len(acc) \in Nat
    BY LenProperties DEF IsRun
  <2> HIDE DEF m, n
  <2>5. QED
    BY <2>1, <2>2, <2>3, <2>4
<1>2. \A i \in 1 .. n - m : s.text[i] = m + i
  BY <1>1 DEF IsRun
<1>3. \A i \in m + 1 .. n : acc[i] \in Piece /\ acc[i].key = s.key /\ acc[i].frag = i
  <2>1. \A i \in m + 1 .. n : i \in 1 .. Len(acc) /\ m < i /\ i <= n
    BY <1>1
  <2>2. QED
    BY <2>1, ElementOfSeq DEF IsRun
<1> HIDE DEF m, n
<1>4. /\ slice \in Seq(Piece) /\ Len(slice) = n - m
      /\ \A i \in 1 .. n - m : slice[i] = acc[m + i]
  <2>1. /\ slice \in Seq(Piece)
        /\ Len(slice) = IF m + 1 <= n THEN n - (m + 1) + 1 ELSE 0
        /\ \A i \in 1 .. n - (m + 1) + 1 : slice[i] = acc[m + 1 + i - 1]
    BY <1>1, <1>3, SubSeqProperties
  <2> HIDE DEF slice
  <2>2. \A i \in 1 .. n - m : m + 1 + i - 1 = m + i
    BY <1>1
  <2>3. n - (m + 1) + 1 = n - m /\ m + 1 <= n
    BY <1>1
  <2>4. QED
    BY <2>1, <2>2, <2>3
<1> HIDE DEF slice
<1>5. DOMAIN slice = 1 .. n - m
  BY <1>4, LenProperties
<1>6. slice = [i \in 1 .. n - m |-> slice[i]]
  <2>1. slice \in [1 .. Len(slice) -> Piece]
    BY <1>4, LenProperties
  <2>2. QED
    BY <1>4, <2>1
<1>7. \A i \in 1 .. n - m : slice[i] = [key |-> s.key, frag |-> s.text[i]]
  <2>1. ASSUME NEW i \in 1 .. n - m
        PROVE  acc[m + i] = [key |-> s.key, frag |-> s.text[i]]
    <3>1. m + i \in m + 1 .. n
      BY <1>1
    <3>2. acc[m + i] \in Piece /\ acc[m + i].key = s.key /\ acc[m + i].frag = m + i
      BY <1>3, <3>1
    <3>3. s.text[i] = m + i
      BY <1>2
    <3>4. QED
      BY <3>2, <3>3 DEF Piece
  <2>2. QED
    BY <1>4, <2>1
<1>8. RunOf(s) = slice
  BY <1>1, <1>6, <1>7 DEF RunOf
<1>9. QED
  BY <1>1, <1>4, <1>8 DEF m, n, slice

-----------------------------------------------------------------------------
\* Counting the pieces a body event may stand for.
LEMMA TokensType ==
  ASSUME NEW acc, NEW n \in Nat
  PROVE  /\ IsFiniteSet(Counted(acc, n))
         /\ Tokens(acc, n) \in Nat /\ Tokens(acc, n) <= n
<1>1. IsFiniteSet(1 .. n) /\ Cardinality(1 .. n) = n
  BY FS_Interval
<1>2. Counted(acc, n) \subseteq 1 .. n
  BY DEF Counted
<1>3. QED
  BY <1>1, <1>2, FS_Subset, FS_CardinalityType DEF Tokens

\* More of the stream has at least as many of them, and one more when it ends
\* with one.
LEMMA TokensGrow ==
  ASSUME NEW acc, NEW m \in Nat, NEW n \in Nat, m <= n
  PROVE  /\ Tokens(acc, m) <= Tokens(acc, n)
         /\ m < n /\ acc[n].key \in Coalesceable =>
              Tokens(acc, m) + 1 <= Tokens(acc, n)
<1>1. IsFiniteSet(Counted(acc, m)) /\ IsFiniteSet(Counted(acc, n))
  BY TokensType
<1>2. Counted(acc, m) \subseteq Counted(acc, n)
  BY DEF Counted
<1>3. Tokens(acc, m) <= Tokens(acc, n)
  BY <1>1, <1>2, FS_Subset DEF Tokens
<1>4. ASSUME m < n, acc[n].key \in Coalesceable
      PROVE  Tokens(acc, m) + 1 <= Tokens(acc, n)
  <2> DEFINE more == Counted(acc, m) \cup {n}
  <2>1. n \notin Counted(acc, m) /\ more \subseteq Counted(acc, n)
    BY <1>2, <1>4 DEF Counted
  <2>2. IsFiniteSet(more) /\ Cardinality(more) = Cardinality(Counted(acc, m)) + 1
    BY <1>1, <2>1, FS_AddElement
  <2> HIDE DEF more
  <2>3. Cardinality(more) <= Cardinality(Counted(acc, n))
    BY <1>1, <2>1, FS_Subset
  <2>4. QED
    BY <2>2, <2>3 DEF Tokens
<1>5. QED
  BY <1>3, <1>4

\* Taking a piece counts it, and leaves the counts before it alone.
LEMMA TokensTaken ==
  ASSUME NEW acc \in Seq(Piece), NEW more \in Seq(Piece),
         Len(more) = Len(acc) + 1,
         \A i \in 1 .. Len(acc) : more[i] = acc[i]
  PROVE  /\ \A n \in 0 .. Len(acc) : Tokens(more, n) = Tokens(acc, n)
         /\ Tokens(more, Len(more)) =
              Tokens(acc, Len(acc)) +
                (IF more[Len(more)].key \in Coalesceable THEN 1 ELSE 0)
<1> DEFINE k == Len(acc)
<1>1. k \in Nat
  BY LenProperties
<1>2. ASSUME NEW n \in 0 .. k PROVE Tokens(more, n) = Tokens(acc, n)
  <2>1. \A i \in 1 .. n : more[i] = acc[i]
    BY <1>1
  <2>2. Counted(more, n) = Counted(acc, n)
    BY <2>1 DEF Counted
  <2>3. QED
    BY <2>2 DEF Tokens
<1> HIDE DEF k
<1>3. Tokens(more, k + 1) = Tokens(acc, k) +
        (IF more[k + 1].key \in Coalesceable THEN 1 ELSE 0)
  <2>1. /\ Tokens(more, k) = Tokens(acc, k) /\ IsFiniteSet(Counted(more, k))
        /\ Tokens(acc, k) \in Nat
    BY <1>1, <1>2, TokensType
  <2>2. CASE more[k + 1].key \in Coalesceable
    <3>1. /\ Counted(more, k + 1) = Counted(more, k) \cup {k + 1}
          /\ k + 1 \notin Counted(more, k)
      BY <1>1, <2>2 DEF Counted
    <3>2. QED
      BY <2>1, <2>2, <3>1, FS_AddElement DEF Tokens
  <2>3. CASE more[k + 1].key \notin Coalesceable
    <3>1. Counted(more, k + 1) = Counted(more, k)
      BY <1>1, <2>3 DEF Counted
    <3>2. QED
      BY <2>1, <2>3, <3>1 DEF Tokens
  <2>4. QED
    BY <2>2, <2>3
<1>4. QED
  BY <1>2, <1>3 DEF k

-----------------------------------------------------------------------------
\* What a call of the buffer may change in the session.

sessionVars == <<parsed, closeArg, totalTokens, usageTokens, mpc, stopMonitor,
              result, eventsOut, recorded, bodyClosed, client, sent, inflight>>

\* Append (buffer.go:69-127) in the reader: it is parked, or the segment is in
\* the buffer, or the reader is at its end.
LEMMA AppendStep ==
  ASSUME Inv, ReaderAppend \/ ReaderResume
  PROVE  /\ rpc = "append" /\ batch # <<>> /\ Head(batch) \in Admissible
         /\ BufferInv'
         /\ UNCHANGED <<sessionVars, wpc, closed, ctxDone, got>>
         /\ op'[Writer] = op[Writer]
         /\ \/ /\ op'[Reader] = "paused" /\ arg'[Reader] = Head(batch)
               /\ UNCHANGED <<segments, rpc, batch, accepted>>
            \/ /\ op'[Reader] = "idle" /\ rpc' = "segs" /\ batch' = Tail(batch)
               /\ accepted' = accepted \o RunOf(Head(batch))
               /\ ~closed
               /\ \/ segments' = Append(segments, Head(batch))
                  \/ /\ segments # <<>>
                     /\ segments[Len(segments)].key = Head(batch).key
                     /\ segments' = [segments EXCEPT ![Len(segments)] =
                                       Merge(segments[Len(segments)], Head(batch))]
            \/ /\ op'[Reader] = "idle" /\ rpc' = "done"
               /\ closed \/ Reader \in ctxDone
               /\ UNCHANGED <<segments, batch, accepted>>
<1> DEFINE seg == Head(batch)
<1>1. /\ rpc = "append" /\ batch # <<>> /\ batch \in Seq(SegmentType)
      /\ op[Reader] = "paused" => arg[Reader] = seg
  BY DEF Inv, ReaderInv, ReaderAppend, ReaderResume, AppendResume
<1>2. seg \in Admissible
  <2>1. Len(batch) >= 1 /\ Len(batch) \in Nat /\ seg = batch[1]
    BY <1>1, HeadTail
  <2>2. QED
    BY <2>1 DEF Inv, ReaderInv
<1>3. AppendCall(Reader, seg) \/ AppendResume(Reader)
  BY DEF ReaderAppend, ReaderResume
<1>4. BufferInv'
  BY <1>2, <1>3, Actors, AppendCallKeeps, AppendResumeKeeps DEF Inv
<1>5. /\ AfterAppend
      /\ UNCHANGED <<parsed, closeArg, totalTokens, usageTokens, mpc, stopMonitor,
                     wpc, result, eventsOut, recorded, bodyClosed, client, sent,
                     inflight>>
  BY DEF ReaderAppend, ReaderResume, AfterAppend, monitorVars, writerVars, written
<1>6. \/ AppendInsert(Reader, seg) /\ ~closed
      \/ AppendFail(Reader, "closed") /\ closed
      \/ AppendFail(Reader, "canceled") /\ Reader \in ctxDone
      \/ AppendPause(Reader, seg)
  BY <1>1, <1>3 DEF AppendCall, AppendResume, AppendPauseLoop
<1>7. /\ op \in [Goroutines -> {"idle", "paused", "waiting", "coalescing"}]
      /\ arg \in [Producers -> SegmentType \cup {NoSegment}]
      /\ ret \in [Producers -> {"none", "ok", "closed", "canceled"}]
      /\ Reader \in Goroutines /\ Writer \in Goroutines
      /\ Reader \in Producers /\ Reader # Writer
  BY Actors DEF Inv, BufferInv, BufferTypeOK
<1> HIDE DEF seg
<1>8. CASE AppendInsert(Reader, seg) /\ ~closed
  <2>1. /\ op' = [op EXCEPT ![Reader] = "idle"]
        /\ ret' = [ret EXCEPT ![Reader] = "ok"]
        /\ UNCHANGED <<closed, ctxDone, got>>
        /\ MergeIntoLast(seg) \/ PushSegment(seg)
    BY <1>8 DEF AppendInsert, Return, closing
  <2>2. op'[Reader] = "idle" /\ ret'[Reader] = "ok" /\ op'[Writer] = op[Writer]
    BY <1>7, <2>1
  <2>3. /\ rpc' = "segs" /\ batch' = Tail(batch)
        /\ accepted' = accepted \o RunOf(seg)
    BY <1>5, <2>2 DEF AfterAppend, seg
  <2>4. \/ segments' = Append(segments, seg)
        \/ /\ segments # <<>> /\ segments[Len(segments)].key = seg.key
           /\ segments' = [segments EXCEPT ![Len(segments)] =
                             Merge(segments[Len(segments)], seg)]
    BY <2>1 DEF MergeIntoLast, MergesIntoLast, PushSegment, CanMerge
  <2>5. QED
    BY <1>1, <1>2, <1>4, <1>5, <1>8, <2>1, <2>2, <2>3, <2>4 DEF seg, sessionVars
<1>9. ASSUME NEW r \in {"closed", "canceled"}, AppendFail(Reader, r),
             closed \/ Reader \in ctxDone
      PROVE  /\ op'[Reader] = "idle" /\ rpc' = "done" /\ op'[Writer] = op[Writer]
             /\ UNCHANGED <<segments, batch, accepted, closed, ctxDone, got>>
  <2>1. /\ op' = [op EXCEPT ![Reader] = "idle"]
        /\ ret' = [ret EXCEPT ![Reader] = r]
        /\ UNCHANGED <<segments, closed, ctxDone, got>>
    BY <1>9 DEF AppendFail, Return, closing, content
  <2>2. op'[Reader] = "idle" /\ ret'[Reader] # "ok" /\ op'[Writer] = op[Writer]
    BY <1>7, <2>1
  <2>3. QED
    BY <1>5, <2>1, <2>2 DEF AfterAppend
<1>10. CASE AppendPause(Reader, seg)
  <2>1. /\ op' = [op EXCEPT ![Reader] = "paused"]
        /\ arg' = [arg EXCEPT ![Reader] = seg]
        /\ UNCHANGED <<segments, closed, ctxDone, got>>
    BY <1>10 DEF AppendPause, closing, content
  <2>2. /\ op'[Reader] = "paused" /\ arg'[Reader] = seg
        /\ op'[Writer] = op[Writer]
    BY <1>7, <2>1
  <2>3. UNCHANGED <<rpc, batch, accepted>>
    BY <1>5, <2>2 DEF AfterAppend
  <2>4. QED
    BY <1>1, <1>2, <1>4, <1>5, <2>1, <2>2, <2>3 DEF seg, sessionVars
<1>11. QED
  BY <1>1, <1>2, <1>4, <1>5, <1>6, <1>8, <1>9, <1>10 DEF seg, sessionVars

\* Swap (buffer.go:129-190) in the writer: it is parked or in its select, or
\* it returned, with everything that was pending or with nothing.
LEMMA SwapStep ==
  ASSUME Inv,
         \/ WriterSwap \/ WriterResume \/ WriterTimer
         \/ WriterBarrier \/ WriterCancelled
  PROVE  /\ wpc = "swap" /\ BufferInv'
         /\ UNCHANGED <<sessionVars, rpc, batch, accepted, closed, ctxDone, arg>>
         /\ op'[Reader] = op[Reader]
         /\ \/ /\ wpc' = "swap" /\ UNCHANGED <<segments, got>>
            \/ /\ wpc' = "swapped" /\ op'[Writer] = "idle"
               /\ got'.segs = <<>> /\ got'.closed = closed
               /\ segments' = segments
            \/ /\ wpc' = "swapped" /\ op'[Writer] = "idle"
               /\ got'.segs = segments /\ got'.closed = closed
               /\ segments' = <<>>
<1>1. /\ op \in [Goroutines -> {"idle", "paused", "waiting", "coalescing"}]
      /\ Reader \in Goroutines /\ Writer \in Goroutines /\ Reader # Writer
  BY Actors DEF Inv, BufferInv, BufferTypeOK
<1>2. BufferInv'
  BY SwapKeeps, CoalesceKeeps
     DEF Inv, Writer, WriterSwap, WriterResume, WriterTimer, WriterBarrier,
         WriterCancelled
<1>3. wpc = "swap"
  BY DEF Inv, WriterInv, WriterSwap, WriterResume, WriterTimer, WriterBarrier,
         WriterCancelled, SwapResume, CoalesceTimer, CoalesceBarrier,
         CoalesceCancel
<1>4. AfterSwap /\ UNCHANGED <<sessionVars, rpc, batch, accepted>>
  BY DEF WriterSwap, WriterResume, WriterTimer, WriterBarrier, WriterCancelled,
         AfterSwap, readerVars, monitorVars, written, sessionVars
<1>5. \/ SwapPark(Writer) \/ SwapCoalesce(Writer) \/ SwapTake(Writer)
      \/ \E err : SwapReturnEmpty(Writer, err)
  BY DEF WriterSwap, WriterResume, WriterTimer, WriterBarrier, WriterCancelled,
         SwapCall, SwapResume, CoalesceTimer, CoalesceBarrier, CoalesceCancel,
         SwapBody, SwapAfterWait
<1>6. CASE SwapPark(Writer) \/ SwapCoalesce(Writer)
  <2>1. PICK where \in {"waiting", "coalescing"} : op' = [op EXCEPT ![Writer] = where]
    BY <1>6 DEF SwapPark, SwapCoalesce
  <2>2. UNCHANGED <<segments, got, closed, ctxDone, arg>>
    BY <1>6 DEF SwapPark, SwapCoalesce, closing, content
  <2>3. op'[Writer] # "idle" /\ op'[Reader] = op[Reader]
    BY <1>1, <2>1
  <2>4. QED
    BY <1>2, <1>3, <1>4, <2>2, <2>3 DEF AfterSwap
<1>7. CASE SwapTake(Writer)
  <2>1. /\ op' = [op EXCEPT ![Writer] = "idle"] /\ segments' = <<>>
        /\ got' = [segs |-> segments, closed |-> closed, err |-> upstreamErr]
        /\ UNCHANGED <<closed, ctxDone, arg>>
    BY <1>7 DEF SwapTake, closing
  <2>2. op'[Writer] = "idle" /\ op'[Reader] = op[Reader]
    BY <1>1, <2>1
  <2>3. got'.segs = segments /\ got'.closed = closed
    BY <2>1
  <2>4. QED
    BY <1>2, <1>3, <1>4, <2>1, <2>2, <2>3 DEF AfterSwap
<1>8. ASSUME NEW err, SwapReturnEmpty(Writer, err)
      PROVE  /\ op'[Writer] = "idle" /\ op'[Reader] = op[Reader]
             /\ got'.segs = <<>> /\ got'.closed = closed
             /\ UNCHANGED <<segments, closed, ctxDone, arg>>
  <2>1. /\ op' = [op EXCEPT ![Writer] = "idle"]
        /\ got' = [segs |-> <<>>, closed |-> closed, err |-> err]
        /\ UNCHANGED <<segments, closed, ctxDone, arg>>
    BY <1>8 DEF SwapReturnEmpty, closing, content
  <2>2. QED
    BY <1>1, <2>1
<1>9. QED
  BY <1>2, <1>3, <1>4, <1>5, <1>6, <1>7, <1>8 DEF AfterSwap

\* Close and a context that is done leave the calls and the content alone.
LEMMA CloseStep ==
  ASSUME NEW err, Close(err)
  PROVE  /\ UNCHANGED <<segments, ctxDone, op, arg, got>>
         /\ closed'
BY DEF Close, content, closing

\* A cancelled context changes nothing else.
LEMMA CancelStep ==
  ASSUME NEW gs, CancelContext(gs)
  PROVE  /\ UNCHANGED <<segments, closed, op, arg, got>>
         /\ ctxDone' = ctxDone \cup gs
BY DEF CancelContext, content, closing

\* The writer's own steps, and what they leave to the others.
Writing == WriterWrite \/ WriterWriteFails

\* All steps of the writer leave what was accepted and is pending.
LEMMA WriterLeaves ==
  ASSUME WriterSwapped \/ Writing \/ WriterCheck \/ WriterStop \/ WriterCancel
           \/ WriterClose \/ WriterRecord \/ WriterCloseBody
  PROVE  /\ UNCHANGED <<readerVars, mpc, accepted, segments, op, arg, got>>
         /\ (~ WriterClose => closed' = closed)
         /\ ctxDone' = ctxDone \/ ctxDone' = ctxDone \cup {Reader}
BY CloseStep, CancelStep
   DEF WriterSwapped, Writing, WriterWrite, WriterWriteFails, WriterCheck,
       WriterStop, WriterCancel, WriterClose, WriterRecord, WriterCloseBody,
       readerVars, monitorVars, bufferVars

\* Every step keeps what is proved of the buffer.
LEMMA BufferKept ==
  ASSUME Inv, [Next]_vars
  PROVE  BufferInv'
<1>1. BufferInv /\ closeArg \in Errors \cup {NoErr} /\ "canceled" \in Errors
  BY PipelineAssumption DEF Inv, ControlTypeOK
<1>2. {Reader} \in SUBSET Goroutines /\ {Writer} \in SUBSET Goroutines
  BY Actors
<1>3. CASE ReaderAppend \/ ReaderResume
  BY <1>3, AppendStep
<1>4. CASE WriterSwap \/ WriterResume \/ WriterTimer \/ WriterBarrier
             \/ WriterCancelled
  BY <1>4, SwapStep
<1>5. CASE ReaderClose \/ WriterClose \/ \E err \in Errors : Close(err)
  BY <1>1, <1>5, CloseKeeps DEF ReaderClose, WriterClose
<1>6. CASE \/ ClientCancel \/ PropagateCancel \/ WriterCancel
           \/ CancelContext({Reader})
  BY <1>1, <1>2, <1>6, CancelKeeps DEF ClientCancel, PropagateCancel, WriterCancel
<1>7. CASE UNCHANGED bufferVars
  BY <1>1, <1>7, StutterKeeps
<1>8. CASE MonitorStep
  BY <1>1, <1>5, <1>7, <1>8 DEF MonitorStep
<1>9. CASE WriterSwapped \/ WriterWriteFails
  BY <1>6, <1>7, <1>9 DEF WriterSwapped, WriterWriteFails
<1>10. CASE \/ ReaderCheck \/ ReaderRead \/ ReaderEOF \/ ReaderError
            \/ ReaderCount \/ ReaderEventDone
            \/ WriterWrite \/ WriterCheck \/ WriterStop \/ WriterRecord
            \/ WriterCloseBody \/ Terminated \/ UNCHANGED vars
  BY <1>7, <1>10
     DEF ReaderCheck, ReaderRead, ReaderEOF, ReaderError, ReaderEnd,
         ReaderCount, ReaderEventDone, WriterWrite, WriterCheck, WriterStop,
         WriterRecord, WriterCloseBody, Terminated, vars
<1>11. QED
  BY <1>3, <1>4, <1>5, <1>6, <1>8, <1>9, <1>10
     DEF Next, ReaderStep, WriterStep

\* The control state of the three goroutines keeps its type.
LEMMA ControlKept ==
  ASSUME Inv, [Next]_vars
  PROVE  ControlTypeOK'
<1> USE DEF ControlTypeOK
<1>1. ControlTypeOK /\ {"canceled", "reset"} \subseteq Errors /\ NoErr = "nil"
  BY PipelineAssumption DEF Inv
<1>2. got.err \in Errors \cup {NoErr}
  BY <1>1 DEF Inv, BufferInv, BufferTypeOK, SwapResult
<1>3. CASE ReaderAppend \/ ReaderResume
  BY <1>1, <1>3, AppendStep DEF sessionVars
<1>4. CASE WriterSwap \/ WriterResume \/ WriterTimer \/ WriterBarrier
             \/ WriterCancelled
  BY <1>1, <1>4, SwapStep DEF sessionVars
<1>5. CASE \/ ReaderCheck \/ ReaderRead \/ ReaderEOF \/ ReaderError
           \/ ReaderClose \/ ReaderCount \/ ReaderEventDone
  <2>1. /\ UNCHANGED <<mpc, stopMonitor, wpc, result, bodyClosed>>
        /\ rpc' \in {"check", "read", "segs", "append", "closing", "done"}
        /\ closeArg' \in Errors \cup {NoErr}
    <3>1. CASE ReaderCheck \/ ReaderRead \/ ReaderEOF \/ ReaderError
      BY <1>1, <3>1
         DEF ReaderCheck, ReaderRead, ReaderEOF, ReaderError, ReaderEnd,
             monitorVars, writerVars
    <3>2. CASE ReaderClose \/ ReaderCount \/ ReaderEventDone
      BY <1>1, <3>2
         DEF ReaderClose, ReaderCount, ReaderEventDone, monitorVars, writerVars
    <3> QED BY <1>5, <3>1, <3>2
  <2> QED BY <1>1, <2>1
<1>6. CASE MonitorStep \/ ClientCancel \/ PropagateCancel
  <2>1. /\ UNCHANGED <<rpc, closeArg, stopMonitor, wpc, result, bodyClosed>>
        /\ mpc' = mpc \/ mpc' \in {"closing", "done"}
    BY <1>6
       DEF MonitorStep, ClientCancel, PropagateCancel, readerVars, monitorVars,
           writerVars
  <2>2. mpc' \in {"select", "closing", "done"}
    BY <1>1, <2>1
  <2>3. /\ rpc' = rpc /\ closeArg' = closeArg /\ stopMonitor' = stopMonitor
        /\ wpc' = wpc /\ result' = result /\ bodyClosed' = bodyClosed
    BY <2>1
  <2>4. QED
    BY <1>1, <2>2, <2>3
<1>7. CASE WriterSwapped
  BY <1>1, <1>2, <1>7 DEF WriterSwapped, readerVars, monitorVars
<1>8. CASE \/ WriterWrite \/ WriterWriteFails \/ WriterCheck \/ WriterStop
           \/ WriterCancel \/ WriterClose \/ WriterRecord \/ WriterCloseBody
  BY <1>1, <1>8
     DEF WriterWrite, WriterWriteFails, WriterCheck, WriterStop, WriterCancel,
         WriterClose, WriterRecord, WriterCloseBody, readerVars, monitorVars
<1>9. CASE Terminated \/ UNCHANGED vars
  BY <1>1, <1>9 DEF Terminated, vars, readerVars, monitorVars, writerVars
<1>10. QED
  BY <1>3, <1>4, <1>5, <1>6, <1>7, <1>8, <1>9 DEF Next, ReaderStep, WriterStep

\* The reader's event and what the buffer took are the stream up to parsed.
LEMMA ReaderKept ==
  ASSUME Inv, [Next]_vars
  PROVE  ReaderInv'
<1>1. ReaderInv /\ Len(accepted) \in Nat /\ Len(batch) \in Nat
      /\ MaxFragments \in Nat
  BY PipelineAssumption, LenProperties DEF Inv, ReaderInv
<1>2. ASSUME UNCHANGED <<batch, parsed, accepted, rpc, op, arg>>
      PROVE  ReaderInv'
  BY <1>1, <1>2 DEF ReaderInv
<1>3. CASE ReaderAppend \/ ReaderResume
  <2>1. parsed' = parsed /\ rpc = "append"
    BY <1>3, AppendStep DEF sessionVars
  <2>2. CASE /\ op'[Reader] = "paused" /\ arg'[Reader] = Head(batch)
             /\ UNCHANGED <<segments, rpc, batch, accepted>>
    BY <1>1, <2>1, <2>2 DEF ReaderInv
  <2>3. CASE /\ op'[Reader] = "idle" /\ rpc' = "done"
             /\ UNCHANGED <<segments, batch, accepted>>
    BY <1>1, <2>1, <2>3 DEF ReaderInv
  <2>4. CASE /\ op'[Reader] = "idle" /\ rpc' = "segs" /\ batch' = Tail(batch)
             /\ accepted' = accepted \o RunOf(Head(batch))
    <3> DEFINE n == Len(accepted)
               k == Len(batch)
               seg == Head(batch)
    <3>1. /\ batch # <<>> /\ batch \in Seq(SegmentType) /\ accepted \in Seq(Piece)
      BY <1>3, AppendStep DEF Inv, ReaderInv
    <3>2. /\ k >= 1 /\ seg = batch[1] /\ Tail(batch) \in Seq(SegmentType)
          /\ Len(Tail(batch)) = k - 1
          /\ \A i \in 1 .. k - 1 : Tail(batch)[i] = batch[i + 1]
      BY <3>1, HeadTail
    <3>3. seg \in SegmentType /\ seg.text = <<n + 1>>
      BY <1>1, <3>2 DEF ReaderInv, Admissible
    <3>4. /\ accepted' \in Seq(Piece) /\ Len(accepted') = n + 1
          /\ \A i \in 1 .. n : accepted'[i] = accepted[i]
          /\ accepted'[n + 1].frag = n + 1
      BY <2>4, <3>1, <3>3, TakePiece
    <3>5. /\ \A i \in 1 .. k : batch[i] \in Admissible /\ batch[i].text = <<n + i>>
          /\ n = parsed - k /\ k <= parsed /\ parsed \in 0 .. MaxFragments
          /\ \A i \in 1 .. n : accepted[i].frag = i
      BY <1>1 DEF ReaderInv
    <3>6. /\ batch' \in Seq(SegmentType) /\ Len(batch') = k - 1
          /\ \A i \in 1 .. k - 1 : batch'[i] = batch[i + 1]
      BY <2>4, <3>2
    <3>7. n \in Nat /\ k \in Nat
      BY <1>1
    <3> HIDE DEF n, k, seg
    <3>8. ASSUME NEW i \in 1 .. k - 1
          PROVE  batch'[i] \in Admissible /\ batch'[i].text = <<(n + 1) + i>>
      <4>1. i + 1 \in 1 .. k /\ n + (i + 1) = (n + 1) + i
        BY <3>7
      <4>2. QED
        BY <3>5, <3>6, <4>1
    <3>9. ASSUME NEW i \in 1 .. n + 1 PROVE accepted'[i].frag = i
      <4>1. i \in 1 .. n \/ i = n + 1
        BY <3>7
      <4>2. CASE i \in 1 .. n
        <5>1. accepted'[i] = accepted[i] /\ accepted[i].frag = i
          BY <3>4, <3>5, <4>2
        <5>2. QED
          BY <5>1
      <4>3. CASE i = n + 1
        BY <3>4, <4>3
      <4>4. QED
        BY <4>1, <4>2, <4>3
    <3>10. k - 1 <= parsed /\ n + 1 = parsed - (k - 1) /\ parsed' = parsed
      BY <2>1, <3>5, <3>7
    <3>11. /\ rpc' \notin {"check", "read", "closing", "append"}
           /\ op'[Reader] # "paused"
      BY <2>4
    <3>12. QED
      BY <3>4, <3>5, <3>6, <3>8, <3>9, <3>10, <3>11 DEF ReaderInv
  <2>5. QED
    BY <1>3, <2>2, <2>3, <2>4, AppendStep
<1>4. CASE WriterSwap \/ WriterResume \/ WriterTimer \/ WriterBarrier
             \/ WriterCancelled
  BY <1>1, <1>4, SwapStep DEF sessionVars, ReaderInv
<1>5. CASE ReaderCheck \/ ReaderEOF \/ ReaderError \/ ReaderClose
             \/ ReaderCount \/ ReaderEventDone
  <2>1. UNCHANGED <<batch, parsed, accepted, op, arg>>
    BY <1>5, CloseStep
       DEF ReaderCheck, ReaderEOF, ReaderError, ReaderEnd, ReaderClose,
           ReaderCount, ReaderEventDone, bufferVars
  <2>2. /\ rpc \in {"check", "read", "segs", "closing"}
        /\ rpc' \in {"check", "read", "closing"} => batch = <<>>
        /\ rpc' = "append" => batch # <<>>
    BY <1>1, <1>5
       DEF ReaderCheck, ReaderEOF, ReaderError, ReaderEnd, ReaderClose,
           ReaderCount, ReaderEventDone, ReaderInv
  <2>3. QED
    BY <1>1, <2>1, <2>2 DEF ReaderInv
<1>6. CASE ReaderRead
  <2>1. PICK event \in Events :
          /\ rpc = "read"
          /\ parsed + Len(event) <= MaxFragments
          /\ batch' = [i \in DOMAIN event |->
                         [key |-> event[i].key, calls |-> event[i].calls,
                          text |-> <<parsed + i>>, size |-> event[i].size]]
          /\ parsed' = parsed + Len(event)
          /\ rpc' = "segs"
    BY <1>6 DEF ReaderRead
  <2>2. UNCHANGED <<accepted, op, arg>>
    BY <1>6 DEF ReaderRead, bufferVars
  <2> DEFINE k == Len(event)
             Shape == [key : Keys, calls : SUBSET Call, size : Nat]
  <2>3. /\ event \in Seq(Shape) /\ k \in Nat /\ DOMAIN event = 1 .. k
        /\ \A i \in 1 .. k : event[i] \in Shape
        /\ \A i \in 1 .. k : event[i].size + Overhead[event[i].key] <= MaxSegmentBytes
    <3>1. event \in Seq(Shape)
      BY PipelineAssumption
    <3>2. k \in Nat /\ DOMAIN event = 1 .. k
      BY <3>1, LenProperties
    <3>3. \A i \in 1 .. k : event[i] \in Shape
      BY <3>1, ElementOfSeq
    <3>4. QED
      BY <3>1, <3>2, <3>3, PipelineAssumption
  <2>4. batch = <<>> /\ Len(batch) = 0 /\ parsed \in Nat /\ Len(accepted) = parsed
    <3>1. batch = <<>>
      BY <1>1, <2>1 DEF ReaderInv
    <3>2. Len(batch) = 0
      BY <3>1, EmptySeq
    <3>3. parsed \in Nat /\ Len(accepted) = parsed - Len(batch)
      BY <1>1 DEF ReaderInv
    <3>4. QED
      BY <3>1, <3>2, <3>3
  <2> HIDE DEF k, Shape
  <2>5. /\ DOMAIN batch' = 1 .. k
        /\ \A i \in 1 .. k :
             batch'[i] = [key |-> event[i].key, calls |-> event[i].calls,
                          text |-> <<parsed + i>>, size |-> event[i].size]
    BY <2>1, <2>3
  <2>6. ASSUME NEW i \in 1 .. k
        PROVE  batch'[i] \in Admissible /\ batch'[i].text = <<parsed + i>>
    <3>1. parsed + i \in Fragments
      BY <2>1, <2>3, <2>4, PipelineAssumption DEF k
    <3> DEFINE t == <<parsed + i>>
    <3>2. /\ t \in Seq(Fragments)
          /\ batch'[i] = [key |-> event[i].key, calls |-> event[i].calls,
                          text |-> t, size |-> event[i].size]
      BY <2>5, <3>1
    <3> HIDE DEF t
    <3>3. /\ event[i].key \in Keys /\ event[i].calls \in SUBSET Call
          /\ event[i].size \in Nat
      BY <2>3 DEF Shape
    <3>4. batch'[i] \in SegmentType
      BY <3>2, <3>3 DEF SegmentType
    <3>5. BytesLen(batch'[i]) <= MaxSegmentBytes
      BY <2>3, <3>2 DEF BytesLen
    <3>6. QED
      BY <2>5, <3>4, <3>5 DEF Admissible
  <2>7. batch' = [i \in 1 .. k |-> batch'[i]] /\ batch' \in Seq(SegmentType)
    <3>1. batch' = [i \in 1 .. k |-> batch'[i]]
      BY <2>1, <2>5
    <3>2. \A i \in 1 .. k : batch'[i] \in SegmentType
      BY <2>6 DEF Admissible
    <3>3. batch' \in [1 .. k -> SegmentType]
      BY <3>1, <3>2
    <3>4. QED
      BY <2>3, <3>1, <3>3, SeqDef
  <2>8. Len(batch') = k
    <3>1. Len(batch') \in Nat /\ DOMAIN batch' = 1 .. Len(batch')
      BY <2>7, LenProperties
    <3>2. QED
      BY <2>3, <2>5, <3>1
  <2>9. /\ parsed' \in 0 .. MaxFragments /\ k <= parsed'
        /\ Len(accepted) = parsed' - k
    BY <1>1, <2>1, <2>3, <2>4 DEF k
  <2>10. op'[Reader] # "paused" /\ rpc' = "segs"
    BY <1>1, <2>1, <2>2 DEF ReaderInv
  <2>11. accepted \in Seq(Piece) /\ \A i \in 1 .. Len(accepted) : accepted[i].frag = i
    BY <1>1 DEF ReaderInv
  <2>12. QED
    BY <2>2, <2>4, <2>6, <2>7, <2>8, <2>9, <2>10, <2>11 DEF ReaderInv
<1>7. CASE MonitorStep \/ ClientCancel \/ PropagateCancel
  <2>1. UNCHANGED <<batch, parsed, accepted, rpc, op, arg>>
    BY <1>7, CloseStep, CancelStep
       DEF MonitorStep, ClientCancel, PropagateCancel, readerVars, bufferVars
  <2>2. QED
    BY <1>2, <2>1
<1>8. CASE WriterSwapped \/ Writing \/ WriterCheck \/ WriterStop \/ WriterCancel
             \/ WriterClose \/ WriterRecord \/ WriterCloseBody
  BY <1>2, <1>8, WriterLeaves DEF readerVars
<1>9. CASE Terminated \/ UNCHANGED vars
  BY <1>2, <1>9 DEF Terminated, vars, readerVars, bufferVars
<1>10. QED
  BY <1>3, <1>4, <1>5, <1>6, <1>7, <1>8, <1>9 DEF Next, ReaderStep, WriterStep, Writing

\* What the buffer took is written, in flight or pending, in its order.
LEMMA WriterKept ==
  ASSUME Inv, [Next]_vars
  PROVE  WriterInv'
<1>1. /\ WriterInv /\ accepted \in Seq(Piece) /\ Len(accepted) \in Nat
      /\ \A i \in 1 .. Len(accepted) : accepted[i].frag = i
  BY LenProperties DEF Inv, ReaderInv
<1>2. ASSUME UNCHANGED <<segments, accepted, client, sent, got, inflight>>,
             op'[Writer] = op[Writer], wpc' = wpc
      PROVE  WriterInv'
  BY <1>1, <1>2 DEF WriterInv, Taken
<1>3. CASE ReaderAppend \/ ReaderResume
  <2>1. /\ UNCHANGED <<client, sent, got, inflight, wpc>>
        /\ op'[Writer] = op[Writer]
    BY <1>3, AppendStep DEF sessionVars
  <2>2. CASE UNCHANGED <<segments, accepted>>
    BY <1>2, <2>1, <2>2
  <2>3. CASE /\ accepted' = accepted \o RunOf(Head(batch))
             /\ \/ segments' = Append(segments, Head(batch))
                \/ /\ segments # <<>>
                   /\ segments[Len(segments)].key = Head(batch).key
                   /\ segments' = [segments EXCEPT ![Len(segments)] =
                                     Merge(segments[Len(segments)], Head(batch))]
    <3> DEFINE n == Len(accepted)
               seg == Head(batch)
    <3>1. seg \in SegmentType /\ seg.text = <<n + 1>>
      <4>1. batch # <<>> /\ batch \in Seq(SegmentType)
        BY <1>3, AppendStep DEF Inv, ReaderInv
      <4>2. 1 \in 1 .. Len(batch) /\ seg = batch[1]
        BY <4>1, HeadTail
      <4>3. QED
        BY <4>2 DEF Inv, ReaderInv, Admissible
    <3>2. /\ accepted' \in Seq(Piece) /\ Len(accepted') = n + 1
          /\ \A i \in 1 .. n : accepted'[i] = accepted[i]
          /\ accepted'[n + 1].key = seg.key
      BY <1>1, <2>3, <3>1, TakePiece
    <3>3. Covers(accepted, segments, Taken, n)
      BY <1>1 DEF WriterInv
    <3>4. /\ Covers(accepted', segments', Taken, n + 1)
          /\ segments # <<>> => Start(segments'[1]) = Start(segments[1])
          /\ segments = <<>> => segments'[1] = seg
          /\ segments' # <<>>
      <4>1. CASE segments' = Append(segments, seg)
        <5>1. /\ Covers(accepted', segments', Taken, n + 1)
              /\ segments # <<>> => segments'[1] = segments[1]
              /\ segments = <<>> => segments'[1] = seg
          <6>1. /\ segments' \in Seq(SegmentType)
                /\ Len(segments') = Len(segments) + 1
                /\ \A i \in 1 .. Len(segments) : segments'[i] = segments[i]
                /\ segments'[Len(segments) + 1] = seg
            BY <3>1, <3>3, <4>1, AppendProperties DEF Covers
          <6> HIDE DEF seg
          <6>2. QED
            BY <1>1, <3>1, <3>2, <3>3, <6>1, CoverPushed, SMTT(30)
        <5>2. segments' # <<>>
          BY <3>1, <3>3, <4>1, AppendProperties DEF Covers
        <5>3. QED
          BY <5>1, <5>2
      <4>2. CASE /\ segments # <<>> /\ segments[Len(segments)].key = seg.key
                 /\ segments' = [segments EXCEPT ![Len(segments)] =
                                   Merge(segments[Len(segments)], seg)]
        BY <1>1, <3>1, <3>2, <3>3, <4>2, CoverMerged
      <4>3. QED
        BY <2>3, <4>1, <4>2
    <3>5. Taken' = Taken
      <4>1. CASE segments # <<>>
        BY <3>4, <4>1 DEF Taken
      <4>2. CASE segments = <<>>
        <5>1. Start(seg) = n
          BY <1>1, <3>1 DEF Start
        <5>2. QED
          BY <3>4, <4>2, <5>1 DEF Taken
      <4>3. QED
        BY <4>1, <4>2
    <3> HIDE DEF n, seg
    <3>6. Covers(accepted', segments', Taken', Len(accepted'))
      BY <3>2, <3>4, <3>5
    <3>7. \A segs : Covers(accepted, segs, sent, Taken)
                      => Covers(accepted', segs, sent, Taken)
      BY <1>1, <3>2, CoverKept DEF n
    <3>8. sent' \in 0 .. Len(accepted')
      BY <1>1, <2>1, <3>2 DEF WriterInv, n
    <3>9. QED
      BY <1>1, <2>1, <3>5, <3>6, <3>7, <3>8 DEF WriterInv
  <2>4. QED
    BY <1>3, <2>2, <2>3, AppendStep
<1>4. CASE WriterSwap \/ WriterResume \/ WriterTimer \/ WriterBarrier
             \/ WriterCancelled
  <2>1. /\ UNCHANGED <<client, sent, inflight, accepted>> /\ wpc = "swap"
        /\ sent = Taken /\ sent \in Nat
    BY <1>1, <1>4, SwapStep DEF sessionVars, WriterInv
  <2>2. CASE wpc' = "swap" /\ UNCHANGED <<segments, got>>
    BY <1>1, <2>1, <2>2 DEF WriterInv, Taken
  <2>3. CASE /\ wpc' = "swapped" /\ op'[Writer] = "idle"
             /\ got'.segs = <<>> /\ segments' = segments
    <3>1. Covers(accepted, <<>>, sent, Taken)
      BY <2>1, EmptySeq DEF Covers
    <3>2. QED
      BY <1>1, <2>1, <2>3, <3>1 DEF WriterInv, Taken
  <2>4. CASE /\ wpc' = "swapped" /\ op'[Writer] = "idle"
             /\ got'.segs = segments /\ segments' = <<>>
    <3>1. Covers(accepted, segments, sent, Len(accepted))
      BY <1>1, <2>1 DEF WriterInv
    <3>2. Taken' = Len(accepted)
      BY <2>1, <2>4 DEF Taken
    <3>3. Covers(accepted, <<>>, Len(accepted), Len(accepted))
      BY <1>1, EmptySeq DEF Covers
    <3>4. QED
      BY <1>1, <2>1, <2>4, <3>1, <3>2, <3>3 DEF WriterInv
  <2>5. QED
    BY <1>4, <2>2, <2>3, <2>4, SwapStep
<1>5. CASE \/ ReaderCheck \/ ReaderRead \/ ReaderEOF \/ ReaderError
           \/ ReaderClose \/ ReaderCount \/ ReaderEventDone
           \/ MonitorStep \/ ClientCancel \/ PropagateCancel
  <2>1. UNCHANGED <<segments, accepted, client, sent, got, inflight, op, wpc>>
    BY <1>5, CloseStep, CancelStep
       DEF ReaderCheck, ReaderRead, ReaderEOF, ReaderError, ReaderEnd,
           ReaderClose, ReaderCount, ReaderEventDone, MonitorStep, ClientCancel,
           PropagateCancel, writerVars, written, bufferVars
  <2>2. QED
    BY <1>2, <2>1
<1>6. CASE WriterSwapped
  <2>1. /\ wpc = "swapped" /\ Covers(accepted, got.segs, sent, Taken)
        /\ op[Writer] = "idle"
    BY <1>1, <1>6 DEF WriterSwapped, WriterInv
  <2>2. /\ UNCHANGED <<segments, accepted, client, sent, got, op>>
    BY <1>6, WriterLeaves DEF WriterSwapped, written
  <2>3. \/ wpc' = "stop" /\ inflight' = inflight
        \/ wpc' = "check" /\ inflight' = inflight /\ got.segs = <<>>
        \/ wpc' = "write" /\ inflight' = got.segs /\ got.segs # <<>>
    BY <1>6 DEF WriterSwapped
  <2>4. got.segs = <<>> => sent = Taken
    BY <2>1 DEF Covers
  <2>5. got.segs \in Seq(SegmentType)
    BY <2>1 DEF Covers
  <2>6. QED
    BY <1>1, <2>1, <2>2, <2>3, <2>4, <2>5 DEF WriterInv, Taken
<1>7. CASE WriterWrite
  <2> DEFINE seg == Head(inflight)
  <2>1. /\ wpc = "write" /\ inflight # <<>> /\ op[Writer] = "idle"
        /\ Covers(accepted, inflight, sent, Taken)
    BY <1>1, <1>7 DEF WriterWrite, WriterInv
  <2>2. /\ UNCHANGED <<segments, accepted, got, op>>
    BY <1>7, WriterLeaves DEF Writing
  <2>3. /\ inflight' = Tail(inflight) /\ client' = Append(client, RunOf(seg))
        /\ sent' = sent + Len(seg.text)
        /\ wpc' = IF Tail(inflight) = <<>> THEN "check" ELSE "write"
    BY <1>7 DEF WriterWrite
  <2>4. /\ IsRun(accepted, seg) /\ Start(seg) = sent
        /\ Covers(accepted, Tail(inflight), End(seg), Taken)
        /\ Tail(inflight) = <<>> => End(seg) = Taken
    BY <1>1, <2>1, CoverTail
  <2>5. /\ RunOf(seg) \in Seq(Piece) /\ End(seg) = sent' /\ End(seg) \in Nat
    BY <1>1, <2>3, <2>4, RunIsSlice
  <2>6. client' \in Seq(Seq(Piece))
    BY <1>1, <2>3, <2>5, AppendProperties DEF WriterInv
  <2>7. sent' \in 0 .. Len(accepted)
    BY <1>1, <2>4, <2>5 DEF IsRun
  <2>8. inflight' \in Seq(SegmentType)
    BY <2>3, <2>4 DEF Covers
  <2> HIDE DEF seg
  <2>9. QED
    BY <1>1, <2>1, <2>2, <2>3, <2>4, <2>5, <2>6, <2>7, <2>8 DEF WriterInv, Taken
<1>8. CASE \/ WriterWriteFails \/ WriterCheck \/ WriterStop \/ WriterCancel
           \/ WriterClose \/ WriterRecord \/ WriterCloseBody
  <2>1. UNCHANGED <<segments, accepted, client, sent, got, inflight, op>>
    BY <1>8, WriterLeaves
       DEF Writing, WriterWriteFails, WriterCheck, WriterStop, WriterCancel,
           WriterClose, WriterRecord, WriterCloseBody, written
  <2>2. /\ wpc # "swap"
        /\ \/ wpc = "check" /\ wpc' \in {"swap", "stop"}
           \/ wpc' \in {"stop", "cancel", "close", "record", "body", "returned"}
    BY <1>8
       DEF WriterWriteFails, WriterCheck, WriterStop, WriterCancel,
           WriterClose, WriterRecord, WriterCloseBody
  <2>3. QED
    BY <1>1, <2>1, <2>2 DEF WriterInv, Taken
<1>9. CASE Terminated \/ UNCHANGED vars
  BY <1>2, <1>9 DEF Terminated, vars, writerVars, written, bufferVars
<1>10. QED
  BY <1>3, <1>4, <1>5, <1>6, <1>7, <1>8, <1>9 DEF Next, ReaderStep, WriterStep

\* The buffer is closed by the reader at the end of the stream, or because
\* the session is over or the client is gone.
LEMMA EndKept ==
  ASSUME Inv, [Next]_vars
  PROVE  EndInv'
<1>1. /\ EndInv /\ got.closed \in BOOLEAN /\ closed \in BOOLEAN
      /\ ctxDone \subseteq Goroutines /\ Reader # Writer
      /\ rpc = "closing" => batch = <<>>
      /\ result \in Errors \cup {"none", "nil", "write error"}
      /\ "none" \notin Errors /\ "nil" \notin Errors /\ NoErr = "nil"
      /\ "canceled" \in Errors
  BY Actors, PipelineAssumption, BufferAssumption
     DEF Inv, BufferInv, BufferTypeOK, SwapResult, ReaderInv, ControlTypeOK
<1>2. ASSUME UNCHANGED <<segments, accepted, sent, rpc, batch, wpc, result,
                         mpc, ctxDone, got, closed>>
      PROVE  EndInv'
  BY <1>1, <1>2 DEF EndInv, Returned
<1>3. CASE ReaderAppend \/ ReaderResume
  <2>1. /\ rpc = "append"
        /\ UNCHANGED <<wpc, result, mpc, ctxDone, got, closed, sent>>
    BY <1>3, AppendStep DEF sessionVars
  <2>2. CASE UNCHANGED <<segments, rpc, batch, accepted>>
    BY <1>2, <2>1, <2>2
  <2>3. CASE ~closed
    BY <1>1, <2>1, <2>3 DEF EndInv, Returned
  <2>4. CASE /\ UNCHANGED <<segments, batch, accepted>>
             /\ closed \/ Reader \in ctxDone
    BY <1>1, <2>1, <2>4 DEF EndInv, Returned
  <2>5. QED
    BY <1>3, <2>2, <2>3, <2>4, AppendStep
<1>4. CASE WriterSwap \/ WriterResume \/ WriterTimer \/ WriterBarrier
             \/ WriterCancelled
  <2>1. /\ wpc = "swap" /\ wpc' \in {"swap", "swapped"}
        /\ UNCHANGED <<result, mpc, ctxDone, closed, rpc, batch>>
        /\ got' = got \/ got'.closed = closed
    BY <1>4, SwapStep DEF sessionVars
  <2>2. result = "none"
    BY <1>1, <2>1 DEF EndInv, Returned
  <2>3. QED
    BY <1>1, <2>1, <2>2 DEF EndInv, Returned
<1>5. CASE \/ ReaderCheck \/ ReaderRead \/ ReaderEOF \/ ReaderError
           \/ ReaderCount \/ ReaderEventDone
  <2>1. /\ rpc # "done"
        /\ UNCHANGED <<segments, accepted, sent, wpc, result, mpc, ctxDone, got,
                       closed>>
    BY <1>5
       DEF ReaderCheck, ReaderRead, ReaderEOF, ReaderError, ReaderEnd,
           ReaderCount, ReaderEventDone, monitorVars, writerVars, written,
           bufferVars
  <2>2. QED
    BY <1>1, <2>1 DEF EndInv, Returned
<1>6. CASE ReaderClose
  <2>1. /\ rpc = "closing" /\ rpc' = "done" /\ batch' = batch /\ closed'
        /\ UNCHANGED <<segments, accepted, sent, wpc, result, mpc, ctxDone, got>>
    BY <1>6, CloseStep DEF ReaderClose, monitorVars, writerVars, written
  <2>2. QED
    BY <1>1, <2>1 DEF EndInv, Returned
<1>7. CASE MonitorStep
  <2>1. UNCHANGED <<segments, accepted, sent, rpc, batch, wpc, result,
                    ctxDone, got>>
    BY <1>7, CloseStep
       DEF MonitorStep, readerVars, writerVars, written, bufferVars
  <2>2. \/ Reader \in ctxDone /\ closed' = closed
        \/ mpc' = "done" /\ closed' = closed
        \/ mpc = "closing" /\ mpc' = "done" /\ closed'
    BY <1>7, CloseStep DEF MonitorStep, bufferVars
  <2>3. CASE closed' = closed /\ (Reader \in ctxDone \/ mpc' = "done")
    BY <1>1, <2>1, <2>3 DEF EndInv, Returned
  <2>4. CASE mpc = "closing" /\ mpc' = "done" /\ closed'
    <3>1. Reader \in ctxDone
      BY <1>1, <2>4 DEF EndInv
    <3>2. QED
      BY <1>1, <2>1, <2>4, <3>1 DEF EndInv, Returned
  <2>5. QED
    BY <2>2, <2>3, <2>4
<1>8. CASE ClientCancel \/ PropagateCancel
  <2>1. UNCHANGED <<segments, accepted, sent, rpc, batch, wpc, result, mpc,
                    got, closed>>
    BY <1>8, CancelStep
       DEF ClientCancel, PropagateCancel, readerVars, monitorVars, writerVars,
           written
  <2>2. /\ Writer \in ctxDone'
        /\ Reader \in ctxDone => Reader \in ctxDone'
    BY <1>8, CancelStep DEF ClientCancel, PropagateCancel
  <2>3. QED
    BY <1>1, <2>1, <2>2 DEF EndInv, Returned
<1>9. CASE WriterSwapped \/ Writing
  <2>1. /\ UNCHANGED <<rpc, batch, mpc, got, closed>>
        /\ ctxDone' = ctxDone \/ ctxDone' = ctxDone \cup {Reader}
        /\ result = "none"
    BY <1>1, <1>9, WriterLeaves
       DEF WriterSwapped, Writing, WriterWrite, WriterWriteFails, WriterClose,
           readerVars, EndInv, Returned
  <2>2. \/ /\ wpc' = "stop" /\ result' \in Errors \cup {"write error"}
        \/ /\ wpc' \in {"check", "write"}
           /\ UNCHANGED <<result, ctxDone>>
    <3>1. got.err \in Errors \cup {NoErr}
      BY <1>1 DEF Inv, BufferInv, BufferTypeOK, SwapResult
    <3>2. QED
      BY <1>9, <3>1
         DEF WriterSwapped, Writing, WriterWrite, WriterWriteFails, bufferVars
  <2>3. QED
    BY <1>1, <2>1, <2>2 DEF EndInv, Returned
<1>10. CASE WriterCheck
  <2>1. /\ UNCHANGED <<rpc, batch, mpc, got, closed, ctxDone, segments, accepted,
                       sent>>
        /\ wpc = "check" /\ result = "none"
    BY <1>1, <1>10
       DEF WriterCheck, bufferVars, readerVars, monitorVars, written, EndInv,
           Returned
  <2>2. sent = Taken
    BY <2>1 DEF Inv, WriterInv
  <2>3. CASE /\ got.closed /\ segments = <<>>
             /\ result' = "nil" /\ wpc' = "stop"
    <3>1. sent = Len(accepted)
      BY <2>2, <2>3 DEF Taken
    <3>2. QED
      BY <1>1, <2>1, <2>3, <3>1 DEF EndInv, Returned
  <2>4. CASE wpc' = "swap" /\ result' = result
    BY <1>1, <2>1, <2>4 DEF EndInv, Returned
  <2>5. QED
    BY <1>10, <2>3, <2>4 DEF WriterCheck
<1>11. CASE \/ WriterStop \/ WriterCancel \/ WriterClose \/ WriterRecord
            \/ WriterCloseBody
  <2>1. /\ UNCHANGED <<rpc, batch, mpc, got, accepted, segments>>
        /\ ctxDone' = ctxDone \/ ctxDone' = ctxDone \cup {Reader}
    BY <1>11, WriterLeaves DEF readerVars
  <2>2. /\ UNCHANGED <<result, sent>>
        /\ wpc \in {"stop", "cancel", "close", "record", "body"}
        /\ wpc' \in {"cancel", "close", "record", "body", "returned"}
    BY <1>11
       DEF WriterStop, WriterCancel, WriterClose, WriterRecord, WriterCloseBody,
           written
  <2>3. closed' = closed \/ closed'
    <3>1. CASE WriterClose
      BY <3>1, CloseStep DEF WriterClose
    <3>2. CASE ~WriterClose
      BY <1>11, <3>2, WriterLeaves
    <3>3. QED
      BY <3>1, <3>2
  <2>4. result # "none"
    BY <1>1, <2>2 DEF EndInv, Returned
  <2>5. QED
    BY <1>1, <2>1, <2>2, <2>3, <2>4 DEF EndInv, Returned
<1>12. CASE Terminated \/ UNCHANGED vars
  BY <1>2, <1>12
     DEF Terminated, vars, readerVars, monitorVars, writerVars, written,
         bufferVars
<1>13. QED
  BY <1>3, <1>4, <1>5, <1>6, <1>7, <1>8, <1>9, <1>10, <1>11, <1>12
     DEF Next, ReaderStep, WriterStep, Writing

\* The counter never says more than was parsed, nor less than was written.
LEMMA TotalBound ==
  ASSUME Inv
  PROVE  totalTokens \in 0 .. MaxFragments /\ eventsOut <= totalTokens
<1> DEFINE n == Len(accepted)
           k == Len(batch)
           all == Tokens(accepted, n)
<1>1. /\ n \in Nat /\ k \in Nat /\ parsed \in 0 .. MaxFragments
      /\ n = parsed - k /\ k <= parsed /\ MaxFragments \in Nat
  BY PipelineAssumption, LenProperties DEF Inv, ReaderInv
<1>2. Ahead => k >= 1
  <2>1. Ahead => batch # <<>> /\ batch \in Seq(SegmentType)
    BY DEF Inv, ReaderInv, Ahead
  <2>2. QED
    BY <2>1, EmptySeq
<1>3. all \in Nat /\ all <= n
  BY <1>1, TokensType
<1>4. eventsOut \in Nat /\ eventsOut <= all
  <2>1. /\ eventsOut \in Nat /\ eventsOut <= Tokens(accepted, sent)
        /\ sent \in 0 .. n
    BY DEF Inv, TokenInv, WriterInv
  <2>2. /\ Tokens(accepted, sent) \in Nat
        /\ Tokens(accepted, sent) <= all
    BY <1>1, <2>1, TokensType, TokensGrow
  <2> HIDE DEF all
  <2>3. QED
    BY <1>3, <2>1, <2>2
<1>5. totalTokens = all + (IF Ahead /\ Head(batch).key \in Coalesceable THEN 1 ELSE 0)
  BY DEF Inv, TokenInv
<1> HIDE DEF n, k, all
<1>6. QED
  BY <1>1, <1>2, <1>3, <1>4, <1>5

\* The counters follow the stream, and what is reported follows them.
LEMMA TokensKept ==
  ASSUME Inv, [Next]_vars
  PROVE  TokenInv'
<1> DEFINE n == Len(accepted)
           Reported == (result = "nil" /\ Writer \notin ctxDone
                          /\ wpc \in {"body", "returned"}) =>
                         recorded = IF usageTokens > 0 THEN usageTokens
                                      ELSE totalTokens
<1>1. /\ TokenInv /\ accepted \in Seq(Piece) /\ n \in Nat /\ sent \in 0 .. n
      /\ usageTokens \in {0, UsageTokens} /\ UsageTokens \in Nat \ {0}
  BY PipelineAssumption, LenProperties DEF Inv, ReaderInv, WriterInv, TokenInv
<1>2. ASSUME UNCHANGED <<accepted, batch, rpc, sent, totalTokens, usageTokens,
                         eventsOut, recorded>>,
             Reported'
      PROVE  TokenInv'
  BY <1>1, <1>2 DEF TokenInv, Ahead
<1>3. ASSUME UNCHANGED <<totalTokens, usageTokens, recorded, result, wpc>>,
             ctxDone \subseteq ctxDone'
      PROVE  Reported'
  BY <1>1, <1>3 DEF TokenInv
<1>4. CASE ReaderAppend \/ ReaderResume
  <2>1. /\ UNCHANGED <<sent, totalTokens, usageTokens, eventsOut, recorded,
                       result, wpc, ctxDone>>
        /\ rpc = "append" /\ batch # <<>>
    BY <1>4, AppendStep DEF sessionVars
  <2>2. Reported'
    BY <1>3, <2>1
  <2>3. CASE UNCHANGED <<batch, accepted>> /\ rpc' \in {"append", "done"}
    <3>1. Ahead' <=> Ahead
      BY <2>1, <2>3 DEF Ahead
    <3>2. QED
      BY <1>1, <2>1, <2>2, <2>3, <3>1 DEF TokenInv
  <2>4. CASE rpc' = "segs" /\ accepted' = accepted \o RunOf(Head(batch))
    <3> DEFINE key == Head(batch).key
               one == IF key \in Coalesceable THEN 1 ELSE 0
    <3>1. Head(batch) \in SegmentType /\ Head(batch).text = <<n + 1>>
      <4>1. batch # <<>> /\ batch \in Seq(SegmentType)
        BY <2>1 DEF Inv, ReaderInv
      <4>2. 1 \in 1 .. Len(batch) /\ Head(batch) = batch[1]
        BY <4>1, HeadTail
      <4>3. QED
        BY <4>2 DEF Inv, ReaderInv, Admissible
    <3>2. /\ accepted' \in Seq(Piece) /\ Len(accepted') = n + 1
          /\ \A i \in 1 .. n : accepted'[i] = accepted[i]
          /\ accepted'[n + 1].key = key
      BY <1>1, <2>4, <3>1, TakePiece
    <3>3. /\ \A m \in 0 .. n : Tokens(accepted', m) = Tokens(accepted, m)
          /\ Tokens(accepted', Len(accepted')) = Tokens(accepted, n) + one
      BY <1>1, <3>2, TokensTaken
    <3>4. Ahead /\ ~Ahead'
      BY <2>1, <2>4 DEF Ahead
    <3> HIDE DEF n, key, one
    <3>5. (\E i \in 1 .. n + 1 : accepted'[i].key \in UsageKeys) <=>
            \/ \E i \in 1 .. n : accepted[i].key \in UsageKeys
            \/ key \in UsageKeys
      BY <1>1, <3>2
    <3>6. /\ totalTokens = Tokens(accepted, n) + one
          /\ usageTokens = IF \/ \E i \in 1 .. n : accepted[i].key \in UsageKeys
                              \/ key \in UsageKeys
                             THEN UsageTokens ELSE 0
          /\ eventsOut \in Nat /\ eventsOut <= Tokens(accepted, sent)
          /\ recorded \in 0 .. MaxFragments \cup {UsageTokens}
      BY <1>1, <3>4 DEF TokenInv, n, key, one
    <3>7. Tokens(accepted', Len(accepted')) \in Nat
      BY <3>2, LenProperties, TokensType
    <3>8. totalTokens' = Tokens(accepted', Len(accepted')) + 0
      BY <2>1, <3>3, <3>6, <3>7
    <3>9. eventsOut' \in Nat /\ eventsOut' <= Tokens(accepted', sent')
      BY <1>1, <2>1, <3>3, <3>6
    <3>10. usageTokens' = IF \E i \in 1 .. Len(accepted') :
                                accepted'[i].key \in UsageKeys
                            THEN UsageTokens ELSE 0
      BY <2>1, <3>2, <3>5, <3>6
    <3>11. QED
      BY <2>1, <2>2, <3>4, <3>6, <3>8, <3>9, <3>10 DEF TokenInv
  <2>5. QED
    BY <1>4, <2>1, <2>3, <2>4, AppendStep
<1>5. CASE WriterSwap \/ WriterResume \/ WriterTimer \/ WriterBarrier
             \/ WriterCancelled
  <2>1. /\ UNCHANGED <<accepted, batch, rpc, sent, totalTokens, usageTokens,
                       eventsOut, recorded>>
        /\ wpc' \in {"swap", "swapped"}
    BY <1>5, SwapStep DEF sessionVars
  <2>2. QED
    BY <1>2, <2>1
<1>6. CASE ReaderCount
  <2>1. /\ rpc = "segs" /\ rpc' = "append"
        /\ UNCHANGED <<accepted, batch, sent, eventsOut, recorded, result, wpc,
                       ctxDone>>
        /\ totalTokens' = IF Head(batch).key \in Coalesceable
                            THEN totalTokens + 1 ELSE totalTokens
        /\ usageTokens' = IF Head(batch).key \in UsageKeys
                            THEN UsageTokens ELSE usageTokens
    BY <1>6 DEF ReaderCount, isCoalesceableSegment, writerVars, written, bufferVars
  <2>2. ~Ahead /\ Ahead'
    BY <2>1 DEF Ahead
  <2>3. result # "nil" \/ Writer \in ctxDone
    BY <2>1 DEF Inv, EndInv
  <2>4. /\ totalTokens = Tokens(accepted, n) + 0 /\ Tokens(accepted, n) \in Nat
        /\ usageTokens = IF \E i \in 1 .. n : accepted[i].key \in UsageKeys
                           THEN UsageTokens ELSE 0
    BY <1>1, <2>2, TokensType DEF TokenInv
  <2>5. /\ totalTokens' = Tokens(accepted, n)
                            + (IF Head(batch).key \in Coalesceable THEN 1 ELSE 0)
        /\ usageTokens' = IF \/ \E i \in 1 .. n : accepted[i].key \in UsageKeys
                             \/ Head(batch).key \in UsageKeys
                            THEN UsageTokens ELSE 0
    BY <2>1, <2>4
  <2>6. QED
    BY <1>1, <2>1, <2>2, <2>3, <2>5 DEF TokenInv
<1>7. CASE \/ ReaderCheck \/ ReaderRead \/ ReaderEOF \/ ReaderError
           \/ ReaderClose \/ ReaderEventDone
  <2>1. /\ UNCHANGED <<accepted, sent, totalTokens, usageTokens, eventsOut,
                       recorded, result, wpc, ctxDone>>
        /\ rpc \in {"check", "read", "segs", "closing"}
        /\ \/ rpc' \in {"check", "read", "segs", "closing"}
           \/ rpc = "closing" /\ rpc' = "done" /\ batch' = batch
    BY <1>7, CloseStep
       DEF ReaderCheck, ReaderRead, ReaderEOF, ReaderError, ReaderEnd,
           ReaderClose, ReaderEventDone, writerVars, written, bufferVars
  <2>2. ~Ahead /\ ~Ahead'
    BY <2>1 DEF Ahead, Inv, ReaderInv
  <2>3. Reported'
    BY <1>3, <2>1
  <2>4. QED
    BY <1>1, <2>1, <2>2, <2>3 DEF TokenInv
<1>8. CASE MonitorStep \/ ClientCancel \/ PropagateCancel
  <2>1. /\ UNCHANGED <<accepted, batch, rpc, sent, totalTokens, usageTokens,
                       eventsOut, recorded, result, wpc>>
        /\ ctxDone \subseteq ctxDone'
    BY <1>8, CloseStep, CancelStep
       DEF MonitorStep, ClientCancel, PropagateCancel, readerVars, writerVars,
           written, bufferVars
  <2>2. QED
    BY <1>2, <1>3, <2>1
<1>9. CASE WriterWrite
  <2> DEFINE seg == Head(inflight)
  <2>1. /\ UNCHANGED <<accepted, batch, rpc, totalTokens, usageTokens, recorded>>
        /\ wpc' \in {"check", "write"} /\ wpc = "write"
        /\ sent' = sent + Len(seg.text)
        /\ eventsOut' = IF seg.key \in Coalesceable
                          THEN eventsOut + 1 ELSE eventsOut
    BY <1>9 DEF WriterWrite, isCoalesceableSegment, readerVars
  <2>2. IsRun(accepted, seg) /\ Start(seg) = sent
    BY <1>1, <2>1, CoverTail DEF Inv, WriterInv
  <2>3. /\ End(seg) = sent' /\ sent < sent' /\ sent' \in Nat
    BY <1>1, <2>1, <2>2, RunIsSlice DEF Inv, ReaderInv
  <2>4. sent' <= n /\ accepted[sent'].key = seg.key
    <3>1. sent' <= n
      BY <2>2, <2>3 DEF IsRun
    <3>2. sent' \in 1 .. Len(accepted) /\ Start(seg) < sent' /\ sent' <= End(seg)
      BY <1>1, <2>2, <2>3, <3>1
    <3>3. QED
      BY <2>2, <3>1, <3>2 DEF IsRun
  <2> HIDE DEF seg
  <2>5. /\ Tokens(accepted, sent) <= Tokens(accepted, sent')
        /\ accepted[sent'].key \in Coalesceable =>
             Tokens(accepted, sent) + 1 <= Tokens(accepted, sent')
        /\ Tokens(accepted, sent) \in Nat /\ Tokens(accepted, sent') \in Nat
    BY <1>1, <2>3, TokensGrow, TokensType
  <2>6. eventsOut' \in Nat /\ eventsOut' <= Tokens(accepted, sent')
    BY <1>1, <2>1, <2>4, <2>5 DEF TokenInv
  <2>7. QED
    BY <1>1, <2>1, <2>6 DEF TokenInv, Ahead
<1>10. CASE WriterRecord
  <2>1. /\ UNCHANGED <<accepted, batch, rpc, sent, totalTokens, usageTokens,
                       eventsOut>>
        /\ recorded' = IF usageTokens > 0 THEN usageTokens ELSE totalTokens
    BY <1>10 DEF WriterRecord, readerVars, written
  <2>2. recorded' \in 0 .. MaxFragments \cup {UsageTokens}
    BY <1>1, <2>1, TotalBound
  <2>3. QED
    BY <1>1, <2>1, <2>2 DEF TokenInv, Ahead
<1>11. CASE \/ WriterSwapped \/ WriterWriteFails \/ WriterCheck \/ WriterStop
            \/ WriterCancel \/ WriterClose \/ WriterCloseBody
  <2>1. UNCHANGED <<accepted, batch, rpc, sent, totalTokens, usageTokens,
                    eventsOut, recorded>>
    BY <1>11
       DEF WriterSwapped, WriterWriteFails, WriterCheck, WriterStop,
           WriterCancel, WriterClose, WriterCloseBody, readerVars, written
  <2>2. /\ ctxDone \subseteq ctxDone'
        /\ \/ wpc' \notin {"body", "returned"}
           \/ wpc = "body" /\ wpc' = "returned" /\ result' = result
    BY <1>11, WriterLeaves
       DEF WriterSwapped, WriterWriteFails, Writing, WriterCheck, WriterStop,
           WriterCancel, WriterClose, WriterCloseBody
  <2>3. Reported'
    BY <1>1, <2>1, <2>2 DEF TokenInv
  <2>4. QED
    BY <1>2, <2>1, <2>3
<1>12. CASE Terminated \/ UNCHANGED vars
  <2>1. UNCHANGED <<accepted, batch, rpc, sent, totalTokens, usageTokens,
                    eventsOut, recorded, result, wpc, ctxDone>>
    BY <1>12 DEF Terminated, vars, readerVars, writerVars, written, bufferVars
  <2>2. QED
    BY <1>2, <1>3, <2>1
<1>13. QED
  BY <1>4, <1>5, <1>6, <1>7, <1>8, <1>9, <1>10, <1>11, <1>12
     DEF Next, ReaderStep, WriterStep

-----------------------------------------------------------------------------
\* A new session.
LEMMA InvInit ==
  ASSUME Init
  PROVE  Inv
<1> USE DEF Init
<1>1. BufferInv
  BY InitHolds
<1>2. ControlTypeOK
  BY DEF ControlTypeOK
<1>3. /\ Len(<<>>) = 0 /\ 0 \in 0 .. MaxFragments
      /\ \A S : <<>> \in Seq(S)
  BY EmptySeq, PipelineAssumption
<1>4. op[Reader] = "idle" /\ op[Writer] = "idle" /\ segments = <<>>
      /\ closed = FALSE /\ ctxDone = {} /\ got.closed = FALSE
  BY Actors DEF BufferInit
<1>5. ReaderInv
  <2>1. /\ batch \in Seq(SegmentType) /\ accepted \in Seq(Piece)
        /\ Len(batch) = 0 /\ Len(accepted) = 0
    BY <1>3
  <2>2. rpc = "check" /\ batch = <<>> /\ parsed = 0
    OBVIOUS
  <2> HIDE DEF Init
  <2>3. /\ parsed \in 0 .. MaxFragments /\ Len(batch) <= parsed
        /\ Len(accepted) = parsed - Len(batch)
    BY <2>1, <2>2, PipelineAssumption
  <2>4. QED
    BY <1>4, <2>1, <2>2, <2>3 DEF ReaderInv
<1>6. WriterInv
  BY <1>3, <1>4 DEF WriterInv, Covers, Taken
<1>7. EndInv
  BY <1>4 DEF EndInv, Returned
<1>8. Tokens(<<>>, 0) = 0
  <2>1. Counted(<<>>, 0) = {}
    BY DEF Counted
  <2>2. QED
    BY <2>1, FS_EmptySet DEF Tokens
<1>9. TokenInv
  BY <1>3, <1>8 DEF TokenInv, Ahead
<1>10. QED
  BY <1>1, <1>2, <1>5, <1>6, <1>7, <1>9 DEF Inv

\* Every step keeps the invariant.
LEMMA InvNext ==
  ASSUME Inv, [Next]_vars
  PROVE  Inv'
BY BufferKept, ControlKept, ReaderKept, WriterKept, EndKept, TokensKept DEF Inv

\* The session invariant, whatever upstream sends and however the goroutines
\* are scheduled (stream.go:89-319).
THEOREM SessionInvariant == Spec => []Inv
<1>1. Init => Inv
  BY InvInit
<1>2. Inv /\ [Next]_vars => Inv'
  BY InvNext
<1>3. QED
  BY <1>1, <1>2, PTL DEF Spec

\* Every variable of ProcessStream and of its buffer keeps its type.
THEOREM SessionTypes == Spec => []TypeOK
<1>1. Inv => TypeOK
  <2> SUFFICES ASSUME Inv PROVE TypeOK
    OBVIOUS
  <2>1. BufferTypeOK /\ ControlTypeOK
    BY DEF Inv, BufferInv
  <2>2. totalTokens \in 0 .. MaxFragments /\ eventsOut \in 0 .. MaxFragments
    <3>1. totalTokens \in 0 .. MaxFragments /\ eventsOut <= totalTokens
      BY TotalBound
    <3>2. eventsOut \in Nat /\ MaxFragments \in Nat
      BY PipelineAssumption DEF Inv, TokenInv
    <3>3. QED
      BY <3>1, <3>2
  <2>3. /\ usageTokens \in {0, UsageTokens}
        /\ recorded \in 0 .. MaxFragments \cup {UsageTokens}
    BY DEF Inv, TokenInv
  <2>4. sent \in 0 .. MaxFragments
    <3>1. /\ sent \in 0 .. Len(accepted) /\ Len(accepted) = parsed - Len(batch)
          /\ Len(batch) \in Nat /\ Len(accepted) \in Nat
          /\ parsed \in 0 .. MaxFragments /\ MaxFragments \in Nat
      BY PipelineAssumption, LenProperties DEF Inv, WriterInv, ReaderInv
    <3>2. QED
      BY <3>1
  <2>5. /\ batch \in Seq(SegmentType) /\ parsed \in 0 .. MaxFragments
        /\ inflight \in Seq(SegmentType)
        /\ accepted \in Seq([key : Keys, frag : Fragments])
        /\ client \in Seq(Seq([key : Keys, frag : Fragments]))
    BY DEF Inv, ReaderInv, WriterInv, Piece
  <2>6. QED
    BY <2>1, <2>2, <2>3, <2>4, <2>5 DEF TypeOK, ControlTypeOK
<1>2. QED
  BY <1>1, SessionInvariant, PTL

\* ProcessStream returns nil only when everything taken was written, and when
\* everything parsed was taken unless the client went away (stream.go:313-318).
THEOREM NilIsComplete == Spec => []NilMeansEverything
<1>1. Inv => NilMeansEverything
  <2> SUFFICES ASSUME Inv, result = "nil"
               PROVE  /\ sent = Len(accepted)
                      /\ Writer \notin ctxDone => Len(accepted) = parsed
    BY DEF NilMeansEverything
  <2>1. sent = Len(accepted) /\ (Writer \notin ctxDone => batch = <<>>)
    BY DEF Inv, EndInv
  <2>2. Len(accepted) = parsed - Len(batch) /\ parsed \in Nat
    BY PipelineAssumption DEF Inv, ReaderInv
  <2>3. batch = <<>> => Len(batch) = 0
    BY EmptySeq
  <2>4. QED
    BY <2>1, <2>2, <2>3
<1>2. QED
  BY <1>1, SessionInvariant, PTL

\* The tokens reported for a session that ended by itself are final, and the
\* body events on the wire are never more than the tokens counted
\* (stream.go:117-158, 216-257).
THEOREM TokensAreFinal == Spec => []ReportedTokensFinal
<1>1. Inv => ReportedTokensFinal
  <2> SUFFICES ASSUME Inv PROVE ReportedTokensFinal
    OBVIOUS
  <2>1. eventsOut <= totalTokens
    BY TotalBound
  <2>2. ASSUME result = "nil", Writer \notin ctxDone, wpc \in {"body", "returned"}
        PROVE  recorded = IF \E i \in DOMAIN accepted : accepted[i].key \in UsageKeys
                            THEN UsageTokens
                            ELSE Cardinality({i \in DOMAIN accepted :
                                                accepted[i].key \in Coalesceable})
    <3>1. ~Ahead
      BY <2>2 DEF Inv, EndInv, Ahead
    <3>2. DOMAIN accepted = 1 .. Len(accepted) /\ Len(accepted) \in Nat
      BY LenProperties DEF Inv, ReaderInv
    <3>3. /\ totalTokens = Tokens(accepted, Len(accepted)) + 0
          /\ Tokens(accepted, Len(accepted)) \in Nat
      BY <3>1, <3>2, TokensType DEF Inv, TokenInv
    <3>4. /\ usageTokens = IF \E i \in 1 .. Len(accepted) :
                                accepted[i].key \in UsageKeys
                             THEN UsageTokens ELSE 0
          /\ recorded = IF usageTokens > 0 THEN usageTokens ELSE totalTokens
      BY <2>2, <3>1 DEF Inv, TokenInv
    <3>5. Tokens(accepted, Len(accepted)) =
            Cardinality({i \in DOMAIN accepted : accepted[i].key \in Coalesceable})
      BY <3>2 DEF Tokens, Counted
    <3>6. UsageTokens \in Nat \ {0}
      BY PipelineAssumption
    <3>7. QED
      BY <3>2, <3>3, <3>4, <3>5, <3>6
  <2>3. QED
    BY <2>1, <2>2 DEF ReportedTokensFinal
<1>2. QED
  BY <1>1, SessionInvariant, PTL

-----------------------------------------------------------------------------
\* Every step of the session is one of the abstract stream, or none: a
\* segment that Append takes is accepted, one that is written is delivered,
\* and the result of ProcessStream completes or aborts.
LEMMA StreamStep ==
  ASSUME Inv, Inv', [Next]_vars
  PROVE  [Stream!Next]_(Stream!streamVars)
<1>1. /\ accepted \in Seq(Piece) /\ Len(accepted) \in Nat
      /\ \A i \in 1 .. Len(accepted) : accepted[i].frag = i
      /\ sent \in 0 .. Len(accepted)
      /\ result # "none" <=> Returned
  BY LenProperties DEF Inv, ReaderInv, WriterInv, EndInv
<1>2. ASSUME UNCHANGED <<accepted, client, sent, result>>
      PROVE  UNCHANGED Stream!streamVars
  BY <1>2 DEF Stream!streamVars, Status
<1>3. CASE ReaderAppend \/ ReaderResume
  <2>1. UNCHANGED <<client, sent, result>> /\ rpc = "append" /\ batch # <<>>
    BY <1>3, AppendStep DEF sessionVars
  <2>2. CASE UNCHANGED accepted
    BY <1>2, <2>1, <2>2
  <2>3. CASE ~closed /\ accepted' = accepted \o RunOf(Head(batch))
    <3> DEFINE seg == Head(batch)
               piece == accepted'[Len(accepted) + 1]
    <3>1. seg \in SegmentType /\ seg.text = <<Len(accepted) + 1>>
      <4>1. batch \in Seq(SegmentType)
        BY DEF Inv, ReaderInv
      <4>2. 1 \in 1 .. Len(batch) /\ seg = batch[1]
        BY <2>1, <4>1, HeadTail
      <4>3. QED
        BY <4>2 DEF Inv, ReaderInv, Admissible
    <3>2. /\ accepted' \in Seq(Piece) /\ Len(accepted') = Len(accepted) + 1
          /\ \A i \in 1 .. Len(accepted) : accepted'[i] = accepted[i]
      BY <1>1, <2>3, <3>1, TakePiece
    <3> HIDE DEF seg
    <3>3. piece \in Piece
      BY <1>1, <3>2, ElementOfSeq
    <3> HIDE DEF piece
    <3>4. accepted' = Append(accepted, piece)
      <4>1. /\ Append(accepted, piece) \in Seq(Piece)
            /\ Len(Append(accepted, piece)) = Len(accepted) + 1
            /\ \A i \in 1 .. Len(accepted) : Append(accepted, piece)[i] = accepted[i]
            /\ Append(accepted, piece)[Len(accepted) + 1] = piece
        BY <1>1, <3>3, AppendProperties
      <4> DEFINE one == Append(accepted, piece)
      <4> HIDE DEF one
      <4>2. \A i \in 1 .. Len(accepted) + 1 : accepted'[i] = one[i]
        BY <1>1, <3>2, <4>1 DEF one, piece
      <4>3. accepted' = one
        BY <3>2, <4>1, <4>2, SeqEqual DEF one
      <4>4. QED
        BY <4>3 DEF one
    <3>5. result # "nil"
      BY <2>3 DEF Inv, EndInv
    <3>6. Stream!Accept
      BY <2>1, <3>3, <3>4, <3>5 DEF Stream!Accept, Status, Piece
    <3>7. QED
      BY <3>6 DEF Stream!Next
  <2>4. QED
    BY <1>3, <2>2, <2>3, AppendStep
<1>4. CASE WriterSwap \/ WriterResume \/ WriterTimer \/ WriterBarrier
             \/ WriterCancelled
  <2>1. UNCHANGED <<accepted, client, sent, result>>
    BY <1>4, SwapStep DEF sessionVars
  <2>2. QED
    BY <1>2, <2>1
<1>5. CASE \/ ReaderCheck \/ ReaderRead \/ ReaderEOF \/ ReaderError
           \/ ReaderClose \/ ReaderCount \/ ReaderEventDone
           \/ MonitorStep \/ ClientCancel \/ PropagateCancel
           \/ Terminated \/ UNCHANGED vars
  <2>1. UNCHANGED <<accepted, client, sent, result>>
    BY <1>5
       DEF ReaderCheck, ReaderRead, ReaderEOF, ReaderError, ReaderEnd,
           ReaderClose, ReaderCount, ReaderEventDone, MonitorStep, ClientCancel,
           PropagateCancel, Terminated, vars, writerVars, written
  <2>2. QED
    BY <1>2, <2>1
<1>6. CASE WriterSwapped \/ WriterWriteFails
  <2>1. /\ UNCHANGED <<accepted, client, sent>> /\ result = "none"
        /\ result' = "none" \/ result' \in Errors \cup {"write error"}
    <3>1. got.err \in Errors \cup {NoErr} /\ result = "none"
      <4>1. got.err \in Errors \cup {NoErr, "canceled"}
        BY DEF Inv, BufferInv, BufferTypeOK, SwapResult
      <4>2. "canceled" \in Errors
        BY PipelineAssumption
      <4>3. wpc \in {"swapped", "write"}
        BY <1>6 DEF WriterSwapped, WriterWriteFails
      <4>4. QED
        BY <1>1, <4>1, <4>2, <4>3 DEF Returned
    <3>2. QED
      BY <1>6, <3>1 DEF WriterSwapped, WriterWriteFails, written
  <2>2. "none" \notin Errors /\ "nil" \notin Errors
    BY PipelineAssumption, BufferAssumption
  <2>3. CASE result' = "none"
    BY <1>2, <2>1, <2>3
  <2>4. CASE result' # "none"
    <3>1. Status = "open" /\ Status' = "aborted"
      BY <2>1, <2>2, <2>4 DEF Status
    <3>2. QED
      BY <2>1, <3>1 DEF Stream!Abort, Stream!Next
  <2>5. QED
    BY <2>3, <2>4
<1>7. CASE WriterWrite
  <2> DEFINE seg == Head(inflight)
  <2>1. /\ client' = Append(client, RunOf(seg))
        /\ sent' = sent + Len(seg.text)
        /\ UNCHANGED <<accepted, result>>
        /\ result = "none"
    BY <1>1, <1>7 DEF WriterWrite, Returned
  <2>2. IsRun(accepted, seg) /\ Start(seg) = sent
    BY <1>1, <1>7, CoverTail DEF WriterWrite, Inv, WriterInv
  <2>3. /\ RunOf(seg) = SubSeq(accepted, sent + 1, End(seg))
        /\ sent < End(seg) /\ End(seg) = sent' /\ End(seg) \in Nat
    BY <1>1, <2>1, <2>2, RunIsSlice
  <2>4. sent' <= Len(accepted)
    BY <2>2, <2>3 DEF IsRun
  <2>5. \A i \in sent + 1 .. sent' : accepted[i].key = accepted[sent'].key
    <3>1. \A i \in sent + 1 .. sent' : accepted[i].key = seg.key
      BY <1>1, <2>2, <2>3, <2>4 DEF IsRun
    <3>2. sent' \in sent + 1 .. sent'
      BY <1>1, <2>3
    <3>3. QED
      BY <3>1, <3>2
  <2>6. sent' \in sent + 1 .. Len(accepted)
    BY <1>1, <2>3, <2>4
  <2>7. client' = Append(client, SubSeq(accepted, sent + 1, sent'))
    BY <2>1, <2>3
  <2>8. Status = "open" /\ Status' = Status
    BY <2>1 DEF Status
  <2> HIDE DEF seg
  <2>9. Stream!Deliver
    BY <2>1, <2>5, <2>6, <2>7, <2>8 DEF Stream!Deliver
  <2>10. QED
    BY <2>9 DEF Stream!Next
<1>8. CASE WriterCheck
  <2>1. UNCHANGED <<accepted, client, sent>> /\ result = "none"
    BY <1>1, <1>8 DEF WriterCheck, written, Returned
  <2>2. CASE result' = result
    BY <1>2, <2>1, <2>2
  <2>3. CASE result' = "nil"
    <3>1. sent' = Len(accepted')
      BY <2>3 DEF Inv, EndInv
    <3>2. Status = "open" /\ Status' = "complete"
      BY <2>1, <2>3 DEF Status
    <3>3. QED
      BY <2>1, <3>1, <3>2 DEF Stream!Complete, Stream!Next
  <2>4. QED
    BY <1>8, <2>2, <2>3 DEF WriterCheck
<1>9. CASE \/ WriterStop \/ WriterCancel \/ WriterClose \/ WriterRecord
           \/ WriterCloseBody
  <2>1. UNCHANGED <<accepted, client, sent, result>>
    BY <1>9
       DEF WriterStop, WriterCancel, WriterClose, WriterRecord, WriterCloseBody,
           written
  <2>2. QED
    BY <1>2, <2>1
<1>10. QED
  BY <1>3, <1>4, <1>5, <1>6, <1>7, <1>8, <1>9 DEF Next, ReaderStep, WriterStep

\* The session implements the safety part of CoalescingStream.
THEOREM SessionRefinesStream == Spec => ImplementsStream
<1>1. Init => Stream!Init
  BY DEF Init, Stream!Init, Status
<1>2. Inv /\ Inv' /\ [Next]_vars => [Stream!Next]_(Stream!streamVars)
  BY StreamStep
<1>3. QED
  BY <1>1, <1>2, SessionInvariant, PTL DEF Spec, ImplementsStream, Stream!Safety

=============================================================================
