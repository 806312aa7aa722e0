--------------------------- MODULE PendingBuffer ---------------------------
(***************************************************************************)
(* PendingBuffer (pkg/aggregator/buffer.go): the bounded, merging buffer   *)
(* between the goroutines that append segments and the one that swaps the  *)
(* pending batch out.                                                      *)
(*                                                                         *)
(* Every action is one critical section of mu: from Lock (or the return of *)
(* Wait) to Unlock (or the call of Wait).  A goroutine in Wait is a member *)
(* of the wait set of its condition variable; Signal takes one member out, *)
(* Broadcast all of them, and a goroutine that is out of the set runs its  *)
(* loop test again in a step of its own (AppendResume, SwapResume), when   *)
(* other goroutines may have had the lock in between.                      *)
(***************************************************************************)
EXTENDS Segment, Integers

CONSTANTS
  Producers,    \* goroutines that call Append
  Consumer,     \* the goroutine that calls Swap
  HighCfg,      \* BufferConfig.HighWatermark
  LowCfg,       \* BufferConfig.LowWatermark
  DefaultHigh,  \* the 32 MB NewPendingBuffer falls back on
  CoalesceWait, \* MinCoalesceWait > 0
  MaxSegmentBytes, \* no segment handed to Append is larger
  Errors,       \* errors handed to Close
  NoErr,        \* nil
  NoSegment     \* the argument of a goroutine that is not in Append

highWatermark == IF HighCfg <= 0 THEN DefaultHigh ELSE HighCfg

lowWatermark ==
  IF LowCfg <= 0 \/ LowCfg >= highWatermark
    THEN (highWatermark * 3) \div 4
    ELSE LowCfg

\* With a high watermark of one byte the low watermark would be 0 and a
\* paused Append could only end with Close.  The flags count in megabytes.
ASSUME BufferAssumption ==
  /\ HighCfg \in Int /\ LowCfg \in Int
  /\ DefaultHigh \in Nat
  /\ highWatermark >= 2
  /\ CoalesceWait \in BOOLEAN
  /\ MaxSegmentBytes \in Nat
  /\ Consumer \notin Producers
  /\ NoErr \notin Errors
  /\ NoSegment \notin SegmentType

Goroutines == Producers \cup {Consumer}

VARIABLES
  segments,       \* the pending segments, oldest first
  currentBytes,   \* their size
  hasBarrier,     \* something pending must not wait for more
  barrierWake,    \* the channel a coalescing Swap selects on
  firstEmission,  \* nothing has been swapped out yet
  closed,
  upstreamErr,
  notEmpty,       \* goroutines parked on the condition variable notEmpty
  belowHighWater, \* goroutines parked on the condition variable belowHighWater
  ctxDone,        \* goroutines whose context is done
  op,             \* where each goroutine is in its call
  arg,            \* the segment a paused Append is holding
  ret,            \* the result of each producer's last Append
  got             \* the result of the consumer's last Swap

bufferVars ==
  <<segments, currentBytes, hasBarrier, barrierWake, firstEmission, closed,
    upstreamErr, notEmpty, belowHighWater, ctxDone, op, arg, ret, got>>

content == <<segments, currentBytes>>
barrier == <<hasBarrier, barrierWake>>
closing == <<closed, upstreamErr>>

SwapResult == [segs : Seq(SegmentType), closed : BOOLEAN,
               err : Errors \cup {NoErr, "canceled"}]

BufferTypeOK ==
  /\ segments \in Seq(SegmentType)
  /\ currentBytes \in Nat
  /\ hasBarrier \in BOOLEAN
  /\ barrierWake \in {"open", "closed"}
  /\ firstEmission \in BOOLEAN
  /\ closed \in BOOLEAN
  /\ upstreamErr \in Errors \cup {NoErr}
  /\ notEmpty \subseteq {Consumer}
  /\ belowHighWater \subseteq Producers
  /\ ctxDone \subseteq Goroutines
  /\ op \in [Goroutines -> {"idle", "paused", "waiting", "coalescing"}]
  /\ arg \in [Producers -> SegmentType \cup {NoSegment}]
  /\ ret \in [Producers -> {"none", "ok", "closed", "canceled"}]
  /\ got \in SwapResult

BufferInit ==
  /\ segments = <<>>
  /\ currentBytes = 0
  /\ hasBarrier = FALSE
  /\ barrierWake = "open"
  /\ firstEmission = TRUE
  /\ closed = FALSE
  /\ upstreamErr = NoErr
  /\ notEmpty = {}
  /\ belowHighWater = {}
  /\ ctxDone = {}
  /\ op = [g \in Goroutines |-> "idle"]
  /\ arg = [p \in Producers |-> NoSegment]
  /\ ret = [p \in Producers |-> "none"]
  /\ got = [segs |-> <<>>, closed |-> FALSE, err |-> NoErr]

-----------------------------------------------------------------------------
\* Mutant: a segment is appended and nobody is told.
SignalNobody(waiters) == {waiters}

\* sync.Cond.Signal: one waiter, any one, leaves the wait set.
Signal(waiters) ==
  IF waiters = {} THEN {{}} ELSE {waiters \ {g} : g \in waiters}

\* Mutant: the flag is set and the channel is not closed.
notifyBarrierSilent == hasBarrier' = TRUE /\ UNCHANGED barrierWake

notifyBarrierLocked == hasBarrier' = TRUE /\ barrierWake' = "closed"

\* Mutant: the barrier outlives the batch it was for.
resetBarrierForgotten == UNCHANGED barrier

resetBarrierLocked ==
  /\ hasBarrier' = FALSE
  /\ barrierWake' = IF hasBarrier THEN "open" ELSE barrierWake

isCoalesceableSegment(s) == s.key \in Coalesceable

\* Mutant: a delta without an id is not taken for the call it continues.
MergesSameCallsOnly(seg) ==
  /\ segments # <<>> /\ CanMerge(segments[Len(segments)], seg)
  /\ segments[Len(segments)].calls = seg.calls

MergesIntoLast(seg) ==
  segments # <<>> /\ CanMerge(segments[Len(segments)], seg)

\* Mutant: a merged segment is counted with an overhead of its own.
MergeCountsOverhead(seg) ==
  LET last == segments[Len(segments)]
  IN  /\ MergesIntoLast(seg)
      /\ segments' = [segments EXCEPT ![Len(segments)] = Merge(last, seg)]
      /\ currentBytes' = currentBytes + BytesLen(seg)
      /\ UNCHANGED barrier

\* The segment joins the last one, which keeps its place and its overhead.
MergeIntoLast(seg) ==
  LET last == segments[Len(segments)]
  IN  /\ MergesIntoLast(seg)
      /\ segments' = [segments EXCEPT ![Len(segments)] = Merge(last, seg)]
      /\ currentBytes' =
           currentBytes + (BytesLen(Merge(last, seg)) - BytesLen(last))
      /\ UNCHANGED barrier

\* The segment becomes the new last one: a barrier unless it is coalesceable
\* and alone.
PushSegment(seg) ==
  /\ ~MergesIntoLast(seg)
  /\ segments' = Append(segments, seg)
  /\ currentBytes' = currentBytes + BytesLen(seg)
  /\ IF segments # <<>> \/ ~isCoalesceableSegment(seg)
       THEN notifyBarrierLocked
       ELSE UNCHANGED barrier

Return(p, result) ==
  /\ op' = [op EXCEPT ![p] = "idle"]
  /\ arg' = [arg EXCEPT ![p] = NoSegment]
  /\ ret' = [ret EXCEPT ![p] = result]

AppendInsert(p, seg) ==
  /\ MergeIntoLast(seg) \/ PushSegment(seg)
  /\ notEmpty' \in Signal(notEmpty)
  /\ Return(p, "ok")
  /\ UNCHANGED <<firstEmission, closing, belowHighWater, ctxDone, got>>

AppendFail(p, result) ==
  /\ Return(p, result)
  /\ UNCHANGED <<content, barrier, firstEmission, closing, notEmpty,
                 belowHighWater, ctxDone, got>>

\* belowHighWater.Wait()
AppendPause(p, seg) ==
  /\ op' = [op EXCEPT ![p] = "paused"]
  /\ arg' = [arg EXCEPT ![p] = seg]
  /\ belowHighWater' = belowHighWater \cup {p}
  /\ UNCHANGED <<content, barrier, firstEmission, closing, notEmpty, ctxDone,
                 ret, got>>

\* The loop that pauses the producer, and what follows it.  It is entered at
\* the high watermark and left below the low one.
AppendPauseLoop(p, seg) ==
  \/ /\ currentBytes >= lowWatermark /\ ~closed /\ p \notin ctxDone
     /\ AppendPause(p, seg)
  \/ p \in ctxDone /\ AppendFail(p, "canceled")
  \/ p \notin ctxDone /\ closed /\ AppendFail(p, "closed")
  \/ /\ currentBytes < lowWatermark /\ ~closed /\ p \notin ctxDone
     /\ AppendInsert(p, seg)

\* Mutant: the producer is paused above the high watermark, and not at it.
AppendCallAboveHigh(p, seg) ==
  /\ op[p] = "idle"
  /\ \/ closed /\ AppendFail(p, "closed")
     \/ ~closed /\ currentBytes <= highWatermark /\ AppendInsert(p, seg)
     \/ ~closed /\ currentBytes > highWatermark /\ AppendPauseLoop(p, seg)

AppendCall(p, seg) ==
  /\ op[p] = "idle"
  /\ \/ closed /\ AppendFail(p, "closed")
     \/ ~closed /\ currentBytes < highWatermark /\ AppendInsert(p, seg)
     \/ ~closed /\ currentBytes >= highWatermark /\ AppendPauseLoop(p, seg)

AppendResume(p) ==
  /\ op[p] = "paused"
  /\ p \notin belowHighWater
  /\ AppendPauseLoop(p, arg[p])

-----------------------------------------------------------------------------
SwapPark(c) ==
  /\ segments = <<>> /\ ~closed /\ upstreamErr = NoErr /\ c \notin ctxDone
  /\ op' = [op EXCEPT ![c] = "waiting"]
  /\ notEmpty' = notEmpty \cup {c}
  /\ UNCHANGED <<content, barrier, firstEmission, closing, belowHighWater,
                 ctxDone, arg, ret, got>>

SwapReturnEmpty(c, err) ==
  /\ op' = [op EXCEPT ![c] = "idle"]
  /\ got' = [segs |-> <<>>, closed |-> closed, err |-> err]
  /\ UNCHANGED <<content, barrier, firstEmission, closing, notEmpty,
                 belowHighWater, ctxDone, arg, ret>>

\* Mutant: the batch is handed out and kept.
SwapTakeKeepsBatch(c) ==
  /\ op' = [op EXCEPT ![c] = "idle"]
  /\ got' = [segs |-> segments, closed |-> closed, err |-> upstreamErr]
  /\ firstEmission' = FALSE
  /\ currentBytes' = 0
  /\ resetBarrierLocked
  /\ belowHighWater' = {}
  /\ UNCHANGED <<segments, closing, notEmpty, ctxDone, arg, ret>>

\* Mutant: Signal where several producers may be paused.
SwapTakeSignals(c) ==
  /\ op' = [op EXCEPT ![c] = "idle"]
  /\ got' = [segs |-> segments, closed |-> closed, err |-> upstreamErr]
  /\ firstEmission' = FALSE
  /\ segments' = <<>>
  /\ currentBytes' = 0
  /\ resetBarrierLocked
  /\ belowHighWater' \in Signal(belowHighWater)
  /\ UNCHANGED <<closing, notEmpty, ctxDone, arg, ret>>

\* Mutant: nobody tells the paused producer.
SwapTakeWakesNobody(c) ==
  /\ op' = [op EXCEPT ![c] = "idle"]
  /\ got' = [segs |-> segments, closed |-> closed, err |-> upstreamErr]
  /\ firstEmission' = FALSE
  /\ segments' = <<>>
  /\ currentBytes' = 0
  /\ resetBarrierLocked
  /\ UNCHANGED <<closing, notEmpty, belowHighWater, ctxDone, arg, ret>>

SwapTake(c) ==
  /\ op' = [op EXCEPT ![c] = "idle"]
  /\ got' = [segs |-> segments, closed |-> closed, err |-> upstreamErr]
  /\ firstEmission' = FALSE
  /\ segments' = <<>>
  /\ currentBytes' = 0
  /\ resetBarrierLocked
  /\ belowHighWater' = {}
  /\ UNCHANGED <<closing, notEmpty, ctxDone, arg, ret>>

ShouldWait ==
  CoalesceWait /\ ~firstEmission /\ ~hasBarrier /\ ~closed /\ upstreamErr = NoErr

\* mu is released and the goroutine selects on the timer, barrierWake and
\* its context.
SwapCoalesce(c) ==
  /\ op' = [op EXCEPT ![c] = "coalescing"]
  /\ UNCHANGED <<content, barrier, firstEmission, closing, notEmpty,
                 belowHighWater, ctxDone, arg, ret, got>>

SwapBody(c) ==
  \/ SwapPark(c)
  \/ c \in ctxDone /\ SwapReturnEmpty(c, "canceled")
  \/ /\ c \notin ctxDone /\ segments = <<>> /\ (closed \/ upstreamErr # NoErr)
     /\ SwapReturnEmpty(c, upstreamErr)
  \/ c \notin ctxDone /\ segments # <<>> /\ ShouldWait /\ SwapCoalesce(c)
  \/ c \notin ctxDone /\ segments # <<>> /\ ~ShouldWait /\ SwapTake(c)

SwapCall(c) == op[c] = "idle" /\ SwapBody(c)

SwapResume(c) == op[c] = "waiting" /\ c \notin notEmpty /\ SwapBody(c)

\* mu is taken again after the select.
SwapAfterWait(c) ==
  \/ c \in ctxDone /\ segments = <<>> /\ SwapReturnEmpty(c, "canceled")
  \/ ~(c \in ctxDone /\ segments = <<>>) /\ SwapTake(c)

CoalesceTimer(c) == op[c] = "coalescing" /\ SwapAfterWait(c)

CoalesceBarrier(c) ==
  op[c] = "coalescing" /\ barrierWake = "closed" /\ SwapAfterWait(c)

CoalesceCancel(c) ==
  op[c] = "coalescing" /\ c \in ctxDone /\ SwapAfterWait(c)

-----------------------------------------------------------------------------
\* Mutant: the last Close wins.
CloseAgain(err) ==
  /\ closed' = TRUE
  /\ upstreamErr' = err
  /\ (IF hasBarrier THEN UNCHANGED barrier ELSE notifyBarrierLocked)
  /\ notEmpty' = {}
  /\ belowHighWater' = {}
  /\ UNCHANGED <<content, firstEmission, ctxDone, op, arg, ret, got>>

\* Mutant: only the producers are told.
CloseLeavesConsumer(err) ==
  /\ IF closed
       THEN UNCHANGED <<closing, barrier, belowHighWater>>
       ELSE /\ closed' = TRUE
            /\ upstreamErr' = err
            /\ notifyBarrierLocked
            /\ belowHighWater' = {}
  /\ UNCHANGED <<content, firstEmission, notEmpty, ctxDone, op, arg, ret, got>>

\* Close is idempotent: the first error stays.
Close(err) ==
  /\ IF closed
       THEN UNCHANGED <<closing, barrier, notEmpty, belowHighWater>>
       ELSE /\ closed' = TRUE
            /\ upstreamErr' = err
            /\ notifyBarrierLocked
            /\ notEmpty' = {}
            /\ belowHighWater' = {}
  /\ UNCHANGED <<content, firstEmission, ctxDone, op, arg, ret, got>>

\* context.CancelFunc, or the client going away: it wakes a select, never a
\* sync.Cond.
CancelContext(gs) ==
  /\ ctxDone' = ctxDone \cup gs
  /\ UNCHANGED <<content, barrier, firstEmission, closing, notEmpty,
                 belowHighWater, op, arg, ret, got>>

-----------------------------------------------------------------------------
\* The pending bytes go over the high watermark by less than one segment,
\* however many producers were paused there and woken together.
ByteBound == currentBytes < highWatermark + MaxSegmentBytes

\* While the buffer is open, the flag that keeps Swap from coalescing says
\* exactly that something pending must not wait: a control segment, or a
\* transition between two segments that cannot merge.
BarrierExact ==
  ~closed =>
    (hasBarrier <=> \/ Len(segments) > 1
                    \/ \E i \in DOMAIN segments :
                         segments[i].key \notin Coalesceable)

\* hasBarrier and the channel go together: a channel is never closed twice
\* (a panic), and no barrier is pending with the channel still open.
BarrierChannel == hasBarrier <=> barrierWake = "closed"

\* No lost wakeup: a goroutine is parked only while what it waits for has
\* not happened.
NoLostWakeup ==
  /\ Consumer \in notEmpty => segments = <<>> /\ ~closed
  /\ belowHighWater # {} => currentBytes >= lowWatermark /\ ~closed

\* Pending neighbours cannot be merged: the consumer gets as few segments as
\* the order of the stream allows, across tool-call ids that came late too.
MaximalRuns ==
  \A i \in 1 .. Len(segments) - 1 : ~CanMerge(segments[i], segments[i + 1])

\* A Swap that coalesces has something to return, also when its context ends
\* the wait: nobody else takes segments out (buffer.go:174 never holds).
CoalescingHasData == op[Consumer] = "coalescing" => segments # <<>>

\* The segments producers may hand over.
Admissible == {s \in SegmentType : BytesLen(s) <= MaxSegmentBytes}

\* The inductive invariant of the buffer: what its clients may rely on, and
\* what a paused Append holds.
BufferInv ==
  /\ BufferTypeOK
  /\ ByteBound
  /\ BarrierExact
  /\ BarrierChannel
  /\ NoLostWakeup
  /\ MaximalRuns
  /\ CoalescingHasData
  /\ \A p \in Producers : op[p] = "paused" => arg[p] \in Admissible

=============================================================================
