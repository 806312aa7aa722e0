--------------------------- MODULE BufferClients ---------------------------
(***************************************************************************)
(* The pending buffer with goroutines that use all of its interface: any   *)
(* number of producers append, one consumer swaps until it has seen the    *)
(* end, contexts are cancelled and the buffer is closed at any moment, and *)
(* closed at the latest when a context is done (what the monitor goroutine *)
(* of ProcessStream is for: a done context wakes nobody by itself).        *)
(***************************************************************************)
EXTENDS PendingBuffer, FiniteSets

CONSTANTS
  Shapes,      \* the segments each producer appends, without their text
  MaxAppends   \* how many Appends each producer makes

ASSUME ClientsAssumption ==
  /\ Shapes \in
       [Producers -> SUBSET [key : Keys, calls : SUBSET Call, size : Nat]]
  /\ \A p \in Producers : \A shape \in Shapes[p] :
       shape.size + Overhead[shape.key] <= MaxSegmentBytes
  /\ MaxAppends \in [Producers -> Nat]
  /\ \A p \in Producers : \A i \in 1 .. MaxAppends[p] : <<p, i>> \in Fragments

VARIABLES
  calls,      \* Appends called so far, per producer
  history,    \* the segments accepted, in the order they got the lock
  delivered,  \* the segments returned by Swap, in order
  finished    \* the consumer has seen the end

clientVars == <<calls, history, delivered, finished>>
allVars == <<bufferVars, clientVars>>

\* The segment a producer makes of a shape in its next call.
SegmentOf(p, shape) ==
  [key |-> shape.key, calls |-> shape.calls, size |-> shape.size,
   text |-> << <<p, calls[p] + 1>> >>]

ClientsInit ==
  /\ BufferInit
  /\ calls = [p \in Producers |-> 0]
  /\ history = <<>>
  /\ delivered = <<>>
  /\ finished = FALSE

\* An Append that returns nil in this step has accepted its segment.
Record(p, seg) ==
  history' = IF op'[p] = "idle" /\ ret'[p] = "ok"
               THEN Append(history, seg)
               ELSE history

CallAppend(p) ==
  \E shape \in Shapes[p] :
    /\ calls[p] < MaxAppends[p]
    /\ AppendCall(p, SegmentOf(p, shape))
    /\ calls' = [calls EXCEPT ![p] = @ + 1]
    /\ Record(p, SegmentOf(p, shape))
    /\ UNCHANGED <<delivered, finished>>

ResumeAppend(p) ==
  /\ AppendResume(p)
  /\ Record(p, arg[p])
  /\ UNCHANGED <<calls, delivered, finished>>

\* The consumer goes on until Swap returns an error with nothing, or the end
\* with nothing left behind: the loop of ProcessStream.
Receive ==
  /\ delivered' = IF op'[Consumer] = "idle"
                    THEN delivered \o got'.segs
                    ELSE delivered
  /\ finished' = (/\ op'[Consumer] = "idle"
                  /\ \/ got'.err # NoErr /\ got'.segs = <<>>
                     \/ got'.closed /\ segments' = <<>>)
  /\ UNCHANGED <<calls, history>>

CallSwap == ~finished /\ SwapCall(Consumer) /\ Receive

ResumeSwap == SwapResume(Consumer) /\ Receive

TimerFires == CoalesceTimer(Consumer) /\ Receive

BarrierFires == CoalesceBarrier(Consumer) /\ Receive

CancelFires == CoalesceCancel(Consumer) /\ Receive

CloseBuffer ==
  \E err \in Errors \cup {NoErr} : Close(err) /\ UNCHANGED clientVars

CloseOnDone ==
  ctxDone # {} /\ ~closed /\ CloseBuffer

Cancel(g) ==
  g \notin ctxDone /\ CancelContext({g}) /\ UNCHANGED clientVars

ClientsTerminated ==
  /\ finished
  /\ \A p \in Producers : op[p] = "idle" /\ calls[p] = MaxAppends[p]
  /\ UNCHANGED allVars

ClientsNext ==
  \/ \E p \in Producers : CallAppend(p) \/ ResumeAppend(p)
  \/ CallSwap \/ ResumeSwap \/ TimerFires \/ BarrierFires \/ CancelFires
  \/ CloseBuffer
  \/ \E g \in Goroutines : Cancel(g)
  \/ ClientsTerminated

ClientsSpec == ClientsInit /\ [][ClientsNext]_allVars

\* A goroutine that can take the lock takes it in the end, a closed channel
\* or a done context is seen by a select, and a done context closes the
\* buffer.  Nothing obliges a producer to append or anyone else to close.
Scheduling ==
  /\ \A p \in Producers : WF_allVars(ResumeAppend(p))
  /\ WF_allVars(CallSwap) /\ WF_allVars(ResumeSwap)
  /\ WF_allVars(BarrierFires) /\ WF_allVars(CancelFires)
  /\ WF_allVars(CloseOnDone)

\* The coalescing timer may never expire: MinCoalesceWait is arbitrarily long.
SlowTimerSpec == ClientsSpec /\ Scheduling

-----------------------------------------------------------------------------
\* Every variable of the buffer and of its clients keeps its type.
ClientsTypeOK ==
  /\ BufferTypeOK
  /\ calls \in [Producers -> Nat]
  /\ \A p \in Producers : calls[p] <= MaxAppends[p]
  /\ history \in Seq(SegmentType)
  /\ delivered \in Seq(SegmentType)
  /\ finished \in BOOLEAN

\* The pending bytes, one by one: each is in a segment, at a place.
PendingBytes ==
  UNION {{i} \X (1 .. BytesLen(segments[i])) : i \in DOMAIN segments}

\* currentBytes is kept by differences (buffer.go:94-121): it is the size of
\* what is pending, whatever was merged, inserted and swapped out.
BytesExact == currentBytes = Cardinality(PendingBytes)

\* What the consumer got and will get.
Handed == delivered \o segments

\* The i-th segment holds the text of those accepted after the start[i]-th,
\* in their order and with their key, and the last one ends with the last.
IsCut(start) ==
  /\ start[1] = 0 /\ start[Len(Handed) + 1] = Len(history)
  /\ \A i \in 1 .. Len(Handed) :
       LET s == Handed[i]
       IN  /\ start[i + 1] = start[i] + Len(s.text)
           /\ \A j \in 1 .. Len(s.text) :
                LET appended == history[start[i] + j]
                IN  appended.text = <<s.text[j]>> /\ appended.key = s.key

\* Nothing accepted is lost, duplicated or moved, and nothing is merged into
\* a segment of another key: what was delivered and what is pending are the
\* accepted fragments in the order Append took them; and the consumer stops
\* at the end only when nothing is pending, unless its own context is done.
InOrder ==
  /\ \E start \in [1 .. Len(Handed) + 1 -> 0 .. Len(history)] : IsCut(start)
  /\ finished => segments = <<>> \/ Consumer \in ctxDone

ClosedStays ==
  closed => /\ closed'
            /\ upstreamErr' = upstreamErr
            /\ history' = history
            /\ notEmpty' = {} /\ belowHighWater' = {}

\* After Close nothing is accepted, the error does not change, and nobody
\* parks again.
ClosedIsFinal == [][ClosedStays]_allVars

\* A barrier ends the coalescing wait without the timer.
BarrierEndsWait ==
  op[Consumer] = "coalescing" /\ hasBarrier ~> op[Consumer] # "coalescing"

\* A closed buffer, or a done context, releases everyone: the producers
\* return and the consumer sees the end.
CloseReleases ==
  closed \/ ctxDone # {} ~>
    finished /\ \A p \in Producers : op[p] = "idle"

=============================================================================
