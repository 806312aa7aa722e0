--------------------------- MODULE StreamPipeline ---------------------------
(***************************************************************************)
(* StreamPipeline.ProcessStream (pkg/aggregator/stream.go) over the        *)
(* pending buffer: three goroutines and two contexts.                      *)
(*                                                                         *)
(*   reader  (stream.go:181-264)  reads events, parses them into segments, *)
(*           counts the fragments and appends them;                        *)
(*   writer  (stream.go:266-318, and the deferred functions) swaps batches *)
(*           out, writes them to the client and tears everything down;     *)
(*   monitor (stream.go:171-177)  closes the buffer when the reader's      *)
(*           context is done.                                              *)
(*                                                                         *)
(* The writer's context is the request's; the reader's is derived from it: *)
(* it is done a moment after the request's, or when the writer cancels it. *)
(***************************************************************************)
EXTENDS PendingBuffer, FiniteSets

CONSTANTS
  Reader,
  Events,        \* what ParseEvent makes of an upstream event: a sequence of
                 \* shapes, empty for a comment or an event it rejects
  UsageKeys,     \* keys of the segments that carry completion tokens
  UsageTokens,   \* the number they carry
  MaxFragments   \* bound: segments parsed in a behaviour

ASSUME PipelineAssumption ==
  /\ Producers = {Reader}
  /\ Fragments = 1 .. MaxFragments
  /\ {"canceled", "reset"} \subseteq Errors /\ NoErr = "nil"
  /\ "none" \notin Errors  \* "none": ProcessStream has not returned
  /\ MaxFragments \in Nat
  /\ Events \subseteq Seq([key : Keys, calls : SUBSET Call, size : Nat])
  /\ UsageTokens \in Nat \ {0}
  /\ \A e \in Events : \A i \in DOMAIN e :
       e[i].size + Overhead[e[i].key] <= MaxSegmentBytes

Writer == Consumer

VARIABLES
  rpc,          \* the reader: "check", "read", "segs", "append", "closing", "done"
  batch,        \* the segments of the event it is appending
  parsed,       \* how many segments it has parsed
  closeArg,     \* the error it is about to close the buffer with
  totalTokens,  \* fragments of reasoning, content and tool calls it counted
  usageTokens,  \* what the last usage segment said
  mpc,          \* the monitor: "select", "closing", "done"
  stopMonitor,  \* the channel that releases it is closed
  wpc,          \* the writer: "swap", "swapped", "write", "check", then the
                \* deferred "stop", "cancel", "close", "record", "body",
                \* "returned"
  inflight,     \* the segments of the snapshot not yet written
  result,       \* what ProcessStream returns
  eventsOut,    \* body events written
  recorded,     \* the tokens reported for the session
  bodyClosed,   \* upstream.Close() was called
  accepted,     \* history: the pieces Append took
  client,       \* history: the segments written, as runs of pieces
  sent          \* history: how many pieces they hold

readerVars == <<rpc, batch, parsed, closeArg, totalTokens, usageTokens>>
monitorVars == <<mpc, stopMonitor>>
written == <<client, sent>>
writerVars ==
  <<wpc, inflight, result, eventsOut, recorded, bodyClosed, written>>
vars == <<bufferVars, readerVars, monitorVars, writerVars, accepted>>

Init ==
  /\ BufferInit
  /\ rpc = "check" /\ batch = <<>> /\ parsed = 0 /\ closeArg = NoErr
  /\ totalTokens = 0 /\ usageTokens = 0
  /\ mpc = "select" /\ stopMonitor = FALSE
  /\ wpc = "swap" /\ inflight = <<>> /\ result = "none" /\ eventsOut = 0
  /\ recorded = 0 /\ bodyClosed = FALSE /\ client = <<>> /\ sent = 0
  /\ accepted = <<>>

RunOf(s) == [i \in DOMAIN s.text |-> [key |-> s.key, frag |-> s.text[i]]]

-----------------------------------------------------------------------------
\* The reader.

ReaderCheck ==
  /\ rpc = "check"
  /\ IF Reader \in ctxDone
       THEN rpc' = "closing" /\ closeArg' = "canceled"
       ELSE rpc' = "read" /\ UNCHANGED closeArg
  /\ UNCHANGED <<bufferVars, batch, parsed, totalTokens, usageTokens,
                 monitorVars, writerVars, accepted>>

\* An event arrives, or is still in the scanner's buffer, and is parsed; its
\* fragments get their positions in the stream.
ReaderRead ==
  \E event \in Events :
    /\ rpc = "read"
    /\ parsed + Len(event) <= MaxFragments
    /\ batch' = [i \in DOMAIN event |->
                   [key |-> event[i].key, calls |-> event[i].calls,
                    text |-> <<parsed + i>>, size |-> event[i].size]]
    /\ parsed' = parsed + Len(event)
    /\ rpc' = "segs"
    /\ UNCHANGED <<bufferVars, closeArg, totalTokens, usageTokens,
                   monitorVars, writerVars, accepted>>

\* ReadEvent ends: the upstream body is at its end, breaks, or was closed by
\* the writer or by the transport when the request's context is done.
ReaderEnd(err) ==
  /\ rpc = "read"
  /\ rpc' = "closing" /\ closeArg' = err
  /\ UNCHANGED <<bufferVars, batch, parsed, totalTokens, usageTokens,
                 monitorVars, writerVars, accepted>>

ReaderEOF == ReaderEnd(NoErr)

ReaderError == ReaderEnd("reset")

\* Mutant: the reader leaves the buffer open at the end of the stream.
ReaderLeaves ==
  /\ rpc = "closing"
  /\ rpc' = "done"
  /\ UNCHANGED <<bufferVars, batch, parsed, closeArg, totalTokens, usageTokens,
                 monitorVars, writerVars, accepted>>

ReaderClose ==
  /\ rpc = "closing"
  /\ Close(closeArg)
  /\ rpc' = "done"
  /\ UNCHANGED <<batch, parsed, closeArg, totalTokens, usageTokens,
                 monitorVars, writerVars, accepted>>

\* The counters move before the segment is in the buffer.  (A tool-call
\* segment counts each of its calls; here a segment has one.)
ReaderCount ==
  /\ rpc = "segs" /\ batch # <<>>
  /\ totalTokens' = IF isCoalesceableSegment(Head(batch))
                      THEN totalTokens + 1 ELSE totalTokens
  /\ usageTokens' = IF Head(batch).key \in UsageKeys
                      THEN UsageTokens ELSE usageTokens
  /\ rpc' = "append"
  /\ UNCHANGED <<bufferVars, batch, parsed, closeArg, monitorVars, writerVars,
                 accepted>>

ReaderEventDone ==
  /\ rpc = "segs" /\ batch = <<>>
  /\ rpc' = "check"
  /\ UNCHANGED <<bufferVars, batch, parsed, closeArg, totalTokens, usageTokens,
                 monitorVars, writerVars, accepted>>

\* Append returned, or has parked the reader.  When it fails the reader
\* returns and leaves the buffer as it is.
AfterAppend ==
  /\ \/ op'[Reader] = "paused" /\ UNCHANGED <<rpc, batch, accepted>>
     \/ /\ op'[Reader] = "idle" /\ ret'[Reader] = "ok"
        /\ rpc' = "segs" /\ batch' = Tail(batch)
        /\ accepted' = accepted \o RunOf(Head(batch))
     \/ /\ op'[Reader] = "idle" /\ ret'[Reader] # "ok"
        /\ rpc' = "done" /\ UNCHANGED <<batch, accepted>>
  /\ UNCHANGED <<parsed, closeArg, totalTokens, usageTokens, monitorVars,
                 writerVars>>

ReaderAppend == rpc = "append" /\ AppendCall(Reader, Head(batch)) /\ AfterAppend

ReaderResume == AppendResume(Reader) /\ AfterAppend

ReaderStep ==
  ReaderCheck \/ ReaderClose \/ ReaderCount \/ ReaderEventDone \/ ReaderAppend
    \/ ReaderResume

-----------------------------------------------------------------------------
\* The monitor.

\* Mutant: the monitor sees the done context and closes nothing.
MonitorLeaves ==
  /\ mpc = "select" /\ (Reader \in ctxDone \/ stopMonitor)
  /\ mpc' = "done"
  /\ UNCHANGED <<bufferVars, stopMonitor, readerVars, writerVars, accepted>>

MonitorStep ==
  /\ \/ /\ mpc = "select" /\ Reader \in ctxDone
        /\ mpc' = "closing" /\ UNCHANGED bufferVars
     \/ /\ mpc = "select" /\ stopMonitor
        /\ mpc' = "done" /\ UNCHANGED bufferVars
     \/ mpc = "closing" /\ Close("canceled") /\ mpc' = "done"
  /\ UNCHANGED <<stopMonitor, readerVars, writerVars, accepted>>

-----------------------------------------------------------------------------
\* The writer.

\* Swap returned, or has parked the writer or left it in its select.
AfterSwap ==
  /\ wpc' = IF op'[Writer] = "idle" THEN "swapped" ELSE "swap"
  /\ UNCHANGED <<readerVars, monitorVars, inflight, result, eventsOut,
                 recorded, bodyClosed, accepted, written>>

WriterSwap == wpc = "swap" /\ SwapCall(Writer) /\ AfterSwap
WriterResume == SwapResume(Writer) /\ AfterSwap
WriterTimer == CoalesceTimer(Writer) /\ AfterSwap
WriterBarrier == CoalesceBarrier(Writer) /\ AfterSwap
WriterCancelled == CoalesceCancel(Writer) /\ AfterSwap

\* Swap's error counts only when it returned nothing.
WriterSwapped ==
  /\ wpc = "swapped"
  /\ \/ /\ got.segs = <<>> /\ got.err # NoErr
        /\ result' = got.err /\ wpc' = "stop"
        /\ CancelContext({Reader})
        /\ UNCHANGED inflight
     \/ /\ got.segs = <<>> /\ got.err = NoErr
        /\ wpc' = "check"
        /\ UNCHANGED <<bufferVars, inflight, result>>
     \/ /\ got.segs # <<>>
        /\ inflight' = got.segs /\ wpc' = "write"
        /\ UNCHANGED <<bufferVars, result>>
  /\ UNCHANGED <<readerVars, monitorVars, eventsOut, recorded, bodyClosed,
                 accepted, written>>

\* Mutant: the loop over the batch ends with its first segment.
WriterWriteOne ==
  /\ wpc = "write"
  /\ inflight' = <<>>
  /\ client' = Append(client, RunOf(Head(inflight)))
  /\ sent' = sent + Len(Head(inflight).text)
  /\ eventsOut' = IF isCoalesceableSegment(Head(inflight))
                    THEN eventsOut + 1 ELSE eventsOut
  /\ wpc' = "check"
  /\ UNCHANGED <<bufferVars, readerVars, monitorVars, result, recorded,
                 bodyClosed, accepted>>

\* One segment reaches the client; the batch is flushed with its last one.
\* (The serializer returns something for every segment the parser makes.)
WriterWrite ==
  /\ wpc = "write"
  /\ inflight' = Tail(inflight)
  /\ client' = Append(client, RunOf(Head(inflight)))
  /\ sent' = sent + Len(Head(inflight).text)
  /\ eventsOut' = IF isCoalesceableSegment(Head(inflight))
                    THEN eventsOut + 1 ELSE eventsOut
  /\ wpc' = IF Tail(inflight) = <<>> THEN "check" ELSE "write"
  /\ UNCHANGED <<bufferVars, readerVars, monitorVars, result, recorded,
                 bodyClosed, accepted>>

WriterWriteFails ==
  /\ wpc = "write"
  /\ result' = "write error" /\ wpc' = "stop"
  /\ CancelContext({Reader})
  /\ UNCHANGED <<readerVars, monitorVars, inflight, eventsOut, recorded,
                 bodyClosed, accepted, written>>

\* buf.Len() takes the lock again, after Swap released it.
WriterCheck ==
  /\ wpc = "check"
  /\ IF got.closed /\ segments = <<>>
       THEN result' = "nil" /\ wpc' = "stop"
       ELSE wpc' = "swap" /\ UNCHANGED result
  /\ UNCHANGED <<bufferVars, readerVars, monitorVars, inflight, eventsOut,
                 recorded, bodyClosed, accepted, written>>

\* The deferred functions, last one first.
WriterStop ==
  /\ wpc = "stop" /\ wpc' = "cancel"
  /\ stopMonitor' = TRUE
  /\ UNCHANGED <<bufferVars, readerVars, mpc, inflight, result, eventsOut,
                 recorded, bodyClosed, accepted, written>>

WriterCancel ==
  /\ wpc = "cancel" /\ wpc' = "close"
  /\ CancelContext({Reader})
  /\ UNCHANGED <<readerVars, monitorVars, inflight, result, eventsOut,
                 recorded, bodyClosed, accepted, written>>

WriterClose ==
  /\ wpc = "close" /\ wpc' = "record"
  /\ Close("canceled")
  /\ UNCHANGED <<readerVars, monitorVars, inflight, result, eventsOut,
                 recorded, bodyClosed, accepted, written>>

\* Mutant: the upstream's own number is used only when nothing was counted.
WriterRecordCountFirst ==
  /\ wpc = "record" /\ wpc' = "body"
  /\ recorded' = IF totalTokens > 0 THEN totalTokens ELSE usageTokens
  /\ UNCHANGED <<bufferVars, readerVars, monitorVars, inflight, result,
                 eventsOut, bodyClosed, accepted, written>>

WriterRecord ==
  /\ wpc = "record" /\ wpc' = "body"
  /\ recorded' = IF usageTokens > 0 THEN usageTokens ELSE totalTokens
  /\ UNCHANGED <<bufferVars, readerVars, monitorVars, inflight, result,
                 eventsOut, bodyClosed, accepted, written>>

\* Mutant: the upstream body stays open.
WriterLeavesBody ==
  /\ wpc = "body" /\ wpc' = "returned"
  /\ UNCHANGED <<bufferVars, readerVars, monitorVars, inflight, result,
                 eventsOut, recorded, bodyClosed, accepted, written>>

WriterCloseBody ==
  /\ wpc = "body" /\ wpc' = "returned"
  /\ bodyClosed' = TRUE
  /\ UNCHANGED <<bufferVars, readerVars, monitorVars, inflight, result,
                 eventsOut, recorded, accepted, written>>

WriterStep ==
  WriterSwap \/ WriterResume \/ WriterBarrier \/ WriterCancelled
    \/ WriterSwapped \/ WriterCheck \/ WriterStop \/ WriterCancel
    \/ WriterClose \/ WriterRecord \/ WriterCloseBody

-----------------------------------------------------------------------------
\* The client goes away: net/http cancels the request's context, and the
\* context package then cancels the contexts derived from it.
ClientCancel ==
  /\ Writer \notin ctxDone
  /\ CancelContext({Writer})
  /\ UNCHANGED <<readerVars, monitorVars, writerVars, accepted>>

PropagateCancel ==
  /\ Writer \in ctxDone /\ Reader \notin ctxDone
  /\ CancelContext({Reader})
  /\ UNCHANGED <<readerVars, monitorVars, writerVars, accepted>>

Terminated ==
  /\ rpc = "done" /\ mpc = "done" /\ wpc = "returned"
  /\ UNCHANGED vars

Next ==
  \/ ReaderStep \/ ReaderRead \/ ReaderEOF \/ ReaderError
  \/ MonitorStep
  \/ WriterStep \/ WriterTimer \/ WriterWrite \/ WriterWriteFails
  \/ ClientCancel \/ PropagateCancel
  \/ Terminated

Spec == Init /\ [][Next]_vars

\* Goroutines run, timers expire, cancellation reaches the derived context, a
\* write ends one way or the other, and a read ends once the body is closed
\* or the request it belongs to is cancelled.  Upstream may be silent for
\* ever: nothing obliges it to send or to end.
FairSpec ==
  /\ Spec
  /\ WF_vars(ReaderStep)
  /\ WF_vars((bodyClosed \/ Writer \in ctxDone) /\ ReaderError)
  /\ WF_vars(MonitorStep)
  /\ WF_vars(WriterStep) /\ WF_vars(WriterTimer)
  /\ WF_vars(WriterWrite \/ WriterWriteFails)
  /\ WF_vars(PropagateCancel)

-----------------------------------------------------------------------------
\* Every variable of the session keeps its type.
TypeOK ==
  /\ BufferTypeOK
  /\ rpc \in {"check", "read", "segs", "append", "closing", "done"}
  /\ batch \in Seq(SegmentType)
  /\ parsed \in 0 .. MaxFragments
  /\ closeArg \in Errors \cup {NoErr}
  /\ totalTokens \in 0 .. MaxFragments
  /\ usageTokens \in {0, UsageTokens}
  /\ mpc \in {"select", "closing", "done"}
  /\ stopMonitor \in BOOLEAN
  /\ wpc \in {"swap", "swapped", "write", "check", "stop", "cancel", "close",
              "record", "body", "returned"}
  /\ inflight \in Seq(SegmentType)
  /\ result \in Errors \cup {"none", "nil", "write error"}
  /\ eventsOut \in 0 .. MaxFragments
  /\ recorded \in 0 .. MaxFragments \cup {UsageTokens}
  /\ bodyClosed \in BOOLEAN
  /\ accepted \in Seq([key : Keys, frag : Fragments])
  /\ client \in Seq(Seq([key : Keys, frag : Fragments]))
  /\ sent \in 0 .. MaxFragments

Status ==
  IF result = "nil" THEN "complete"
    ELSE IF result = "none" THEN "open" ELSE "aborted"

Stream == INSTANCE CoalescingStream
            WITH Pieces <- [key : Keys, frag : Fragments],
                 up <- accepted, status <- Status

\* The session is a coalescing stream: what Append took reaches the client in
\* order, in runs of one kind and once, nothing is taken after a nil result,
\* and nothing is written after an error.
ImplementsStream == Stream!Safety

\* What Append took does not stay in the buffer or in the batch: it goes to
\* the client unless ProcessStream returns.
Delivers == Stream!Delivery

\* A nil result means that everything taken was written, and, unless the
\* client went away, that everything parsed was taken.
NilMeansEverything ==
  result = "nil" => /\ sent = Len(accepted)
                    /\ Writer \notin ctxDone => Len(accepted) = parsed

\* The token count reported for a session that ended by itself is final, and
\* it is the upstream's own number when there was one.  In any session a body
\* event on the wire stands for at least one fragment counted before it: the
\* coalescing ratios the metrics derive are never below one.
ReportedTokensFinal ==
  /\ eventsOut <= totalTokens
  /\ (result = "nil" /\ Writer \notin ctxDone /\ wpc \in {"body", "returned"}) =>
       recorded = IF \E i \in DOMAIN accepted : accepted[i].key \in UsageKeys
                    THEN UsageTokens
                    ELSE Cardinality({i \in DOMAIN accepted :
                                        accepted[i].key \in Coalesceable})

\* No goroutine outlives the session: once ProcessStream has returned, the
\* reader and the monitor end too.
GoroutinesEnd == wpc = "returned" ~> rpc = "done" /\ mpc = "done"

\* Once the client is gone ProcessStream returns, wherever its goroutines
\* are: parked, coalescing, paused or writing.
CancelReturns == Writer \in ctxDone ~> wpc = "returned"

\* Once upstream has ended ProcessStream returns.
EndReturns == rpc = "closing" ~> wpc = "returned"

\* A paused Append returns: the writer takes what is pending, or somebody
\* closes the buffer.  Backpressure is not a deadlock.
PauseEnds == op[Reader] = "paused" ~> op[Reader] = "idle"

=============================================================================
