------------------------------ MODULE Sessions ------------------------------
(***************************************************************************)
(* The requests of the proxy and those who watch them: the handlers of     *)
(* /v1/chat/completions and /v1/responses (pkg/proxy/server.go:476-654 and *)
(* 914-1026), the monitor hub (pkg/proxy/monitor.go), the /monitor handler *)
(* (server.go:1049-1100) and the last-request table (server.go:406-425).   *)
(*                                                                         *)
(* A handler asks HasSubscribers in one critical section of the hub and    *)
(* broadcasts in another.  Broadcasts share the lock, so their sends to    *)
(* different channels may interleave; the sends to one channel do not, and *)
(* nothing here relates two channels, so a broadcast is one step.          *)
(***************************************************************************)
EXTENDS Naturals, Sequences

CONSTANTS
  Requests,     \* chat and responses requests
  Models,       \* the models they and the viewers name
  NoModel,      \* the empty name: a request without a model, and the filter
                \* of a viewer that watches all of them
  Viewers,      \* connections to /monitor
  Capacity,     \* of a viewer's channel: 256
  MaxChunks,    \* bound: segments written to the client of a request
  Nil

ASSUME SessionsAssumption ==
  /\ NoModel \notin Models /\ Nil \notin Requests
  /\ Capacity \in Nat \ {0} /\ MaxChunks \in Nat

VARIABLES
  model, stream,  \* of each request
  stage,          \* where its handler is
  chunks,         \* segments its client got
  filter,         \* of each viewer
  vpc,            \* its handler: "new", "headers", "watching", "left"
  subscribers,    \* the viewers whose channel is registered with the hub
  queue,          \* the channels
  closedCh,       \* the channels that are closed
  seen,           \* history: what a viewer took from its channel
  dropped,        \* history: the viewers that missed an event, too slow
  lastReqs        \* the request recorded last, per model

requestVars == <<model, stream, stage, chunks>>
hubVars == <<subscribers, queue, closedCh, dropped>>
viewerVars == <<filter, vpc, seen>>
vars == <<requestVars, hubVars, viewerVars, lastReqs>>

Stages == {"new", "announce", "route", "ask", "relay", "packet", "reply",
           "response", "responseEnd", "record", "recordStream", "end",
           "lastEvent", "done"}

Event(type, r) == [type |-> type, of |-> r]

Init ==
  /\ model \in [Requests -> Models \cup {NoModel}]
  /\ stream \in [Requests -> BOOLEAN]
  /\ stage = [r \in Requests |-> "new"]
  /\ chunks = [r \in Requests |-> 0]
  /\ filter \in [Viewers -> Models \cup {NoModel}]
  /\ vpc = [v \in Viewers |-> "new"]
  /\ subscribers = {} /\ closedCh = {} /\ dropped = {}
  /\ queue = [v \in Viewers |-> <<>>]
  /\ seen = [v \in Viewers |-> <<>>]
  /\ lastReqs = [m \in Models |-> Nil]

-----------------------------------------------------------------------------
\* The hub.

Addressed(m) == {v \in subscribers : filter[v] \in {NoModel, m}}

HasSubscribers(m) == Addressed(m) # {}

\* Mutant: the send waits for room in every channel.
BroadcastBlocking(ev) ==
  LET to == Addressed(model[ev.of])
  IN  /\ \A v \in to : Len(queue[v]) < Capacity
      /\ queue' = [v \in Viewers |->
                     IF v \in to THEN Append(queue[v], ev) ELSE queue[v]]
      /\ UNCHANGED <<subscribers, closedCh, dropped>>

\* A full channel misses the event; the sender does not wait.
Broadcast(ev) ==
  LET to == Addressed(model[ev.of])
      full == {v \in to : Len(queue[v]) >= Capacity}
  IN  /\ queue' = [v \in Viewers |->
                     IF v \in to \ full THEN Append(queue[v], ev) ELSE queue[v]]
      /\ dropped' = dropped \cup full
      /\ UNCHANGED <<subscribers, closedCh>>

-----------------------------------------------------------------------------
\* The /monitor handler.

\* Its headers are flushed before it subscribes.
ViewerConnects(v) ==
  /\ vpc[v] = "new"
  /\ vpc' = [vpc EXCEPT ![v] = "headers"]
  /\ UNCHANGED <<requestVars, hubVars, filter, seen, lastReqs>>

Subscribe(v) ==
  /\ vpc[v] = "headers"
  /\ vpc' = [vpc EXCEPT ![v] = "watching"]
  /\ subscribers' = subscribers \cup {v}
  /\ UNCHANGED <<requestVars, queue, closedCh, dropped, filter, seen, lastReqs>>

Watch(v) ==
  /\ vpc[v] = "watching" /\ queue[v] # <<>>
  /\ seen' = [seen EXCEPT ![v] = Append(@, Head(queue[v]))]
  /\ queue' = [queue EXCEPT ![v] = Tail(@)]
  /\ UNCHANGED <<requestVars, subscribers, closedCh, dropped, filter, vpc,
                 lastReqs>>

\* Mutant: the channel is closed and stays registered.
LeaveRegistered(v) ==
  /\ vpc[v] = "watching"
  /\ vpc' = [vpc EXCEPT ![v] = "left"]
  /\ closedCh' = closedCh \cup {v}
  /\ UNCHANGED <<requestVars, subscribers, queue, dropped, filter, seen,
                 lastReqs>>

\* The viewer goes away or a write to it fails: the deferred unsub.
Leave(v) ==
  /\ vpc[v] = "watching"
  /\ vpc' = [vpc EXCEPT ![v] = "left"]
  /\ subscribers' = subscribers \ {v}
  /\ closedCh' = closedCh \cup {v}
  /\ UNCHANGED <<requestVars, queue, dropped, filter, seen, lastReqs>>

-----------------------------------------------------------------------------
\* A request's handler.

Goto(r, s) == stage' = [stage EXCEPT ![r] = s]

Quiet == UNCHANGED <<model, stream, chunks, hubVars, viewerVars, lastReqs>>

\* Send the event if somebody is there, and go on in any case.
AskHub(r, from, yes, no) ==
  /\ stage[r] = from
  /\ Goto(r, IF HasSubscribers(model[r]) THEN yes ELSE no)
  /\ Quiet

Tell(r, from, type, to) ==
  /\ stage[r] = from
  /\ Broadcast(Event(type, r))
  /\ Goto(r, to)
  /\ UNCHANGED <<model, stream, chunks, viewerVars, lastReqs>>

\* The body is read and the monitor asked, or the body cannot be read.
Begin(r) ==
  \/ AskHub(r, "new", "announce", "route")
  \/ stage[r] = "new" /\ Goto(r, "done") /\ Quiet

Announce(r) == Tell(r, "announce", "request", "route")

\* An unknown model or upstream is a 400.
Route(r) ==
  \E next \in {"ask", "record"} : stage[r] = "route" /\ Goto(r, next) /\ Quiet

\* A streaming request: an error is a 502, an answer that is not a stream is
\* passed on, and a request that cannot be made is not recorded.
AskUpstreamStream(r) ==
  \E next \in {"record", "done", "relay"} :
    stage[r] = "ask" /\ stream[r] /\ Goto(r, next) /\ Quiet

\* Any other: a request that cannot be made, and an answer that cannot be
\* read, are not recorded either.
AskUpstream(r) ==
  \E next \in {"record", "done", "reply"} :
    stage[r] = "ask" /\ ~stream[r] /\ Goto(r, next) /\ Quiet

\* ProcessStream hands a segment to the packet callback, and writes it.
\* (What the serializer returned is never empty.)
Packet(r) ==
  /\ stage[r] = "relay" /\ chunks[r] < MaxChunks
  /\ Goto(r, IF HasSubscribers(model[r]) THEN "packet" ELSE "relay")
  /\ chunks' = [chunks EXCEPT ![r] = @ + 1]
  /\ UNCHANGED <<model, stream, hubVars, viewerVars, lastReqs>>

TellPacket(r) == Tell(r, "packet", "chunk", "relay")

\* ProcessStream returns; its error is not looked at.
StreamEnds(r) == stage[r] = "relay" /\ Goto(r, "recordStream") /\ Quiet

\* Only requests that name a model are recorded.
recordLastReq(r, from, to) ==
  /\ stage[r] = from
  /\ lastReqs' = [m \in Models |-> IF m = model[r] THEN r ELSE lastReqs[m]]
  /\ Goto(r, to)
  /\ UNCHANGED <<model, stream, chunks, hubVars, viewerVars>>

RecordStream(r) == recordLastReq(r, "recordStream", "end")

\* Mutant: a stream ends without a word.
SessionEndSilent(r) == stage[r] = "end" /\ Goto(r, "done") /\ Quiet

\* The deferred function of a stream.
SessionEnd(r) == AskHub(r, "end", "lastEvent", "done")

TellEnd(r) == Tell(r, "lastEvent", "session_end", "done")

\* Any other answer is announced, with its end, before it is written.
Reply(r) == AskHub(r, "reply", "response", "record")

TellResponse(r) == Tell(r, "response", "response", "responseEnd")

\* Mutant: the end is sent here, and again by the deferred function.
TellResponseEndTwice(r) == Tell(r, "responseEnd", "session_end", "end")

TellResponseEnd(r) == Tell(r, "responseEnd", "session_end", "record")

Record(r) == recordLastReq(r, "record", "done")

Handler(r) ==
  Begin(r) \/ Announce(r) \/ Route(r) \/ AskUpstreamStream(r) \/ AskUpstream(r)
    \/ TellPacket(r) \/ RecordStream(r) \/ SessionEnd(r) \/ TellEnd(r)
    \/ Reply(r) \/ TellResponse(r) \/ TellResponseEnd(r) \/ Record(r)

\* The requests are done; the viewers may stay.
Terminated ==
  /\ \A r \in Requests : stage[r] = "done"
  /\ UNCHANGED vars

Next ==
  \/ \E r \in Requests : Handler(r) \/ Packet(r) \/ StreamEnds(r)
  \/ \E v \in Viewers :
       ViewerConnects(v) \/ Subscribe(v) \/ Watch(v) \/ Leave(v)
  \/ Terminated

\* Handlers run, upstream answers or the client gives up, and streams end
\* (StreamPipeline).  Viewers need not do anything.
Spec ==
  /\ Init /\ [][Next]_vars
  /\ \A r \in Requests : WF_vars(Handler(r)) /\ WF_vars(StreamEnds(r))

-----------------------------------------------------------------------------
Events == [type : {"request", "chunk", "response", "session_end"}, of : Requests]

\* Every variable keeps its type, and no channel holds more than it can.
TypeOK ==
  /\ model \in [Requests -> Models \cup {NoModel}]
  /\ stream \in [Requests -> BOOLEAN]
  /\ stage \in [Requests -> Stages]
  /\ chunks \in [Requests -> 0 .. MaxChunks]
  /\ filter \in [Viewers -> Models \cup {NoModel}]
  /\ vpc \in [Viewers -> {"new", "headers", "watching", "left"}]
  /\ subscribers \subseteq Viewers /\ closedCh \subseteq Viewers
  /\ dropped \subseteq Viewers
  /\ \A v \in Viewers :
       queue[v] \in Seq(Events) /\ Len(queue[v]) <= Capacity /\ seen[v] \in Seq(Events)
  /\ lastReqs \in [Models -> Requests \cup {Nil}]

\* No broadcast sends on a closed channel, which would stop the program: a
\* channel is closed under the lock that takes it out of the hub.
NoSendOnClosed == subscribers \cap closedCh = {}

\* What a viewer has seen and is about to see.
Told(v) == seen[v] \o queue[v]

Position(type) ==
  CASE type = "request" -> 1
    [] type \in {"chunk", "response"} -> 2
    [] type = "session_end" -> 3

\* Whatever a viewer misses, what it sees of a request is in order: the
\* request first and once, the end last and once, and between them the chunks
\* of a stream or the one response.
SessionsInOrder ==
  \A v \in Viewers : \A i, j \in DOMAIN Told(v) :
    LET a == Told(v)[i]  b == Told(v)[j]
    IN  i < j /\ a.of = b.of =>
          \/ Position(a.type) < Position(b.type)
          \/ a.type = "chunk" /\ b.type = "chunk"

\* A viewer that has seen something of an answer sees its end after it, unless
\* it left or was too slow: also one that came in the middle of a stream.
EndIsSeen ==
  \A v \in subscribers \ dropped : \A i \in DOMAIN Told(v) :
    LET a == Told(v)[i]
    IN  a.type \in {"chunk", "response"} /\ stage[a.of] = "done" =>
          \E j \in DOMAIN Told(v) :
            i < j /\ Told(v)[j] = Event("session_end", a.of)

\* No viewer holds up a request, however slow and whenever it comes: every
\* request that has begun is finished.
RequestsEnd == \A r \in Requests : stage[r] # "new" ~> stage[r] = "done"

=============================================================================
