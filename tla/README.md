# A TLA+ model of buffered-llm-proxy

The proxy stands between LLM clients and upstream APIs that stream answers as
server-sent events. It reads an upstream stream as fast as it comes, merges
what the client has not taken yet into fewer, longer events, and holds the
upstream back when too much is pending. This directory models the parts of it
in which goroutines meet, checks them with TLC on small instances, and proves
with TLAPS every safety property the runs check, for any number of requests,
events and bytes: of the pending buffer, the central part, the session around
it, the SSE reader, streams of both protocols from parser to client, the models
cache, the monitor hub, the compressed responses, and routing. Sessions and
Responses streams are proved to implement one abstract specification of what the
proxy promises a client. Liveness is left to TLC.

Line numbers refer to the files under `src/`; `PROJECT.json` maps every
definition to the lines it models.

## Inventory

| part | code | state | operations | talks to |
|---|---|---|---|---|
| pending buffer | `pkg/aggregator/buffer.go` | pending segments and their bytes, barrier flag and channel, closed, error, two condition variables | Append, Swap, Close, Len | called by the reader, the writer and the monitor of a session |
| stream pipeline | `pkg/aggregator/stream.go` | two contexts, three goroutines, token counts | ProcessStream | SSE reader, parser, buffer, serializer, client, metrics |
| segments | `pkg/semantic/segments.go` | text or tool calls, indices, metadata | CanMerge, Merge, BytesLen | merged by the buffer |
| parser, serializer | `pkg/semantic/parser.go`, `serializer.go` | roles seen, metadata of the stream | ParseEvent, SerializeSegment | reader; writer; *the metadata map both reach* |
| Responses API | `parser.go:338-613`, `segments.go:243-460`, `serializer.go:187-272` | as above | as above | as above |
| SSE reader | `pkg/sse/scanner.go` | bufio's buffer, the event being read | ReadEvent | the upstream connection |
| models endpoint | `pkg/proxy/server.go:656-889` | cached response, mutex, "updating" flag | GET /v1/models, background refresh | upstreams |
| request handlers | `server.go:476-654`, `914-1026` | where a request is | chat, responses | upstream, pipeline, hub, last-request table |
| monitor hub | `pkg/proxy/monitor.go` | subscribers and their channels | Subscribe, unsubscribe, HasSubscribers, Broadcast | handlers, GET /monitor |
| last-request table | `server.go:406-425` | one record per model | record, read | handlers |
| routing, headers | `server.go:207-256`, `703-889`, `914-1011` | names and keys of the upstreams | resolve a model, rewrite names, merge catalogues | handlers, upstreams |
| metrics | `pkg/metrics/metrics.go` | atomic counters, accumulators per model | increments, snapshots | everything |
| compression | `pkg/compress/compress.go` | header written, encoder, closed | WriteHeader, Write, Flush, Close | wraps every response |
| configuration, main | `pkg/config`, `cmd/proxy` | none | flags, start, shutdown | - |
| dashboard | `dashboard.html` | in the browser | - | /metrics, /monitor |

What is hard about it, and what has to hold:

* **Buffer.** Producers pause at the high watermark and go on below the low
  one; the consumer parks when nothing is pending and may wait for more when
  something is. A done context wakes neither. Correct means: exact
  accounting, bounded memory, no lost wakeup, no lost, repeated or reordered
  text, a barrier exactly when there is a reason for one, and an end nobody
  misses.
* **Pipeline.** Client disconnects, upstream errors and failed writes hit
  three goroutines in any state. Correct means: the client gets a coalesced
  form of what was read, a nil result means all of it, the call returns, and no
  goroutine is left behind.
* **Parser to serializer.** Several choices, kinds and tool calls share
  chunks, segments and metadata. Correct means: the order of the stream
  survives, and tool calls stay apart.
* **SSE reader.** The network cuts frames anywhere. Correct means: the events
  are those of the lines.
* **Models endpoint.** First requests and refreshes overlap. Correct means: one
  fetch at a time, a cache that does not go back, nobody left waiting.
* **Sessions.** Viewers come and go in the middle of a request. Correct
  means: they see it in order and with its end, and cannot hold it up.
* **Responses API.** Merged deltas of text, reasoning and arguments keep one
  sequence number, one call id, one list of logprobs. Correct means: a client
  that breaks off can resume where it was, and nothing a delta had is lost.
* **Compression.** Responses share pooled encoders that hold data back and
  remember errors. Correct means: a client gets its own bytes, all of them,
  in time, in the coding the header names.
* **Routing.** Names have prefixes, models have slashes, keys have names.
  Correct means: what is listed can be asked for, and no key goes astray.

`PROJECT.json` lists the hazards of each part at the line where they bite.

## Modules

```
Segment ── PendingBuffer ─┬─ BufferClients ──┬─ MCBufferClients
                          │                  └─ StreamPipelineProofs, part one
                          └─ StreamPipeline ─┬─ MCStreamPipeline
                                  │          └─ StreamPipelineProofs, part two
                                  └ implements CoalescingStream
SSEReader ─┬─ MCSSEReader             ChatParser ─┬─ MCChatParser
           └─ SSEReaderProofs                     └─ ChatParserProofs
ModelsCache ─┬─ MCModelsCache         Sessions ─┬─ MCSessions
             └─ ModelsCacheProofs               └─ SessionsProofs
ResponseWriter ─┬─ MCResponseWriter   Gateway ─┬─ MCGateway
                └─ ResponseWriterProofs        └─ GatewayProofs
ResponsesParser ─┬─ MCResponsesParser
    │            └─ ResponsesParserProofs
    └ implements CoalescingStream
```

**Segment.** What the buffer knows of a segment. A *key* stands for its Go
type and the indices `CanMerge` compares; a tool-call segment has a set of
calls, each an index and possibly an id; text is the sequence of the upstream
fragments it was built from, and bytes are a number plus an overhead per key,
as in `BytesLen`. A merge is given the largest size it can have: the code
counts a repeated id or name once.

**PendingBuffer.** One action per critical section of `mu`. A goroutine in
`Wait` is a member of a wait set (`notEmpty`, `belowHighWater`); Signal removes
any one member, Broadcast all, and who was removed runs its loop test again in
a step of its own, after whoever got the lock first. The coalescing select is
the state `"coalescing"`, left by the timer, the closed channel or the
context. `op`, `arg`, `ret` and `got` are where a goroutine is in its call,
its argument and its result. A context is a set of goroutines for which it is
done; being done wakes a select and no condition variable.

**BufferClients.** Any number of producers and one consumer that use the whole
interface, with contexts cancelled and the buffer closed at any time. It keeps
the history of what was accepted and delivered. One obligation comes from the
pipeline: who cancels a context closes the buffer in the end (`CloseOnDone`).
`BytesExact` counts the pending bytes one by one, and `InOrder` cuts the
history: each segment delivered or pending holds the text of what was accepted
between two cuts.

**StreamPipeline.** `ProcessStream` over the same buffer: `rpc`, `mpc` and
`wpc` are the program counters of the reader (191-263), the monitor (171-177)
and the writer (266-318) with the deferred functions in the order Go runs them
(`"stop"`, `"cancel"`, `"close"`, `"record"`, `"body"`). The writer's context is
the request's, the reader's is derived from it and follows in a step of its
own. An event is a sequence of segment shapes: none (a comment or a rejected
event), one, or two (text and usage). `accepted`, `client` and `sent` are
history: what Append took, what was written, and how much of the former that is.

**CoalescingStream.** The promise of the proxy, without goroutines or buffer:
pieces come in order, runs of one kind go out, a complete stream has delivered
everything and an aborted one a prefix. `StreamPipeline!ImplementsStream` maps
`up` to what Append took, `client` to the runs written, and the status to the
result of `ProcessStream`; it is the safety of the promise, and `Delivers` its
liveness: what was taken is delivered or the stream ends.

**ChatParser.** One chunk from the parser through the merging of neighbours to
the serializer. Chunks are records (choices with role, reasoning, content, tool
calls, unknown fields, finish; usage; or done, error and malformed events), text
is the number of its chunk, a call's arguments are chunks and places in them.
A tool-call segment has the order of its deltas and a call per index, as in the
code, so that two deltas of one index behave as they do there. What the parser
finds no segment in (an event of another form, a chunk with nothing but a role that
is known) goes to the client as it is: its segment carries the choices of the
chunk, and what the client reads there counts like the rest. The write of an
unknown root field into `meta.Extra` and the serializer's iteration of that map
take time, so that they can overlap. The buffer is reduced to insert and take
here; its waiting is the subject of the modules above.

**ResponsesParser.** The same way for the Responses API: the early returns of
`parseResponsesEvent`, the three kinds of deltas with the fields their
`CanMerge` compares, and their `Merge`. A delta is one record whatever its kind;
a field it does not have is `None`, and is left out when it is written. An
event has its number among those with data as its sequence number.
`ImplementsStream` maps the module to `CoalescingStream` too, safety and liveness,
where the key of a piece is the kind, item and indices of its delta: the
abstract specification is shared by both protocols.

**ResponseWriter.** Two or more responses over the pools of `compress.go`. An
encoder has a destination, data it holds back, and an error; what it writes
at once is its own choice (`WriteEncoded`). `sync.Pool` gives any encoder that was
put into it, or a new one, and may lose them. A body is a sequence of numbered
writes that know whose they are, so that a mixture would show. Negotiation
(`SelectEncoding`) reads a list of codings and weights with a recursive function.

**Gateway.** What happens to a request beside streaming: command lines to
upstreams and keys (`ParseFlags`), model ids as sequences of their parts to a
route (`resolveUpstream`), the merged or passed catalogue, its cache, and the
coding an upstream chooses from the header it was sent. A request for a model goes
to one of the two APIs, streaming or not; upstream answers with an object or with
events, whatever was asked for, with a success or an error (`Replies`), and names the
model in one or two places of it (`Places`). The proxy puts the client's name back
in some of them: in an object, if it can read it (`RestoredAtOnce`), and in the
chunks of a chat stream it takes apart (`RestoredInStream`). The others keep
upstream's. Requests come one after the other; how they overlap is `ModelsCache`.

**SSEReader.** Bytes are cells that know their place in the stream. The model
contains bufio's buffer, because the boundary is what matters: `ReadLine`
returns a slice of it (`aliased`), and `Fill` moves and overwrites cells. What
upstream sends is a list of lines; `Encode` places their cells, and `After`, which
only the property uses, is a reader that is given whole lines.

**ModelsCache.** One handler and at most one refresher per request. A catalogue
is the version of each upstream's list that went into it; an upstream with
no name may also answer with another status, which is passed on and not
cached, and among named ones a failing upstream is left out.

**Sessions.** A request's handler as a program counter over its events,
records and early returns, the hub with bounded channels, and viewers of
`/monitor`. `HasSubscribers` and `Broadcast` are separate steps, as they are
separate critical sections. What a viewer is `Told` is what it has seen and what
is in its channel.

Definitions marked *Mutant* are the same definition with a plausible bug. No
specification uses them; substituted for the original they make one property
fail, which shows that the property depends on the code.

## Runs

Distinct states in parentheses.

| run | checks | instance and why it is enough |
|---|---|---|
| `buffer` (350 k) | accounting, watermarks, barrier, wakeups, maximal runs, order, close; the barrier ends a wait, close or cancel releases everyone | Two producers, one with one segment (text or control), one with three tool-call deltas with ids a, b or none; segments of one or two bytes around watermarks 3 and 2. Both producers pause, one Signal or Broadcast meets both, ids come late, and every cancel and close interleaves. No fairness for the timer. |
| `pipeline` (120 k) | nil means everything, reported tokens, refinement of CoalescingStream (safety, and delivery under fairness), four liveness properties | Three segments of two kinds of text and usage, which fill the buffer to the high watermark: the reader pauses, resumes and is overtaken by the writer. |
| `sse_frames` (1.6 M) | the events are those of the lines | Up to four lines of up to two cells, three field names (`id` behaves as `event`), a buffer of three; every cut, with and without a last line end, and a reset at any point. |
| `sse_long_line` | *violated*, see below | Two lines of up to four cells, a buffer of three. |
| `models_cache` (77 k) | one fetch, the cache advances, answers and refreshes end | Three requests (one fetching, one queued, one refreshing), one unnamed or two named upstreams, each with two versions. |
| `chat_parser` (170 k) | roles (by themselves and in chunks passed on), order, tool calls | Every stream of three out of sixteen chunks, with every moment at which the writer may take them. |
| `metadata_race`, `duplicate_role` | *violated*, see below | Two chunks. |
| `sessions` (420 k) | hub, order of events, ends | Two requests, with or without a model name, streaming or not, a viewer of one model or of all, a channel of two events. A session can have three events, so it overflows. |
| `responses` (170 k) | refinement of CoalescingStream, resuming, logprobs, metadata | Every stream of four out of eleven events: a merge of three deltas, and one of another kind, item or part at any place between them. |
| `response_writer` (1.3 M) | own bytes, flushes, completeness, header, byte counts | Two responses of up to two writes, so that an encoder comes back with data, an end or an error of the first and serves the second; five requests (zstd, gzip preferred, zstd refused, nothing, a range), three kinds of answers. |
| `gateway` (47 k) | a listed id leads back to its upstream, which is asked for its own; the name put back; keys stay apart | Eight command lines (two named upstreams with and without a default, an only one with a name, an only one without that has slashes in its ids or that compresses, one without a name beside another, a name that comes twice, which is refused), ids with no, one and two slashes and one called like an upstream, both APIs, streaming or not, with every kind of answer; four requests, of which one fills the cache, one reads it, one may read it refreshed, and one asks for a model. |

Bounds are constants or definitions of the MC modules: `MaxAppends`,
`MaxFragments`, `MaxChunks`, `MaxEvents`, `MaxLines`, `MaxLength`, `MaxVersion`,
`MaxWrites`, `MaxRequests`, `MaxCompletions`. All states
in which nothing can happen are explicit `Terminated` steps, so that TLC's
deadlock check is on everywhere.

### Fairness

* Goroutines that can run do, and take the mutex they wait for: weak fairness
  of their steps. Of `sync.Cond` only what its documentation says is used.
* In `BufferClients` the timer has none: `MinCoalesceWait` may be arbitrarily
  long. In `StreamPipeline` it expires.
* A write to the client ends, with success or failure. The server sets no write
  timeout, so this stands for the transport giving up.
* Nothing obliges upstream to send or to end. A read ends once the body is
  closed (`stream.go:90`) or the request's context is done, which the transport
  notices.
* In `ModelsCache` fetches end: the refresh has 30 seconds (`server.go:685`), the
  initial fetch lasts at most as long as its client stays. In `Sessions` streams
  end, which is what `StreamPipeline` shows under these assumptions.
* `ResponsesParser` needs none but what `CoalescingStream` asks of the writer: what
  is pending is taken and written. `ResponseWriter` and `Gateway` have safety only.

## What the code does not do

Three runs state what a document of the repository says and fail.

* `sse_long_line` (`EventsGenuine`): `fullLine` in `scanner.go:51` is bufio's own
  buffer when a line does not fit it (64 KB) with its end, and the next `ReadLine`
  refills that buffer before it is copied. An event is returned that upstream did
  not send.
* `metadata_race`: unknown root fields are written into a map (`parser.go:216`)
  that segments in the writer's hands share (`serializer.go:79`).
* `duplicate_role`: a chunk with only a duplicate role is passed on as an
  unknown event, role included, and is a barrier (`parser.go:136`);
  `docs/architecture.md:63` says it is ignored. The tests only have duplicates with
  text. `RolesExact` counts such chunks: they repeat the role a choice has already,
  never another.

The models contain more behaviour that a reader of the documents may not expect.
It is left out of what the runs show, by their instances or, where the run has it,
by a condition of a property:

* Swap returns the last segments and the error of a broken stream together;
  `stream.go:268` looks at the error only without segments, and the next test
  ends the loop with nil. `NilMeansEverything` speaks of what was parsed; nobody
  looks at the result of `ProcessStream` (`server.go:643`).
* A last line without an end that fills bufio's buffer exactly is lost with its
  event: `ReadLine` returns it as the first part of a line, and the end of the stream
  is met inside the loop that reads the rest (`scanner.go:55-57`). The model does the
  same; `FitsBuffer` leaves such a line out of `FittingFramesExact`.
* The client's Accept-Encoding is passed on (but for streams, `StreamAccept`). An
  upstream that compresses is left out of a merged catalogue, which cannot be
  read (`server.go:857`); a passed one is cached in the coding the first client
  took and given to all (`server.go:697`).
* The name the client asked for is not put back everywhere. A client that asked
  for `a/m` reads upstream's name of the model in a compressed object
  (`server.go:975`); in an answer to a streaming request that is not a 200 with
  events, which is copied (`server.go:569-585`), and in events nobody asked for; in
  chunks of a chat stream that go out unparsed, such as errors
  (`serializer.go:180`); and in the events of a Responses stream that describe the
  response, `response.created` or `response.completed` (`serializer.go:263-272`;
  `modelOverride` is read in `baseMap` only). The run has them all; `NamePromised` is
  what is left, and what the tests look at (`server_test.go:1254`,
  `tests/e2e_test.go:545`).
* An error of upstream's own is passed on with its status; what `ListedIsRouted`
  says is that the proxy does not refuse a listed id itself.
* A list may have ids that cannot be asked for. An id with a slash is cut at the
  first one also when there is only one, unnamed upstream (`server.go:208`):
  `org/model`, which it may list, is a 400. And the ids of an unnamed upstream
  beside others have no prefix in the merged list: they go to the upstream called
  `default`, to one called like the model, or nowhere. `Reachable` leaves them out of
  what `ListedIsRouted` promises; two command lines of the run have such ids.
* A delta of the Responses API that is no string (`shell_call_output_content`)
  leaves the text empty (`parser.go:503`). The events of `MCResponsesParser`
  have text.
* A chunk with two deltas of one tool call loses the first one's arguments
  (`parser.go:289`); `ToolCallsIsolated` has the condition `OneDeltaPerCall`, and
  the chunk is part of the run.
* Where upstream reuses a tool-call index, a pending delta without an id takes
  the id of the next call, and one already written does not
  (`segments.go:129`); hence `IndexNamesOneCall`.

## What is proved

### The buffer and the session

`StreamPipelineProofs` has two parts. The first is about `BufferClients`; it proves,
for any number of producers, any segments and appends, any watermarks and every
interleaving:

| theorem | property |
|---|---|
| `Invariance` | the inductive invariant `IInv` |
| `TypeCorrect` | `ClientsTypeOK` |
| `BytesBounded` | `ByteBound` |
| `WakeupsNotLost` | `NoLostWakeup` |
| `BarrierSound` | `BarrierExact` and `BarrierChannel` |
| `RunsMaximal` | `MaximalRuns` |
| `CloseFinal` | `ClosedIsFinal` |
| `AcceptedInOrder` | `InOrder` |
| `BytesCounted` | `BytesExact` |

The assumptions are those the modules state: `SegmentAssumption`,
`BufferAssumption` (a high watermark of at least two, for with one a paused
producer could only be released by Close) and `ClientsAssumption` (the segments
handed over have at most `MaxSegmentBytes`).

The invariant is the conjunction of the buffer's parts (`BufferInv`) and the
clients' types and bounds. None of the parts is inductive alone. `ByteBound` needs
to know what a paused Append holds, since it inserts that segment later without
looking at its size. `NoLostWakeup` needs the types of the wait sets. The two
halves of the barrier need each other: Swap replaces the channel only when
the flag is set. `MaximalRuns` needs a fact about merging: a segment that has
absorbed its successor still cannot merge with its predecessor, because the
calls that were in conflict keep their ids (lemma `ConflictStays`).
Each operation of the buffer preserves `BufferInv`, for whoever calls it; that
is shown first, and used for the clients and for the session.

`InOrder` and `BytesExact` have an invariant of their own on top (`OrderInv`):
every Append extends the last cut or adds one, whether it merges or not, every
Swap moves the pending segments behind the delivered ones, and the pending
bytes form one more row or one longer row (`BytesInv`), so that a difference
added by Append is the number of bytes it added. A paused Append holds one
fragment (`PausedSingle`), which counts only once it is inserted.

The second part takes the lemmas on the buffer's operations to the session, whose
specification is `StreamPipeline!Spec` (the variables of `BufferClients` are no part
of it), for any stream of events, any watermarks and every interleaving of its
three goroutines:

| theorem | property |
|---|---|
| `SessionInvariant`, `SessionTypes` | the inductive invariant `Inv`, `TypeOK` |
| `NilIsComplete` | `NilMeansEverything` |
| `TokensAreFinal` | `ReportedTokensFinal` |
| `SessionRefinesStream` | `ImplementsStream`: the session implements the safety of `CoalescingStream` |

A fragment is named by its place in the stream. So the segments in the buffer,
the batch in flight and what was written cover three stretches of the stream
that lie end to end (`Covers`), and no clause needs a sum or a flattened
sequence. `EndInv` says when the buffer may be closed: while `ProcessStream` runs
and the client is there, only by a reader that has handed over all it parsed.
`TokenInv` relates the counters of the reader and the writer
to the pieces taken and written, with the one segment that is counted and not
yet in the buffer. The assumption is `PipelineAssumption`.

### The models cache

`ModelsCacheProofs` proves, for any number of requests and upstreams and any
number of catalogue changes:

| theorem | property |
|---|---|
| `Invariance` | the inductive invariant `IInv` |
| `TypeCorrect` | `TypeOK` |
| `FetchesExclude` | `OneFetchAtATime` |
| `CacheNeverBack` | `CacheAdvances` |

It assumes `ModelsAssumption` and `AnswersAssumption` (the constants for errors and
for nothing are no catalogues and no versions). `OneFetchAtATime` is not
inductive. The lock keeps initial fetches apart (`LockHeld`) and the flag keeps
refreshes apart (`FlagHeld`), but only the state of the cache keeps the two kinds
apart: an initial fetch runs while it is empty, refreshes start once it is filled,
and it is never emptied (`Phases`). With one fetch at a time, what a fetch has got
lies between the cached version and upstream's present one (`Fresh`), so that
its store cannot go back.

### Handlers and viewers

`SessionsProofs` proves, for any number of requests, events and viewers and any
capacity of their channels:

| theorem | property |
|---|---|
| `Channels`, `HubInvariant`, `TypesKept` | the inductive invariants `ChannelInv` and `HubInv`, `TypeOK` |
| `ClosedNeverSent` | `NoSendOnClosed` |
| `ToldInOrder` | `SessionsInOrder` |
| `EndIsTold` | `EndIsSeen` |

`ChannelInv` says that what a viewer's handler is doing decides on its channel:
registered while it watches, closed once it has left. The rest of `HubInv` relates
what a viewer was told to the stage of the request it is about: an event was sent
by a handler that has come that far (`ToldInv`), which puts the next event after
it (`OrderInv`), and a handler whose answer a viewer saw something of is at a
stage from which it still sends the end, unless it did (`DebtInv`). That survives
a viewer that comes in the middle because it was told nothing before.

### Routing

`GatewayProofs` proves, for every command line, whatever upstreams offer and answer,
and any number of requests:

| theorem | property |
|---|---|
| `GatewayInvariant`, `TypesKept` | the inductive invariant `GatewayInv`, `TypeOK` |
| `KeysNotShared` | `KeysStayApart` |
| `ListedIsServed` | `ListedIsRouted` |

The assumption is `GatewayAssumption`: model ids have at least one part, and every
command line names an upstream whose offers are known. `GatewayInv` has the history
of answers in it (`AnswerInv`): a completion came from the upstream its id is routed
to, with that one's key, and has the client's name where `NamePromised` says so; a
refusal was for an id without a route; a list has what upstreams offer. The rest is
about sequences: a prefix that the catalogue puts before an id can be cut off
again, whatever slashes are in it (`PrefixCut`), and, since names are unique, leads
to one upstream (`NamedRoute`). `Reachable` is a condition on each model and not on
the command line, so the theorem speaks of the reachable models of command lines
that have others too.

### Compressed responses

`ResponseWriterProofs` proves, for any number of responses, any requests and
writes, and whatever encoders hold back and the pools give and lose:

| theorem | property |
|---|---|
| `Invariance`, `EncodersNotShared` | `IInv`, and its part `EncodersExclusive` |
| `BodyInvariance` | the inductive invariant `BodyInv` |
| `BodiesNotMixed` | `OwnBytesOnly` |
| `FlushesReachClients` | `FlushedIsSeen` |
| `BodiesComplete` | `CompleteAtEnd` |
| `SelectedIsPreferred` | what `SelectEncoding` returns, for every header |
| `HeadersNameCodings` | `HeaderNamesCoding` |
| `BytesReported` | `BytesReportedOnce` |

`EncodersExclusive` (an encoder serves one response at a time and one in a pool
serves none) is inductive with the fact that a response has an encoder at most
from its header until Close, and certainly while Close ends the body.
`ResponseAssumption` says that nothing (`None`) is no encoder, coding or weight,
and that there are encoders enough.

`BodyInv` has a part per phase of a response. The one that carries the proof
is `EncodedBody`: the encoder a response has writes to that response, and what the
client was given followed by what the encoder holds is what the handler wrote;
if a write has failed, the client is gone (`Holds`). It holds when an encoder comes
from the pool because it is reset there, and nobody else can break it because
encoders are not shared (`StepOfOne`).

`SelectedIsPreferred` is about a list of any length: the coding picked has a weight
above zero that no other coding exceeds, where a coding not named has that of
`*`, and none is picked only if the client accepts none. It rests on an induction
over the list (`ItemsRead`). `HeaderInv` carries it to the response. `ReportInv` says
that a writer with an encoder has counted every write; the bytes of the
responses reported are counted one by one, as in `BytesExact`.

### The SSE reader

`SSEReaderProofs` proves, for a buffer of any size, streams of any lines, every way
the network cuts them and a connection that may break at any moment:

| theorem | property |
|---|---|
| `ReaderInvariant` | the inductive invariant `Inv` |
| `ReaderTypeOK` | `TypeOK` |
| `FramesAreExact` | `FittingFramesExact` |

`Inv` says where the reader is (`Position`). Before the end of a stream it has taken
some first lines (`AtLine`): what is unread in bufio's buffer and then what is in
the network are the bytes that follow the end of the last of them, and the events
returned and the one begun are those of a reader that was given these lines
whole. From there, each action leads to the same place (`Fill`, `Break`), to the next
line (`ReadBufferedLine`), or to the end of the stream (`AllRead`) or of a broken one
(`CutOff`), by `ReadLastLine` and `ReadError`. That the first line end in the buffer
is the end of the next line is a fact about `Encode` (`Ends` grows, and a line has
no line end in it), proved from the recursive function by induction. A stream that
breaks may lose the rest of a line, but never returns the event this line belongs
to. The condition `FitsBuffer` is needed: `sse_long_line` shows what happens to a
longer line, and one of exactly the buffer's length may be lost at the end of the
stream. The assumption is `ReaderAssumption`.

### Chat-completions streams

`ChatParserProofs` proves, for streams of any chunks and any length, taken from the
buffer at any moment:

| theorem | property |
|---|---|
| `ChatTypeOK` | `TypeOK` |
| `ChatRolesExact` | `RolesExact` |
| `ChatCausalOrder` | `CausalOrder` |
| `ChatToolCallsIsolated` | `ToolCallsIsolated` |

Each property compares something read off the segments on their way to the client
with something read off the chunks parsed. Reading is done segment by segment
(`FlatMap` of a function on segments), and reading two streams one after the other
gives the two readings one after the other; so a step has to be looked at only
where it changes something. Two facts carry the proof. A parsed chunk has the
pieces, the roles and the tool-call deltas of the chunk (`parseChoice` choice by
choice; choices are apart because a chunk has one entry per choice). And a merged
segment reads like its two parts: the same pieces, and per choice and index the
same arguments and the same ids in the same order, whether a delta joins a call,
gives it its id, or starts a new one (an induction over the deltas `Merge` walks
through). The writer's steps only move segments along `Emitted`.

The inductive invariant is `IInv`. Beside the types it has the pieces in order; per
call, the ids named so far and the arguments, and that no segment has an index
twice (`ItemsGood`); per choice, that the last role sent is the one in `seenRoles`,
without which the next chunk could repeat it, and that what upstream sent and what
the client is told, unparsed chunks included, never leaves the roles emitted so far
(`Follows`, in `RolesGood`). What a client makes of
the tool calls (`Delivered`) is a fold over the whole stream. Where an index names
one call it depends only on the ids and the arguments per call, and this is what
the merges keep.

`ParserAssumption` says that absence (`None`) is no role, field or id, and that a
chunk has one entry per choice. `OneDeltaPerCall` and `IndexNamesOneCall` are
conditions inside `ToolCallsIsolated`, as in the run: the code does not check them
(see above).

### Responses streams

`ResponsesParserProofs` proves, for streams of any events and any length, taken
from the buffer at any moment:

| theorem | property |
|---|---|
| `ResponsesInvariant` | the inductive invariant `Inv` |
| `TypeCorrect` | `TypeOK` |
| `ResumeIsExact` | `ResumeExact` |
| `LogprobsFollow` | `LogprobsFollowText` |
| `MetadataKept` | `MetadataPreserved` |
| `ResponsesRefineStream` | the safety of `CoalescingStream` |

A segment holds the events between two numbers (`IsRun`): one event that is
passed on, or deltas of one place, with the last id, the one call id and the
logprobs those events had (`HasFields`). The segments pending, in flight and
written lie end to end (`Chain`). That a merge keeps `IsRun` (lemma `MergedRun`)
is the heart of it: none of the properties is inductive, since a client sees
only what several merges have left. Two conditions on what upstream sends are
hypotheses of the theorems, as the code does not check them: deltas are strings
(`DeltasAreStrings`, see above), and the deltas of one tool-call item have at most one
call id (`CallsAreItems`; `CanMerge` does not look at it, `segments.go:391-399`).
The events of the run meet both.

### How invariants were found, and how induction is done

TLC checked the inductive invariants of the sessions, the bodies, the reader and
both protocols on the runs' instances (the reader's with three lines) before
they were proved, with types in a form TLC can evaluate.

Induction over data needs a form without an operator as parameter. Where the
proofs need it, it is stated with a set of numbers (`NatInductionSet`) and applied to
recursive functions over the prefixes of a sequence, whose equations a lemma
`Recursion` gives. Elsewhere sums and concatenations are replaced by cuts, rows and
stretches that every step extends at one end.

### Only model-checked

Everything under fairness: liveness and ENABLED are out of the prover's reach. These
are `BarrierEndsWait`, `CloseReleases`, `Delivers`, `GoroutinesEnd`, `CancelReturns`,
`EndReturns`, `PauseEnds`, `RequestsAnswered`, `RequestsEnd`, and the liveness of
`ResponsesParser!ImplementsStream`. All invariants and action properties of the
passing runs are proved, those of `ResponsesParser` under the conditions named above.

## What is not modelled

* Function names and types of tool calls, scalar metadata, JSON and the wording
  of events; time stamps and durations; headers beside Accept-Encoding and
  Content-Encoding; carriage returns; the text of flags and of Accept-Encoding.
* Metrics (`pkg/metrics`): counters that are single atomic additions, a
  compare-and-swap loop for the maximum of pending bytes, and accumulators per
  model under two locks that are always taken in one order. What is reported to
  them is checked where it is made: tokens in `StreamPipeline`, bytes in
  `ResponseWriter`.
* `main`, which starts and stops net/http, and the dashboard have no state of
  their own to speak of.

`ChatParser` assumes that a chunk has one entry per choice
(`ParserAssumption`).

## Plan

Done: the buffer, the pipeline and their abstract specification; the models
endpoint; both protocols from parser to serializer; SSE reader, sessions,
compression, routing; the proofs of all the safety the runs check.

What would come next:

1. Function names that come in pieces in `ChatParser`.
2. The deferred function of `ProcessStream` that reads the model's name and the
   counters while an aborted reader may still write them (`stream.go:119`).
3. That `ChatParser` implements `CoalescingStream`, as `ResponsesParser` does.
