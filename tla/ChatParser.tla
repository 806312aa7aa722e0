----------------------------- MODULE ChatParser -----------------------------
(***************************************************************************)
(* What happens to a chat-completions chunk between the reader and the     *)
(* writer of a session: the parser (pkg/semantic/parser.go:81-336) turns   *)
(* it into typed segments, the pending buffer merges neighbours            *)
(* (segments.go:22-175), and the serializer (serializer.go:51-185) writes  *)
(* what the writer took.                                                   *)
(*                                                                         *)
(* The two goroutines meet in the buffer, and in one more place: every     *)
(* segment holds a copy of the parser's CommonMetadata, and all copies     *)
(* made since the first unknown root field share one map, Extra.  A write  *)
(* and an iteration of that map take time here, so that they can overlap.  *)
(*                                                                         *)
(* A fragment of text is named by its chunk and its place in it.           *)
(***************************************************************************)
EXTENDS Naturals, Sequences, SequencesExt, Functions

CONSTANTS
  ChoiceIndices, \* choice indices
  Roles,       \* roles of a delta
  Fields,      \* names of the reasoning field, in the order they are looked up
  ToolIndices, \* indices of tool calls
  ToolIds,     \* ids of tool calls
  None,        \* an absent role, field or id
  Chunks,      \* the chunks upstream may send
  MaxChunks    \* bound: chunks of a stream

\* One choice of a chunk.
ToolDelta == [index : ToolIndices, id : ToolIds \cup {None}]

ChoiceChunk ==
  [choice : ChoiceIndices, role : Roles \cup {None}, reasoning : Fields \cup {None},
   content : BOOLEAN, tools : Seq(ToolDelta), extraDelta : BOOLEAN,
   finish : BOOLEAN]

Chunk == [form : {"chunk", "done", "error", "malformed"},
          extra : BOOLEAN, choices : Seq(ChoiceChunk), usage : BOOLEAN]

\* A chunk has one entry per choice.
ASSUME ParserAssumption ==
  /\ None \notin Roles \cup Fields \cup ToolIds
  /\ Chunks \subseteq Chunk
  /\ \A c \in Chunks : IsInjective([i \in DOMAIN c.choices |-> c.choices[i].choice])
  /\ MaxChunks \in Nat

VARIABLES
  received,   \* history: the chunks read so far
  rpc,        \* the reader: "read", "extra" (inside the map write), "parse",
              \* "append"
  parsed,     \* the segments of the chunk it is appending
  seenRoles,  \* the last role emitted per choice
  extraMap,   \* meta.Extra has been allocated
  pending,    \* the pending buffer
  wpc,        \* the writer: "swap", "write", "extra" (inside the iteration)
  inflight,   \* what it took and has not written
  written,    \* the segments the client got
  crashed     \* the runtime stopped the program: concurrent map access

readerVars == <<received, rpc, parsed, seenRoles, extraMap>>
writerVars == <<wpc, inflight, written>>
vars == <<readerVars, pending, writerVars, crashed>>

Init ==
  /\ received = <<>> /\ rpc = "read" /\ parsed = <<>>
  /\ seenRoles = [c \in ChoiceIndices |-> None]
  /\ extraMap = FALSE
  /\ pending = <<>>
  /\ wpc = "swap" /\ inflight = <<>> /\ written = <<>>
  /\ crashed = FALSE

-----------------------------------------------------------------------------
\* A segment: its kind, its choice, what else CanMerge compares, the chunks
\* its text comes from, the indices and the calls of a tool-call segment, the
\* choices in the bytes of a raw one, and whether its metadata holds the
\* shared map.
Segment(kind, choice, field, n) ==
  [kind |-> kind, choice |-> choice, field |-> field, text |-> <<n>>,
   order |-> <<>>, calls |-> <<>>, data |-> <<>>, extra |-> extraMap]

\* The bytes of a raw segment go to the client as they are: those of a whole
\* chunk, or those of a delta without the choice it belongs to.  Of an error
\* only that it is one is kept.
Raw(kind, n, choices) ==
  [Segment(kind, None, None, n) EXCEPT !.data = choices]

\* Every delta has its place in the order; of those with one index, the last
\* one's call is kept.
ToolCalls(c, n) ==
  LET kept(index) == SelectLastInSeq(c.tools, LAMBDA t : t.index = index)
  IN  [Segment("tool", c.choice, None, n) EXCEPT
         !.order = [j \in DOMAIN c.tools |-> c.tools[j].index],
         !.calls = [index \in {t.index : t \in ToSet(c.tools)} |->
                      [id |-> c.tools[kept(index)].id,
                       arguments |-> << <<n, kept(index)>> >>]]]

If(condition, segs) == IF condition THEN segs ELSE <<>>

\* Mutant: every role is emitted.
AnyRole(c) == c.role # None

\* A role is emitted when it is not the choice's last one.
NewRole(c) == c.role # None /\ seenRoles[c.choice] # c.role

\* An unknown delta field only counts when the delta has nothing else.
parseChoice(c, n) ==
  LET delta ==
        If(NewRole(c), <<Segment("role", c.choice, c.role, n)>>)
        \o If(c.reasoning # None,
              <<Segment("reasoning", c.choice, c.reasoning, n)>>)
        \o If(c.content, <<Segment("content", c.choice, None, n)>>)
        \o If(c.tools # <<>>, <<ToolCalls(c, n)>>)
  IN  delta
      \o If(c.extraDelta /\ delta = <<>>, <<Raw("unknown", n, <<>>)>>)
      \o If(c.finish, <<Segment("finish", c.choice, None, n)>>)

parseChatCompletionsEvent(chunk, n) ==
  LET body ==
        FlattenSeq([i \in DOMAIN chunk.choices |->
                      parseChoice(chunk.choices[i], n)])
        \o If(chunk.usage, <<Segment("usage", None, None, n)>>)
  IN  IF chunk.form = "chunk"
        THEN IF body = <<>> THEN <<Raw("unknown", n, chunk.choices)>> ELSE body
        ELSE <<Raw(IF chunk.form = "malformed" THEN "unknown" ELSE chunk.form,
                   n, <<>>)>>

\* The role each choice has after a chunk: that of its last delta with one.
RolesAfter(chunk) ==
  [c \in ChoiceIndices |->
     LET said == SelectLastInSeq(chunk.choices,
                                 LAMBDA d : d.choice = c /\ d.role # None)
     IN  IF said = 0 THEN seenRoles[c] ELSE chunk.choices[said].role]

-----------------------------------------------------------------------------
\* Merging of neighbours.
\* Mutant: the choice index is not compared.
CanMergeAnyChoice(s, n) ==
  /\ s.kind = n.kind /\ s.field = n.field
  /\ s.kind \in {"reasoning", "content", "tool", "role"}
  /\ \A i \in DOMAIN s.calls \cap DOMAIN n.calls :
       None \in {s.calls[i].id, n.calls[i].id} \/ s.calls[i].id = n.calls[i].id

CanMerge(s, n) ==
  /\ s.kind = n.kind /\ s.choice = n.choice /\ s.field = n.field
  /\ s.kind \in {"reasoning", "content", "tool", "role"}
  /\ \A i \in DOMAIN s.calls \cap DOMAIN n.calls :
       None \in {s.calls[i].id, n.calls[i].id} \/ s.calls[i].id = n.calls[i].id

With(calls, i, call) ==
  [j \in DOMAIN calls \cup {i} |-> IF j = i THEN call ELSE calls[j]]

\* Mutant: an id that comes late is lost.
MergeCallKeepsId(s, i, call) ==
  IF i \in DOMAIN s.calls
    THEN [s EXCEPT !.calls[i].arguments = @ \o call.arguments]
    ELSE [s EXCEPT !.order = Append(@, i), !.calls = With(@, i, call)]

\* A call joins the one with its index, or the end.
MergeCall(s, i, call) ==
  IF i \in DOMAIN s.calls
    THEN LET own == s.calls[i]
         IN  [s EXCEPT !.calls =
                With(@, i, [id |-> IF own.id = None THEN call.id ELSE own.id,
                            arguments |-> own.arguments \o call.arguments])]
    ELSE [s EXCEPT !.order = Append(@, i), !.calls = With(@, i, call)]

Merge(s, n) ==
  LET merged[k \in 0 .. Len(n.order)] ==
        IF k = 0 THEN [s EXCEPT !.text = @ \o n.text]
                 ELSE MergeCall(merged[k - 1], n.order[k], n.calls[n.order[k]])
  IN  merged[Len(n.order)]

Insert(segs, seg) ==
  IF segs # <<>> /\ CanMerge(Last(segs), seg)
    THEN Append(Front(segs), Merge(Last(segs), seg))
    ELSE Append(segs, seg)

-----------------------------------------------------------------------------
\* The reader.

ReadChunk ==
  \E chunk \in Chunks :
    /\ ~crashed /\ rpc = "read" /\ Len(received) < MaxChunks
    /\ received' = Append(received, chunk)
    /\ rpc' = IF chunk.form = "chunk" /\ chunk.extra THEN "extra" ELSE "parse"
    /\ UNCHANGED <<parsed, seenRoles, extraMap, pending, writerVars, crashed>>

\* The end of the write of an unknown root field into the shared map.
ExtraWritten ==
  /\ ~crashed /\ rpc = "extra"
  /\ extraMap' = TRUE
  /\ rpc' = "parse"
  /\ UNCHANGED <<received, parsed, seenRoles, pending, writerVars, crashed>>

ParseChunk ==
  /\ ~crashed /\ rpc = "parse"
  /\ parsed' = parseChatCompletionsEvent(Last(received), Len(received))
  /\ seenRoles' = IF Last(received).form = "chunk"
                    THEN RolesAfter(Last(received)) ELSE seenRoles
  /\ rpc' = "append"
  /\ UNCHANGED <<received, extraMap, pending, writerVars, crashed>>

AppendSegment ==
  /\ ~crashed /\ rpc = "append"
  /\ pending' = Insert(pending, Head(parsed))
  /\ parsed' = Tail(parsed)
  /\ rpc' = IF Tail(parsed) = <<>> THEN "read" ELSE "append"
  /\ UNCHANGED <<received, seenRoles, extraMap, writerVars, crashed>>

\* The writer.

TakeSnapshot ==
  /\ ~crashed /\ wpc = "swap" /\ pending # <<>>
  /\ inflight' = pending /\ pending' = <<>>
  /\ wpc' = "write"
  /\ UNCHANGED <<readerVars, written, crashed>>

\* baseMap copies the shared map; a raw segment has its own bytes.
Iterates(s) == s.extra /\ s.kind \notin {"unknown", "error", "done"}

StartIteration ==
  /\ ~crashed /\ wpc = "write" /\ Iterates(Head(inflight))
  /\ wpc' = "extra"
  /\ UNCHANGED <<readerVars, pending, inflight, written, crashed>>

WriteSegment ==
  /\ ~crashed
  /\ \/ wpc = "extra"
     \/ wpc = "write" /\ ~Iterates(Head(inflight))
  /\ written' = Append(written, Head(inflight))
  /\ inflight' = Tail(inflight)
  /\ wpc' = IF Tail(inflight) = <<>> THEN "swap" ELSE "write"
  /\ UNCHANGED <<readerVars, pending, crashed>>

\* A map that is iterated and written at once: the runtime stops the program
\* when it notices; it need not.
ConcurrentMapAccess ==
  /\ ~crashed /\ rpc = "extra" /\ wpc = "extra"
  /\ crashed' = TRUE
  /\ UNCHANGED <<readerVars, pending, writerVars>>

\* All is written, or the program has stopped.
Terminated ==
  /\ crashed \/ (/\ rpc = "read" /\ Len(received) = MaxChunks
                 /\ wpc = "swap" /\ pending = <<>>)
  /\ UNCHANGED vars

Next ==
  \/ ReadChunk \/ ExtraWritten \/ ParseChunk \/ AppendSegment
  \/ TakeSnapshot \/ StartIteration \/ WriteSegment
  \/ ConcurrentMapAccess
  \/ Terminated

Spec == Init /\ [][Next]_vars

-----------------------------------------------------------------------------
\* A delta's arguments: the chunk and the delta's place in it.
Fragments == (1 .. MaxChunks) \X (Nat \ {0})

Call == [id : ToolIds \cup {None}, arguments : Seq(Fragments)]

\* A segment has a call for every index of its order.
IsSegment(s) ==
  /\ s.kind \in {"role", "reasoning", "content", "tool", "finish", "usage",
                 "unknown", "error", "done"}
  /\ s.choice \in ChoiceIndices \cup {None}
  /\ s.field \in Roles \cup Fields \cup {None}
  /\ s.text \in Seq(1 .. MaxChunks) /\ s.extra \in BOOLEAN
  /\ s.order \in Seq(ToolIndices) /\ s.calls \in [ToSet(s.order) -> Call]
  /\ s.data \in Seq(ChoiceChunk)

\* Every variable keeps its type; a program counter says what is there to do.
TypeOK ==
  /\ received \in Seq(Chunks) /\ Len(received) <= MaxChunks
  /\ rpc \in {"read", "extra", "parse", "append"}
  /\ rpc \in {"extra", "parse"} => received # <<>>
  /\ seenRoles \in [ChoiceIndices -> Roles \cup {None}]
  /\ extraMap \in BOOLEAN /\ crashed \in BOOLEAN
  /\ wpc \in {"swap", "write", "extra"}
  /\ \A s \in ToSet(parsed \o pending \o inflight \o written) : IsSegment(s)
  /\ rpc = "append" <=> parsed # <<>>
  /\ wpc = "swap" <=> inflight = <<>>

\* What is on its way, from the client back to the parser.
Emitted == written \o inflight \o pending \o parsed

\* The chunks the reader has parsed.
Parsed == IF rpc \in {"extra", "parse"} THEN Front(received) ELSE received

\* The choices of a chunk; one of another form goes to the client as it is.
ChoicesOf(chunk) == If(chunk.form = "chunk", chunk.choices)

\* The roles some choices give the choice c.
RolesIn(choices, c) ==
  FlattenSeq([i \in DOMAIN choices |->
    If(choices[i].choice = c /\ choices[i].role # None, <<choices[i].role>>)])

\* The roles upstream gave a choice, those the parser emitted for it, and
\* those a client reads: emitted, and in the chunks passed on as they are.
RolesSent(c) ==
  FlattenSeq([n \in DOMAIN Parsed |-> RolesIn(ChoicesOf(Parsed[n]), c)])

Role(s, c) == If(s.kind = "role" /\ s.choice = c, <<s.field>>)

Told(s, c) == IF s.kind = "unknown" THEN RolesIn(s.data, c) ELSE Role(s, c)

RolesOf(c) == FlattenSeq([i \in DOMAIN Emitted |-> Role(Emitted[i], c)])

RolesTold(c) == FlattenSeq([i \in DOMAIN Emitted |-> Told(Emitted[i], c)])

\* A sequence without what only repeats its predecessor.
Changes(s) ==
  FlattenSeq([i \in DOMAIN s |-> If(i = 1 \/ s[i] # s[i - 1], <<s[i]>>)])

\* A role segment is emitted for every change of a choice's role upstream and
\* for nothing else.  A chunk that has only roles known already is passed on
\* as it is and tells the client one of them again (DuplicateRoleIgnored);
\* wherever it comes among the others, it is the role the choice has there:
\* the client reads the changes that upstream made.
RolesExact ==
  \A c \in ChoiceIndices :
    /\ RolesOf(c) = Changes(RolesSent(c))
    /\ Changes(RolesTold(c)) = Changes(RolesSent(c))

Piece(kind, choice, field, n) ==
  [of |-> <<kind, choice, field>>, n |-> n]

\* The text of one chunk, in the order of the protocol.
ChoicePieces(c, n) ==
  If(c.reasoning # None, <<Piece("reasoning", c.choice, c.reasoning, n)>>)
  \o If(c.content, <<Piece("content", c.choice, None, n)>>)
  \o If(c.tools # <<>>, <<Piece("tool", c.choice, None, n)>>)
  \o If(c.finish, <<Piece("finish", c.choice, None, n)>>)

ChunkPieces(chunk, n) ==
  FlattenSeq([i \in DOMAIN ChoicesOf(chunk) |->
                ChoicePieces(ChoicesOf(chunk)[i], n)])
  \o If(chunk.form = "chunk" /\ chunk.usage, <<Piece("usage", None, None, n)>>)

SegmentPieces(s) ==
  IF s.kind \in {"role", "unknown", "error", "done"}
    THEN <<>>
    ELSE [i \in DOMAIN s.text |-> Piece(s.kind, s.choice, s.field, s.text[i])]

\* Through parsing, merging and two goroutines, the order of the stream is
\* that of upstream, over all choices and all kinds but roles and what is
\* passed on as it is: no text, tool call, end or usage is dropped, repeated
\* or moved over another.
CausalOrder ==
  FlattenSeq([i \in DOMAIN Emitted |-> SegmentPieces(Emitted[i])])
    = FlattenSeq([n \in DOMAIN Parsed |-> ChunkPieces(Parsed[n], n)])

\* How a client puts tool calls together: a delta continues the last call of
\* its index unless both have ids and these differ.
Deliver(calls, item) ==
  LET key == <<item.choice, item.index>>
      own == calls[key]
  IN  IF own # <<>> /\ (None \in {Last(own).id, item.id} \/ Last(own).id = item.id)
        THEN [calls EXCEPT ![key] =
                Append(Front(own),
                       [id |-> IF Last(own).id = None THEN item.id ELSE Last(own).id,
                        arguments |-> Last(own).arguments \o item.arguments])]
        ELSE [calls EXCEPT ![key] =
                Append(own, [id |-> item.id, arguments |-> item.arguments])]

Delivered(items) ==
  LET calls[k \in 0 .. Len(items)] ==
        IF k = 0 THEN [key \in ChoiceIndices \X ToolIndices |-> <<>>]
                 ELSE Deliver(calls[k - 1], items[k])
  IN  calls[Len(items)]

ItemsOf(s) == [j \in DOMAIN s.order |->
                 LET call == s.calls[s.order[j]]
                 IN  [choice |-> s.choice, index |-> s.order[j],
                      id |-> call.id, arguments |-> call.arguments]]

ChoiceItems(c, n) ==
  [j \in DOMAIN c.tools |->
     [choice |-> c.choice, index |-> c.tools[j].index,
      id |-> c.tools[j].id, arguments |-> << <<n, j>> >>]]

UpstreamItems(chunk, n) ==
  FlattenSeq([i \in DOMAIN ChoicesOf(chunk) |->
                ChoiceItems(ChoicesOf(chunk)[i], n)])

EmittedItems == FlattenSeq([i \in DOMAIN Emitted |-> ItemsOf(Emitted[i])])

ReceivedItems ==
  FlattenSeq([n \in DOMAIN Parsed |-> UpstreamItems(Parsed[n], n)])

ArgumentsOf(items, choice, index) ==
  FlattenSeq([i \in DOMAIN items |->
    If(items[i].choice = choice /\ items[i].index = index, items[i].arguments)])

IndexNamesOneCall ==
  \A i, j \in DOMAIN ReceivedItems :
    LET a == ReceivedItems[i]  b == ReceivedItems[j]
    IN  a.choice = b.choice /\ a.index = b.index =>
          None \in {a.id, b.id} \/ a.id = b.id

\* A choice of a chunk has one delta per call.
OneDeltaPerCall ==
  \A n \in DOMAIN Parsed : \A i \in DOMAIN ChoicesOf(Parsed[n]) :
    LET tools == ChoicesOf(Parsed[n])[i].tools
    IN  IsInjective([j \in DOMAIN tools |-> tools[j].index])

\* README.md:17: arguments are concatenated byte for byte, and calls isolated
\* by choice and index.
ArgumentsKept ==
  \A choice \in ChoiceIndices, index \in ToolIndices :
    ArgumentsOf(EmittedItems, choice, index)
      = ArgumentsOf(ReceivedItems, choice, index)

\* The arguments of every (choice, index) reach the client as upstream sent
\* them, however calls share segments and segments are merged; and a client
\* that puts calls together by their ids gets those of upstream, ids that come
\* late included.  Both as long as no chunk has two deltas of one call (the
\* first is overwritten and the last written twice: parser.go:289), the latter
\* as long as an index stands for one call (where upstream uses an index
\* again, a delta without id that the writer has not taken yet adopts the id
\* of the next call: segments.go:129).
ToolCallsIsolated ==
  OneDeltaPerCall =>
    /\ ArgumentsKept
    /\ IndexNamesOneCall => Delivered(EmittedItems) = Delivered(ReceivedItems)

\* A delta with nothing but a role.
OnlyRole(chunk) ==
  /\ chunk.form = "chunk" /\ ~chunk.usage /\ Len(chunk.choices) = 1
  /\ chunk.choices[1].role # None /\ chunk.choices[1].reasoning = None
  /\ ~chunk.choices[1].content /\ chunk.choices[1].tools = <<>>
  /\ ~chunk.choices[1].extraDelta /\ ~chunk.choices[1].finish

\* docs/architecture.md:63: duplicate roles are ignored and never create a
\* barrier.  A chunk with only a duplicate role leaves no segment.
DuplicateRoleIgnored ==
  \A i \in DOMAIN Emitted :
    Emitted[i].kind = "unknown" => ~OnlyRole(received[Emitted[i].text[1]])

\* docs/architecture.md:22: the reader goes on aggregating while the writer
\* writes.  It may not touch what the writer is reading.
NoConcurrentMapAccess == ~crashed

=============================================================================
