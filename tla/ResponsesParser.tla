--------------------------- MODULE ResponsesParser ---------------------------
(***************************************************************************)
(* A stream of the Responses API between the reader and the writer of a    *)
(* session: the parser turns every event into one segment                  *)
(* (parser.go:338-568), the pending buffer merges neighbouring deltas of   *)
(* one place (segments.go:266-424), and the serializer writes what the     *)
(* writer took, a field only when the segment has it                       *)
(* (serializer.go:187-272).                                                *)
(*                                                                         *)
(* An event's sequence number is its place among the upstream events that  *)
(* have data, which also names its text.  Events that are not deltas, and  *)
(* everything the parser cannot read, are passed on as they came.          *)
(***************************************************************************)
EXTENDS Naturals, Sequences, SequencesExt, Functions

CONSTANTS
  TextTypes,      \* response.output_text.delta, response.refusal.delta
  ReasoningTypes, \* response.reasoning_text.delta and ..._summary_text.delta
  ToolTypes,      \* response.function_call_arguments.delta and its like
  OtherTypes,     \* response.created, response.completed, error, ...
  Items,          \* item ids
  CallIds,        \* call ids
  None,           \* an absent field
  Events,         \* the events upstream may send
  MaxEvents       \* bound: events of a stream

DeltaTypes == TextTypes \cup ReasoningTypes \cup ToolTypes

\* An event: what its data is, the SSE type (or the data's own, which stands
\* in for it), and its fields.  "error" is a root field of that name, "text"
\* says that the delta is a string, "extra" is a field the parser does not
\* know.  Upstream gives every event an item and an output index.
Event ==
  [form : {"json", "done", "malformed", "empty"},
   type : DeltaTypes \cup OtherTypes, error : BOOLEAN,
   item : Items, output : Nat, content : Nat \cup {None},
   summary : Nat \cup {None}, call : CallIds \cup {None},
   response : BOOLEAN, id : BOOLEAN, logprobs : BOOLEAN, extra : BOOLEAN,
   text : BOOLEAN]

ASSUME ResponsesAssumption ==
  /\ None \notin Nat \cup CallIds \cup Items \cup DeltaTypes \cup OtherTypes
  /\ None \notin Seq(Nat)
  /\ TextTypes \cap ReasoningTypes = {} /\ TextTypes \cap ToolTypes = {}
  /\ ReasoningTypes \cap ToolTypes = {} /\ DeltaTypes \cap OtherTypes = {}
  /\ Events \subseteq Event
  /\ MaxEvents \in Nat

\* The events the parser reads as deltas.
IsDelta(e) == e.form = "json" /\ ~e.error /\ e.type \in DeltaTypes

\* What the theorems suppose of upstream, for any number of events.  Upstream
\* sends text: the parser drops the error of a delta that is none
\* (parser.go:503), which leaves the event in nobody's text.
DeltasAreStrings == \A e \in Events : IsDelta(e) => e.text

\* A tool call is an item of its own: its deltas that have a call id have one.
\* Merging does not look at call ids (segments.go:391-399).
CallsAreItems ==
  \A e, f \in Events :
    /\ IsDelta(e) /\ IsDelta(f) /\ e.type \in ToolTypes /\ e.type = f.type
    /\ e.item = f.item /\ e.output = f.output
    /\ e.call # None /\ f.call # None
    => e.call = f.call

VARIABLES
  received,  \* history: the events with data read so far
  pending,   \* the pending buffer
  inflight,  \* the segments the writer took and has not written
  written    \* the events the client got

vars == <<received, pending, inflight, written>>

Init == received = <<>> /\ pending = <<>> /\ inflight = <<>> /\ written = <<>>

-----------------------------------------------------------------------------
\* Parsing: event n becomes a segment.

Given(condition, value) == IF condition THEN value ELSE None

\* What all deltas have, and the fields only some of them have; a delta that
\* is not a string leaves the text empty.
Delta(e, n) ==
  [type |-> e.type, item |-> e.item, output |-> e.output,
   content |-> None, summary |-> None, call |-> None, logprobs |-> None,
   delta |-> IF e.text THEN <<n>> ELSE <<>>, seq |-> n,
   response |-> Given(e.response, n), id |-> Given(e.id, n),
   extra |-> Given(e.extra, n)]

TextDelta(e, n) ==
  [Delta(e, n) EXCEPT !.content = IF e.content = None THEN 0 ELSE e.content,
                      !.logprobs = Given(e.logprobs, <<n>>)]

ReasoningDelta(e, n) ==
  [Delta(e, n) EXCEPT !.content = e.content, !.summary = e.summary]

ToolCallDelta(e, n) == [Delta(e, n) EXCEPT !.call = e.call]

\* The data of a control segment is that of its event.
Control(e, n) == [type |-> e.type, data |-> n, id |-> Given(e.id, n)]

Done(n) == [done |-> TRUE, data |-> n]

DeltaOf(e, n) ==
  CASE e.type \in TextTypes      -> TextDelta(e, n)
    [] e.type \in ReasoningTypes -> ReasoningDelta(e, n)
    [] e.type \in ToolTypes      -> ToolCallDelta(e, n)

\* An event with a root error is one even when its type is that of a delta.
parseResponsesEvent(e, n) ==
  CASE e.form = "empty" -> <<>>
    [] e.form = "done"  -> <<Done(n)>>
    [] IsDelta(e)       -> <<DeltaOf(e, n)>>
    [] OTHER            -> <<Control(e, n)>>

-----------------------------------------------------------------------------
\* Merging of neighbours.

Place == {"type", "item", "output", "content", "summary"}

IsControl(s) == "data" \in DOMAIN s

\* Mutant: deltas of different items are joined.
CanMergeAnyItem(s, n) ==
  ~IsControl(s) /\ ~IsControl(n) /\ \A f \in Place \ {"item"} : s[f] = n[f]

\* Two deltas of one type, which stands for the Go type too, and of one place;
\* the call id is not looked at.
CanMerge(s, n) ==
  ~IsControl(s) /\ ~IsControl(n) /\ \A f \in Place : s[f] = n[f]

Latest(old, new) == IF new = None THEN old ELSE new
First(old, new) == IF old = None THEN new ELSE old

Text(fragments) == IF fragments = None THEN <<>> ELSE fragments

\* Mutant: logprobs are joined only to logprobs.
MergeLogprobsOnlyJoined(old, new) ==
  IF old = None \/ new = None THEN old ELSE old \o new

MergeLogprobs(old, new) == IF new = None THEN old ELSE Text(old) \o new

\* Mutant: the merged event keeps the sequence number of its first delta.
MergeKeepsSeq(s, n) ==
  [s EXCEPT !.delta = @ \o n.delta,
            !.response = Latest(@, n.response), !.id = Latest(@, n.id),
            !.extra = Latest(@, n.extra), !.call = First(@, n.call),
            !.logprobs = MergeLogprobs(@, n.logprobs)]

\* Mutant: a call id that comes late is lost.
MergeKeepsCall(s, n) ==
  [s EXCEPT !.delta = @ \o n.delta, !.seq = n.seq,
            !.response = Latest(@, n.response), !.id = Latest(@, n.id),
            !.extra = Latest(@, n.extra),
            !.logprobs = MergeLogprobs(@, n.logprobs)]

\* Each kind of delta merges the fields it has.
Merge(s, n) ==
  [s EXCEPT !.delta = @ \o n.delta, !.seq = n.seq,
            !.response = Latest(@, n.response), !.id = Latest(@, n.id),
            !.extra = Latest(@, n.extra), !.call = First(@, n.call),
            !.logprobs = MergeLogprobs(@, n.logprobs)]

Insert(segs, seg) ==
  IF segs # <<>> /\ CanMerge(Last(segs), seg)
    THEN Append(Front(segs), Merge(Last(segs), seg))
    ELSE Append(segs, seg)

-----------------------------------------------------------------------------
\* Writing: an event has a field when the segment has a value for it.  A
\* [DONE] has no more than its name.
SerializeSegment(s) ==
  Restrict(s, {f \in DOMAIN s : s[f] # None})

\* The reader: one event, parsed and appended.  Without data it leaves nothing.
ReadEvent ==
  \E e \in Events :
    LET segs == parseResponsesEvent(e, Len(received) + 1)
    IN  /\ Len(received) < MaxEvents
        /\ received' = IF e.form = "empty" THEN received ELSE Append(received, e)
        /\ pending' = IF segs = <<>> THEN pending ELSE Insert(pending, segs[1])
        /\ UNCHANGED <<inflight, written>>

\* The writer.
TakeSnapshot ==
  /\ inflight = <<>> /\ pending # <<>>
  /\ inflight' = pending /\ pending' = <<>>
  /\ UNCHANGED <<received, written>>

WriteSegment ==
  /\ inflight # <<>>
  /\ written' = Append(written, SerializeSegment(Head(inflight)))
  /\ inflight' = Tail(inflight)
  /\ UNCHANGED <<received, pending>>

\* Upstream has sent everything and the client has got it.
Terminated ==
  /\ Len(received) = MaxEvents /\ pending = <<>> /\ inflight = <<>>
  /\ UNCHANGED vars

Next == ReadEvent \/ TakeSnapshot \/ WriteSegment \/ Terminated

\* The writer goroutine goes on while there is something to write.
Spec == Init /\ [][Next]_vars /\ WF_vars(TakeSnapshot) /\ WF_vars(WriteSegment)

-----------------------------------------------------------------------------
Optional(type) == type \cup {None}

DeltaSegment ==
  [type : DeltaTypes, item : Items, output : Nat, content : Optional(Nat),
   summary : Optional(Nat), call : Optional(CallIds),
   logprobs : Optional(Seq(Nat)), delta : Seq(Nat), seq : Nat,
   response : Optional(Nat), id : Optional(Nat), extra : Optional(Nat)]

ControlSegment ==
  [type : DeltaTypes \cup OtherTypes, data : Nat, id : Optional(Nat)]

DoneSegment == [done : {TRUE}, data : Nat]

SegmentType == DeltaSegment \cup ControlSegment \cup DoneSegment

\* The fields of a delta the protocol requires.
Required == {"type", "item", "output", "delta", "seq"}

\* Every variable keeps its type, and a delta on the wire has the fields the
\* protocol requires.
TypeOK ==
  /\ received \in Seq(Events)
  /\ pending \in Seq(SegmentType) /\ inflight \in Seq(SegmentType)
  /\ \A i \in DOMAIN written :
       \/ "data" \in DOMAIN written[i]
       \/ /\ Required \subseteq DOMAIN written[i]
          /\ written[i].type \in TextTypes => "content" \in DOMAIN written[i]

\* The place of an event's text, as upstream gave it; what is not a delta
\* stands alone.
ContentOf(e) ==
  CASE e.type \in ToolTypes                      -> None
    [] e.type \in TextTypes /\ e.content = None -> 0
    [] OTHER                                     -> e.content

Key(e, n) ==
  IF IsDelta(e)
    THEN <<e.type, e.item, e.output, ContentOf(e),
           IF e.type \in ReasoningTypes THEN e.summary ELSE None>>
    ELSE <<n>>

Field(w, f) == IF f \in DOMAIN w THEN w[f] ELSE None

\* The place the client is told.
WrittenKey(w) ==
  IF IsControl(w)
    THEN <<w.data>>
    ELSE <<w.type, w.item, w.output, Field(w, "content"), Field(w, "summary")>>

FragmentsOf(s) == IF IsControl(s) THEN <<s.data>> ELSE s.delta

SequenceNumber(w) == IF IsControl(w) THEN w.data ELSE w.seq

RunOf(w) ==
  [i \in DOMAIN FragmentsOf(w) |-> [key |-> WrittenKey(w), frag |-> FragmentsOf(w)[i]]]

\* What upstream may send, piece by piece.
PiecesOf ==
  [key : {Key(e, n) : e \in Events, n \in 1 .. MaxEvents}, frag : 1 .. MaxEvents]

Stream == INSTANCE CoalescingStream
            WITH Pieces <- PiecesOf,
                 up <- [n \in DOMAIN received |->
                          [key |-> Key(received[n], n), frag |-> n]],
                 client <- [i \in DOMAIN written |-> RunOf(written[i])],
                 sent <- IF written = <<>> THEN 0
                         ELSE SequenceNumber(Last(written)),
                 status <- "open"

\* A Responses stream is a coalescing stream too: every delta reaches the
\* client once, in the order of upstream, in an event that names its item and
\* indices, never joined with a delta of another place or moved over an event
\* of another kind.
ImplementsStream == Stream!Spec

\* A client that breaks off after an event can resume after that event's
\* sequence number: what it has is exactly what upstream sent up to there.
ResumeExact ==
  \A i \in DOMAIN written :
    UNION {ToSet(FragmentsOf(written[j])) : j \in 1 .. i}
      = 1 .. SequenceNumber(written[i])

Ascending(numbers) ==
  \A i, j \in DOMAIN numbers : i < j => numbers[i] < numbers[j]

\* However text deltas with and without logprobs are merged, an event carries
\* the logprobs of exactly its own deltas, in their order, and none when no
\* delta had any.
LogprobsFollowText ==
  \A w \in ToSet(written) : ~IsControl(w) /\ w.type \in TextTypes =>
    LET own == {n \in ToSet(w.delta) : received[n].logprobs}
    IN  IF own = {} THEN "logprobs" \notin DOMAIN w
        ELSE /\ "logprobs" \in DOMAIN w
             /\ ToSet(w.logprobs) = own
             /\ Ascending(w.delta) /\ Ascending(w.logprobs)

\* No merge loses the call id, the response id, the SSE id or an unknown field
\* of a delta: the event has one if any of its deltas had, the call id being
\* that of every delta which had one and the others those of a last one.
MetadataPreserved ==
  \A w \in ToSet(written) : ~IsControl(w) =>
    /\ w.type \in ToolTypes =>
         \A n \in ToSet(w.delta) :
           received[n].call # None => Field(w, "call") = received[n].call
    /\ \A n \in ToSet(w.delta) :
         /\ received[n].response => "response" \in DOMAIN w /\ w.response >= n
         /\ received[n].id => "id" \in DOMAIN w /\ w.id >= n
         /\ received[n].extra => "extra" \in DOMAIN w /\ w.extra >= n

=============================================================================
