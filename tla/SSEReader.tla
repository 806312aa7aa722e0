----------------------------- MODULE SSEReader -----------------------------
(***************************************************************************)
(* Reader.ReadEvent (pkg/sse/scanner.go) over the bufio.Reader it is built *)
(* on.  What matters is the boundary between the two: ReadLine returns a   *)
(* slice of bufio's own buffer, the network delivers in pieces of any      *)
(* size, and a line that does not fit comes in several parts.              *)
(*                                                                         *)
(* Bytes are cells.  A line is a cell for its field name (with its colon)  *)
(* followed by the cells of its value; a line end is a cell; each cell     *)
(* knows its place in the stream.  Carriage returns are left out.          *)
(***************************************************************************)
EXTENDS Integers, Sequences, SequencesExt

CONSTANTS
  BufSize,   \* NewReaderSize: 64 KB
  Fields,    \* the field names the stream uses, a comment's among them
  MaxLines,  \* bound: lines of a stream
  MaxLength  \* bound: cells of a line

ASSUME ReaderAssumption ==
  /\ BufSize \in Nat \ {0} /\ MaxLines \in Nat /\ MaxLength \in Nat
  /\ "text" \notin Fields /\ "end" \notin Fields

\* A line is a field name and the length of its value; a blank line has none.
Blank == [field |-> "blank", length |-> 0]
Lines == {Blank} \cup [field : Fields, length : 0 .. MaxLength - 1]

CellsOf(line) ==
  IF line = Blank
    THEN <<>>
    ELSE <<line.field>> \o [i \in 1 .. line.length |-> "text"]

\* Where the ends of some lines are in their stream.
Ends(ls) ==
  LET ends[i \in 0 .. Len(ls)] ==
        IF i = 0 THEN 0 ELSE ends[i - 1] + Len(CellsOf(ls[i])) + 1
  IN  ends

\* The cells of a line at their places.
LineCells(ls, i) ==
  [j \in DOMAIN CellsOf(ls[i]) |->
     [kind |-> CellsOf(ls[i])[j], place |-> Ends(ls)[i - 1] + j]]

\* The stream of some lines; the last one may lack its end.
Encode(ls, isEnded) ==
  LET ends == Ends(ls)
      size == ends[Len(ls)] - IF isEnded \/ ls = <<>> THEN 0 ELSE 1
      lineAt(p) == CHOOSE i \in DOMAIN ls : ends[i - 1] < p /\ p <= ends[i]
  IN  [p \in 1 .. size |->
         IF p = ends[lineAt(p)]
           THEN [kind |-> "end", place |-> p]
           ELSE LineCells(ls, lineAt(p))[p - ends[lineAt(p) - 1]]]

VARIABLES
  lines, ended,  \* external: what upstream sends
  network,       \* external: the cells not yet read from the connection
  broken,        \* external: the connection was reset
  buf, r, w,     \* bufio's buffer: the cells r + 1 .. w are unread
  pc,            \* "line", "rest" (inside the isPrefix loop), "eof", "failed"
  fullLine,      \* the parts of the line joined so far
  aliased,       \* fullLine is still bufio's buffer, and not a copy
  event,         \* eventType, id and dataBuf of the event being read
  events         \* the events returned

vars == <<lines, ended, network, broken, buf, r, w, pc, fullLine, aliased,
          event, events>>

NoEvent == [type |-> <<>>, id |-> <<>>, data |-> <<>>]
NoCell == [kind |-> "end", place |-> 0]

Init ==
  /\ lines \in BoundedSeq(Lines, MaxLines)
  /\ ended \in BOOLEAN
  /\ network = Encode(lines, ended)
  /\ broken = FALSE
  /\ buf = [i \in 1 .. BufSize |-> NoCell] /\ r = 0 /\ w = 0
  /\ pc = "line"
  /\ fullLine = <<>> /\ aliased = FALSE
  /\ event = NoEvent
  /\ events = <<>>

-----------------------------------------------------------------------------
\* The parsing of one complete line.  A line without a value sets its field
\* to nothing, and nothing is what the field was.
Started(ev) == ev # NoEvent

Values(cells) == Tail(cells)

ParseLine(ev, cells) ==
  CASE cells[1].kind = "data"  -> [ev EXCEPT !.data = Append(@, Values(cells))]
    [] cells[1].kind = "event" -> [ev EXCEPT !.type = Values(cells)]
    [] cells[1].kind = "id"    -> [ev EXCEPT !.id = Values(cells)]
    [] OTHER                   -> ev

\* Mutant: the next event starts with the fields of the last one.
TakeLineKeepsEvent(cells) ==
  /\ pc' = "line" /\ fullLine' = <<>> /\ aliased' = FALSE
  /\ IF cells # <<>>
       THEN event' = ParseLine(event, cells) /\ UNCHANGED events
       ELSE /\ events' = IF Started(event) THEN Append(events, event) ELSE events
            /\ UNCHANGED event

\* A whole line is in hand: an empty one ends an event, if there is any.
TakeLine(cells) ==
  /\ pc' = "line" /\ fullLine' = <<>> /\ aliased' = FALSE
  /\ IF cells # <<>>
       THEN event' = ParseLine(event, cells) /\ UNCHANGED events
       ELSE /\ events' = IF Started(event) THEN Append(events, event) ELSE events
            /\ event' = NoEvent

\* fullLine as it is when the next part is appended to it: an alias shows
\* what the buffer holds by then.
Joined == IF aliased THEN buf ELSE fullLine

\* A part that ends its line.
LastPart(cells) ==
  TakeLine(IF pc = "rest" THEN Joined \o cells ELSE cells)

\* A part that fills the buffer: append copies unless it is the first.
Prefix ==
  /\ pc' = "rest"
  /\ IF pc = "rest"
       THEN fullLine' = Joined \o buf /\ aliased' = FALSE
       ELSE fullLine' = <<>> /\ aliased' = TRUE
  /\ UNCHANGED <<event, events>>

Unread == SubSeq(buf, r + 1, w)
LineEnds == {i \in r + 1 .. w : buf[i].kind = "end"}

Reading == pc \in {"line", "rest"}

\* bufio.ReadLine, with a line end in the buffer.
ReadBufferedLine ==
  /\ Reading /\ LineEnds # {}
  /\ LET e == CHOOSE i \in LineEnds : \A j \in LineEnds : i <= j
     IN  /\ LastPart(SubSeq(buf, r + 1, e - 1))
         /\ r' = e
  /\ UNCHANGED <<lines, ended, network, broken, buf, w>>

\* bufio.ReadLine, with a full buffer and no line end in it.
ReadFullBuffer ==
  /\ Reading /\ LineEnds = {} /\ r = 0 /\ w = BufSize
  /\ Prefix
  /\ r' = w
  /\ UNCHANGED <<lines, ended, network, broken, buf, w>>

\* bufio's fill: the unread cells move to the front of the buffer, and one
\* Read of the connection puts some more behind them.
Fill ==
  /\ Reading /\ LineEnds = {} /\ w - r < BufSize
  /\ network # <<>>
  /\ \E n \in 1 .. Len(network) :
       /\ n <= BufSize - (w - r)
       /\ buf' = [i \in 1 .. BufSize |->
                    IF i <= w - r THEN buf[r + i]
                    ELSE IF i <= w - r + n THEN network[i - (w - r)]
                    ELSE buf[i]]
       /\ r' = 0 /\ w' = w - r + n
       /\ network' = SubSeq(network, n + 1, Len(network))
  /\ UNCHANGED <<lines, ended, broken, pc, fullLine, aliased, event, events>>

\* The connection has nothing more: ReadLine returns what is unread as a
\* line, whether the stream ended or broke.
ReadLastLine ==
  /\ Reading /\ LineEnds = {} /\ network = <<>>
  /\ r < w /\ w - r < BufSize
  /\ LastPart(Unread)
  /\ r' = w
  /\ UNCHANGED <<lines, ended, network, broken, buf, w>>

\* ReadLine returns the error.  At the end of the stream the event read so
\* far is returned first; inside the isPrefix loop it is not.
ReadError ==
  /\ Reading /\ LineEnds = {} /\ network = <<>> /\ r = w
  /\ IF ~broken /\ pc = "line" /\ Started(event)
       THEN events' = Append(events, event) /\ event' = NoEvent /\ UNCHANGED pc
       ELSE pc' = (IF broken THEN "failed" ELSE "eof") /\ UNCHANGED <<event, events>>
  /\ UNCHANGED <<lines, ended, network, broken, buf, r, w, fullLine, aliased>>

\* External: the connection is reset; what was not read from it is lost.
Break ==
  /\ Reading /\ network # <<>>
  /\ network' = <<>> /\ broken' = TRUE
  /\ UNCHANGED <<lines, ended, buf, r, w, pc, fullLine, aliased, event, events>>

Terminated == ~Reading /\ UNCHANGED vars

Next ==
  \/ ReadBufferedLine \/ ReadFullBuffer \/ Fill \/ ReadLastLine \/ ReadError
  \/ Break \/ Terminated

Spec == Init /\ [][Next]_vars

-----------------------------------------------------------------------------
\* Every variable keeps its type.
TypeOK ==
  /\ r \in 0 .. BufSize /\ w \in r .. BufSize
  /\ DOMAIN buf = 1 .. BufSize
  /\ pc \in {"line", "rest", "eof", "failed"}
  /\ aliased \in BOOLEAN /\ broken \in BOOLEAN /\ ended \in BOOLEAN
  /\ aliased => pc \in {"rest", "eof", "failed"}
  /\ DOMAIN event = {"type", "id", "data"}

\* The events of a stream, from its lines: what a reader of whole lines sees.
Finish(state) ==
  IF Started(state.event) THEN Append(state.events, state.event)
                          ELSE state.events

ReadWhole(state, cells) ==
  IF cells # <<>>
    THEN [state EXCEPT !.event = ParseLine(@, cells)]
    ELSE [events |-> Finish(state), event |-> NoEvent]

After(ls) ==
  LET after[i \in 0 .. Len(ls)] ==
        IF i = 0 THEN [events |-> <<>>, event |-> NoEvent]
                 ELSE ReadWhole(after[i - 1], LineCells(ls, i))
  IN  after

EventsOfLines == Finish(After(lines)[Len(lines)])

\* Reassembly: however the network cuts the stream, the events returned are
\* the first of those of its lines, and none is changed or cut short.
EventsGenuine == IsPrefix(events, EventsOfLines)

\* The events are genuine, and at the end of a stream that did not break they
\* are all there.
FramesExact ==
  /\ EventsGenuine
  /\ pc = "eof" => events = EventsOfLines

\* The same, for the streams whose lines fit bufio's buffer with their ends:
\* how the network cuts them does not matter.
FitsBuffer == \A i \in DOMAIN lines : Len(CellsOf(lines[i])) < BufSize

FittingFramesExact == FitsBuffer => FramesExact

=============================================================================
