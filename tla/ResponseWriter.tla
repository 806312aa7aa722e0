---------------------------- MODULE ResponseWriter ----------------------------
(***************************************************************************)
(* Compression of the answers (pkg/compress/compress.go).  ServeHTTP wraps *)
(* the writer of every response: WriteHeader decides whether the body is   *)
(* encoded and takes an encoder from a pool, which Close gives back when   *)
(* the handler has returned.  Encoders are shared by all responses, keep   *)
(* what they were given until it pays to write it, and remember a failed   *)
(* write until they are reset.                                             *)
(*                                                                         *)
(* The body is a sequence of numbered writes.  What an encoder writes at   *)
(* once, and what net/http does, is external.                              *)
(***************************************************************************)
EXTENDS Integers, Sequences, SequencesExt, FiniteSets

CONSTANTS
  Responses,   \* responses that are served at once
  Requests,    \* the requests they answer
  Answers,     \* what handlers pass to WriteHeader
  EncoderIds,  \* names of encoders
  MaxWrites,   \* bound: writes of a handler
  None

Encodings == {"zstd", "gzip"}

\* An Accept-Encoding header is a list of codings and weights, in tenths.
Request == [accept : Seq([coding : STRING, q : Int]), range : BOOLEAN]

\* A status with a body or one without (1xx, 204, 304), and the coding of
\* a body that upstream has encoded.
Answer == [body : BOOLEAN, coding : STRING \cup {None}]

ASSUME ResponseAssumption ==
  /\ Requests \subseteq Request /\ Answers \subseteq Answer /\ None \notin Answers
  /\ None \notin Encodings \cup (Encodings \X EncoderIds) \cup (0 .. 10)
  /\ IsFiniteSet(Responses)
  /\ Cardinality(EncoderIds) >= Cardinality(Responses)
  /\ MaxWrites \in Nat

VARIABLES
  request,  \* the request of each response
  rw,       \* its ResponseWriter
  pool,     \* the encoders in the two pools
  encoders, \* where an encoder writes to, what it holds back, its error
  wire,     \* what net/http was given for each response
  seen,     \* how much of that has left
  given,    \* history: writes of each handler
  flushed,  \* history: how many of them a Flush has returned for
  gone,     \* the clients that went away
  totals    \* the bytes AddCompressionBytes was told

vars == <<request, rw, pool, encoders, wire, seen, given, flushed, gone, totals>>

-----------------------------------------------------------------------------
\* Negotiation.

Clamp(q) == IF q < 0 THEN 0 ELSE IF q > 10 THEN 10 ELSE q

\* The last mention of a coding counts; others are not looked at.
ReadPart(items, part) ==
  IF part.coding \in DOMAIN items
    THEN [items EXCEPT ![part.coding] = Clamp(part.q)] ELSE items

\* What the mentions up to the last say.
Items(accept) ==
  LET read[n \in 0 .. Len(accept)] ==
        IF n = 0 THEN [c \in Encodings \cup {"*"} |-> None]
                 ELSE ReadPart(read[n - 1], accept[n])
  IN  read[Len(accept)]

\* The star stands for a coding that is not mentioned.
Weights(accept) ==
  LET items == Items(accept)
  IN  [c \in Encodings |->
         IF items[c] # None THEN items[c]
             ELSE IF items["*"] # None THEN items["*"] ELSE 0]

SelectEncoding(accept) ==
  LET q == Weights(accept)
  IN  CASE q["zstd"] > 0 /\ q["zstd"] >= q["gzip"] -> "zstd"
        [] q["gzip"] > q["zstd"]                   -> "gzip"
        [] OTHER                                   -> None

\* A writer before its header: the request alone decides on the encoding.
WrapResponseWriter(req) ==
  [encoding |-> IF req.range THEN None ELSE SelectEncoding(req.accept),
   phase |-> "new", answer |-> None, header |-> None, encoder |-> None,
   uncompressed |-> 0]

Encoders == Encodings \X EncoderIds

Blank == [dest |-> None, buffer |-> <<>>, failed |-> FALSE]

Init ==
  /\ request \in [Responses -> Requests]
  /\ rw = [r \in Responses |-> WrapResponseWriter(request[r])]
  /\ pool = {} /\ encoders = [e \in Encoders |-> Blank]
  /\ wire = [r \in Responses |-> <<>>] /\ seen = [r \in Responses |-> 0]
  /\ given = [r \in Responses |-> 0] /\ flushed = [r \in Responses |-> 0]
  /\ gone = {}
  /\ totals = [uncompressed |-> 0, compressed |-> 0]

-----------------------------------------------------------------------------
\* The encoders.

Held == {rw[r].encoder : r \in Responses}

\* sync.Pool gives one that was put into it, or a new one.
Available(coding) ==
  {e \in Encoders : e[1] = coding /\ (e \in pool \/ e \notin Held)}

\* Mutant: an encoder from the pool goes on where it was.
ResetForgotten(e, r) ==
  IF e \in pool THEN encoders[e] ELSE [dest |-> r, buffer |-> <<>>, failed |-> FALSE]

Reset(e, r) == [dest |-> r, buffer |-> <<>>, failed |-> FALSE]

\* Units go to where the encoder writes; into a broken connection they are
\* lost and the encoder fails from then on.
EncoderOutput(e, units, rest) ==
  LET enc == encoders[e]
      broken == enc.failed \/ (enc.dest \in gone /\ units # <<>>)
  IN  /\ encoders' = [encoders EXCEPT ![e].buffer = rest, ![e].failed = broken]
      /\ wire' = IF broken THEN wire ELSE [wire EXCEPT ![enc.dest] = @ \o units]

\* A write of the handler, or the end of an encoded body (number 0).
Unit(r, n) == [of |-> r, n |-> n, coding |-> rw[r].encoding]

\* What has been given to net/http leaves.
Leave(r) == seen' = IF r \in gone THEN seen ELSE [seen EXCEPT ![r] = Len(wire'[r])]

\* The handler.

\* Mutant: a body that upstream encoded is encoded again.
EncodesAgain(r, answer) == rw[r].encoding # None /\ answer.body

Encodes(r, answer) ==
  rw[r].encoding # None /\ answer.body /\ answer.coding = None

WriteHeaderPlain(r, answer) ==
  /\ rw' = [rw EXCEPT ![r].phase = "open", ![r].answer = answer,
                      ![r].header = answer.coding, ![r].encoding = None]
  /\ UNCHANGED <<pool, encoders>>

WriteHeaderEncoded(r, answer) ==
  \E e \in Available(rw[r].encoding) :
    /\ pool' = pool \ {e}
    /\ encoders' = [encoders EXCEPT ![e] = Reset(e, r)]
    /\ rw' = [rw EXCEPT ![r].phase = "open", ![r].answer = answer,
                        ![r].header = rw[r].encoding, ![r].encoder = e]

\* Called by the handler, or by its first Write or Flush with a 200.
WriteHeader(r) ==
  \E answer \in Answers :
    /\ rw[r].phase = "new"
    /\ IF Encodes(r, answer) THEN WriteHeaderEncoded(r, answer)
                             ELSE WriteHeaderPlain(r, answer)
    /\ UNCHANGED <<request, wire, seen, given, flushed, gone, totals>>

\* An encoder writes as much of what it has as it likes.
WriteEncoded(r) ==
  LET data == Append(encoders[rw[r].encoder].buffer, Unit(r, given[r] + 1))
  IN  /\ rw' = [rw EXCEPT ![r].uncompressed = @ + 1]
      /\ \E k \in 0 .. Len(data) :
           EncoderOutput(rw[r].encoder, SubSeq(data, 1, k),
                         SubSeq(data, k + 1, Len(data)))

WritePlain(r) ==
  /\ wire' = IF r \in gone THEN wire
             ELSE [wire EXCEPT ![r] = Append(@, Unit(r, given[r] + 1))]
  /\ UNCHANGED <<rw, encoders>>

Write(r) ==
  /\ rw[r].phase = "open" /\ rw[r].answer.body /\ given[r] < MaxWrites
  /\ given' = [given EXCEPT ![r] = @ + 1]
  /\ IF rw[r].encoding = None THEN WritePlain(r) ELSE WriteEncoded(r)
  /\ UNCHANGED <<request, pool, seen, flushed, gone, totals>>

\* Mutant: only net/http is flushed.
FlushEncoderForgotten(r) == UNCHANGED <<encoders, wire>>

FlushEncoder(r) ==
  IF rw[r].encoder = None
    THEN UNCHANGED <<encoders, wire>>
    ELSE EncoderOutput(rw[r].encoder, encoders[rw[r].encoder].buffer, <<>>)

\* The errors of an encoder are not passed on.
Flush(r) ==
  /\ rw[r].phase = "open"
  /\ FlushEncoder(r) /\ Leave(r)
  /\ flushed' = [flushed EXCEPT ![r] = given[r]]
  /\ UNCHANGED <<request, rw, pool, given, gone, totals>>

\* The handler returned without an encoder: nothing to close.
ClosePlain(r) ==
  /\ rw[r].phase \in {"new", "open"} /\ rw[r].encoder = None
  /\ rw' = [rw EXCEPT ![r].phase = "closed"]
  /\ UNCHANGED wire /\ Leave(r)
  /\ UNCHANGED <<request, pool, encoders, given, flushed, gone, totals>>

\* Mutant: the encoder is flushed and not closed.
CloseEncoderUnfinished(r) ==
  /\ rw[r].phase = "open" /\ rw[r].encoder # None
  /\ EncoderOutput(rw[r].encoder, encoders[rw[r].encoder].buffer, <<>>)
  /\ rw' = [rw EXCEPT ![r].phase = "closing"]
  /\ UNCHANGED <<request, pool, seen, given, flushed, gone, totals>>

\* The encoder writes what it has and the end of the body ...
CloseEncoder(r) ==
  /\ rw[r].phase = "open" /\ rw[r].encoder # None
  /\ EncoderOutput(rw[r].encoder,
                   Append(encoders[rw[r].encoder].buffer, Unit(r, 0)), <<>>)
  /\ rw' = [rw EXCEPT ![r].phase = "closing"]
  /\ UNCHANGED <<request, pool, seen, given, flushed, gone, totals>>

\* Mutant: the bytes are those that have left before the last flush.
PutEncoderCountsSent(r) ==
  /\ rw[r].phase = "closing"
  /\ pool' = pool \cup {rw[r].encoder}
  /\ rw' = [rw EXCEPT ![r].phase = "closed", ![r].encoder = None]
  /\ totals' = [uncompressed |-> totals.uncompressed + rw[r].uncompressed,
                compressed |-> totals.compressed + seen[r]]
  /\ UNCHANGED wire /\ Leave(r)
  /\ UNCHANGED <<request, encoders, given, flushed, gone>>

\* ... and goes back to the pool; the bytes are reported once.
PutEncoder(r) ==
  /\ rw[r].phase = "closing"
  /\ pool' = pool \cup {rw[r].encoder}
  /\ rw' = [rw EXCEPT ![r].phase = "closed", ![r].encoder = None]
  /\ totals' = [uncompressed |-> totals.uncompressed + rw[r].uncompressed,
                compressed |-> totals.compressed + Len(wire[r])]
  /\ UNCHANGED wire /\ Leave(r)
  /\ UNCHANGED <<request, encoders, given, flushed, gone>>

\* The client closes its connection: writes fail from now on.
ClientLeaves(r) ==
  /\ rw[r].phase # "closed" /\ r \notin gone
  /\ gone' = gone \cup {r}
  /\ UNCHANGED <<request, rw, pool, encoders, wire, seen, given, flushed, totals>>

\* The garbage collector empties a pool.
PoolDrops ==
  /\ pool # {} /\ pool' = {}
  /\ UNCHANGED <<request, rw, encoders, wire, seen, given, flushed, gone, totals>>

Terminated == /\ \A r \in Responses : rw[r].phase = "closed"
              /\ UNCHANGED vars

Next ==
  \/ \E r \in Responses :
       \/ WriteHeader(r) \/ Write(r) \/ Flush(r)
       \/ ClosePlain(r) \/ CloseEncoder(r) \/ PutEncoder(r)
       \/ ClientLeaves(r)
  \/ PoolDrops
  \/ Terminated

Spec == Init /\ [][Next]_vars

-----------------------------------------------------------------------------
UnitType == [of : Responses, n : 0 .. MaxWrites, coding : Encodings \cup {None}]

\* Every variable keeps its type, and a writer that is going to use its
\* encoder has one.
TypeOK ==
  /\ request \in [Responses -> Requests]
  /\ pool \subseteq Encoders /\ gone \subseteq Responses
  /\ \A e \in Encoders :
       /\ encoders[e].dest \in Responses \cup {None}
       /\ encoders[e].buffer \in Seq(UnitType)
       /\ encoders[e].failed \in BOOLEAN
  /\ \A r \in Responses :
       /\ wire[r] \in Seq(UnitType) /\ seen[r] \in 0 .. Len(wire[r])
       /\ given[r] \in 0 .. MaxWrites /\ flushed[r] \in 0 .. given[r]
       /\ rw[r].phase \in {"new", "open", "closing", "closed"}
       /\ rw[r].encoder \in Encoders \cup {None}
       /\ rw[r].phase = "open" =>
            (rw[r].encoding = None <=> rw[r].encoder = None)
  /\ totals \in [uncompressed : Nat, compressed : Nat]

\* An encoder serves one response at a time, and one in the pool none.
EncodersExclusive ==
  /\ Held \cap pool = {}
  /\ \A r, s \in Responses :
       r # s /\ rw[r].encoder # None => rw[r].encoder # rw[s].encoder

Numbered(r, count) == [n \in 1 .. count |-> Unit(r, n)]

\* However encoders are passed from one response to the next, and whatever
\* became of the response before, a client is given nothing but the writes of
\* its own handler, in order, in one coding, and an end only at the end.
OwnBytesOnly ==
  \A r \in Responses :
    LET end == rw[r].phase \in {"closing", "closed"} /\ wire[r] # <<>>
                 /\ Last(wire[r]) = Unit(r, 0)
        body == IF end THEN Front(wire[r]) ELSE wire[r]
    IN  body = Numbered(r, Len(body)) /\ Len(body) <= given[r]

\* After a Flush a client that is still there can decode everything that was
\* written before it: an encoder holds no event of a stream back.
FlushedIsSeen ==
  \A r \in Responses \ gone : seen[r] >= flushed[r]

\* The proxy has encoded the body.
Applied(r) ==
  rw[r].answer # None /\ rw[r].header \notin {None, rw[r].answer.coding}

\* A response that is over is complete: all writes have left, followed by the
\* end of the body if it is encoded; a status without body has none.
CompleteAtEnd ==
  \A r \in Responses : rw[r].phase = "closed" /\ r \notin gone =>
    /\ seen[r] = Len(wire[r])
    /\ wire[r] = Numbered(r, given[r])
                   \o IF Applied(r) THEN <<Unit(r, 0)>> ELSE <<>>

Mentions(accept, coding) == {i \in DOMAIN accept : accept[i].coding = coding}

\* The weight a client gives to a coding: that of its last mention, or else
\* that of the last star.
Preference(accept, coding) ==
  LET LastWeight(c) == Clamp(accept[Max(Mentions(accept, c))].q)
  IN  CASE Mentions(accept, coding) # {} -> LastWeight(coding)
        [] Mentions(accept, coding) = {} /\ Mentions(accept, "*") # {} ->
             LastWeight("*")
        [] OTHER -> 0

\* The header names the coding of the body, whatever became of the encoder:
\* that of upstream, untouched, or the one the proxy applied, which no client
\* gets that refused it, prefers the other one or asked for a range.
HeaderNamesCoding ==
  \A r \in Responses : rw[r].answer # None =>
    LET applied == {wire[r][i].coding : i \in DOMAIN wire[r]} \ {None}
        P(coding) == Preference(request[r].accept, coding)
    IN  /\ applied \subseteq {rw[r].header}
        /\ rw[r].answer.coding # None =>
             rw[r].header = rw[r].answer.coding /\ applied = {}
        /\ Applied(r) => /\ P(rw[r].header) > 0 /\ ~request[r].range
                         /\ \A c \in Encodings : P(c) <= P(rw[r].header)

\* The responses whose body the proxy encoded and that are over.
Reported == {r \in Responses : rw[r].phase = "closed" /\ Applied(r)}

\* So many of each of them, one by one.
Tally(count) == UNION {{r} \X (1 .. count[r]) : r \in Reported}

\* The metrics are told every byte that was written for an encoded body and
\* every byte that was sent for it when the response is over, once.
BytesReportedOnce ==
  /\ totals.uncompressed = Cardinality(Tally(given))
  /\ totals.compressed = Cardinality(Tally([r \in Responses |-> Len(wire[r])]))

=============================================================================
