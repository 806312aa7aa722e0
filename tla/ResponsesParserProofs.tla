------------------------ MODULE ResponsesParserProofs ------------------------
(***************************************************************************)
(* Streams of the Responses API for any events, of any length and taken    *)
(* from the buffer at any moment.  A segment holds the events between two  *)
(* numbers, and the segments on their way from the parser to the client    *)
(* lie end to end; with that, every merge keeps what the client relies on. *)
(***************************************************************************)
EXTENDS ResponsesParser, SequenceTheorems, TLAPS

-----------------------------------------------------------------------------
\* Runs of events.

\* A segment holds the events First + 1 .. SequenceNumber.
From(s) == IF IsControl(s) THEN s.data - 1 ELSE s.delta[1] - 1
Own(s) == From(s) + 1 .. SequenceNumber(s)

PlaceOf(s) == <<s.type, s.item, s.output, s.content, s.summary>>

\* An event that is passed on.
IsRaw(rec, s) ==
  /\ s \in ControlSegment \cup DoneSegment
  /\ s.data \in 1 .. Len(rec) /\ ~IsDelta(rec[s.data])

\* Consecutive deltas of one place.
IsMerged(rec, s) ==
  /\ s \in DeltaSegment
  /\ s.delta # <<>> /\ From(s) \in Nat
  /\ \A i \in 1 .. Len(s.delta) : s.delta[i] = From(s) + i
  /\ s.seq = From(s) + Len(s.delta) /\ s.seq <= Len(rec)
  /\ \A n \in Own(s) : IsDelta(rec[n]) /\ Key(rec[n], n) = PlaceOf(s)

\* Of the numbers of the deltas that have a field, the last.
IsLatest(value, given) ==
  IF given = {} THEN value = None
                ELSE value \in given /\ \A n \in given : n <= value

\* Of the call ids of some deltas, the only one.
IsCall(value, calls) == IF calls = {} THEN value = None ELSE calls = {value}

\* The logprobs of the deltas that have some, in order.
IsLogprobs(value, given) ==
  IF given = {} THEN value = None
                ELSE /\ value \in Seq(Nat) /\ Ascending(value)
                     /\ ToSet(value) = given

CallsIn(rec, own) == {rec[n].call : n \in own} \ {None}

\* The optional fields of a delta are those of the events it holds.
HasFields(rec, s) ==
  /\ IsLatest(s.response, {n \in Own(s) : rec[n].response})
  /\ IsLatest(s.id, {n \in Own(s) : rec[n].id})
  /\ IsLatest(s.extra, {n \in Own(s) : rec[n].extra})
  /\ s.type \in ToolTypes => IsCall(s.call, CallsIn(rec, Own(s)))
  /\ s.type \in TextTypes =>
       IsLogprobs(s.logprobs, {n \in Own(s) : rec[n].logprobs})

IsRun(rec, s) == IsRaw(rec, s) \/ (IsMerged(rec, s) /\ HasFields(rec, s))

\* Segments that lie end to end and hold the events from + 1 .. to.
Chain(rec, segs, from, to) ==
  /\ segs \in Seq(SegmentType) /\ from \in Nat /\ to \in Nat
  /\ \A i \in 1 .. Len(segs) : IsRun(rec, segs[i])
  /\ \A i \in 1 .. Len(segs) - 1 : From(segs[i + 1]) = SequenceNumber(segs[i])
  /\ segs = <<>> => from = to
  /\ segs # <<>> => /\ From(segs[1]) = from
                    /\ SequenceNumber(segs[Len(segs)]) = to

\* How far the client and the writer are.
Sent == IF written = <<>> THEN 0 ELSE SequenceNumber(Last(written))
Taken == IF pending = <<>> THEN Len(received) ELSE From(pending[1])

WrittenOf(segs) == [i \in 1 .. Len(segs) |-> SerializeSegment(segs[i])]

\* The inductive invariant.
Inv ==
  /\ received \in Seq(Events)
  /\ Chain(received, pending, Taken, Len(received))
  /\ Chain(received, inflight, Sent, Taken)
  /\ \E segs \in Seq(SegmentType) :
       written = WrittenOf(segs) /\ Chain(received, segs, 0, Sent)
  /\ ResumeExact

-----------------------------------------------------------------------------
\* Segments.

\* Which segments are passed on, and what a delta is.
LEMMA Kinds ==
  /\ \A s \in DeltaSegment : ~IsControl(s)
  /\ \A s \in ControlSegment \cup DoneSegment : IsControl(s) /\ s.data \in Nat
BY DEF DeltaSegment, ControlSegment, DoneSegment, IsControl

\* Numbers in order, one list after the other.
LEMMA Joined ==
  ASSUME NEW p \in Seq(Nat), NEW q \in Seq(Nat)
  PROVE  /\ p \o q \in Seq(Nat) /\ Len(p \o q) = Len(p) + Len(q)
         /\ ToSet(p \o q) = ToSet(p) \cup ToSet(q)
         /\ /\ Ascending(p) /\ Ascending(q)
            /\ \A m \in ToSet(p), n \in ToSet(q) : m < n
            => Ascending(p \o q)
<1> DEFINE r == p \o q
<1>1. /\ r \in Seq(Nat) /\ Len(r) = Len(p) + Len(q)
      /\ Len(p) \in Nat /\ Len(q) \in Nat
      /\ DOMAIN p = 1 .. Len(p) /\ DOMAIN q = 1 .. Len(q)
      /\ DOMAIN r = 1 .. Len(p) + Len(q)
  BY ConcatProperties, LenProperties
<1>2. \A i \in 1 .. Len(p) + Len(q) :
        r[i] = IF i <= Len(p) THEN p[i] ELSE q[i - Len(p)]
  BY ConcatProperties
<1> HIDE DEF r
<1>3. \A i \in 1 .. Len(p) : i \in DOMAIN r /\ r[i] = p[i]
  BY <1>1, <1>2
<1>4. \A j \in 1 .. Len(q) : Len(p) + j \in DOMAIN r /\ r[Len(p) + j] = q[j]
  <2> SUFFICES ASSUME NEW j \in 1 .. Len(q)
               PROVE  Len(p) + j \in DOMAIN r /\ r[Len(p) + j] = q[j]
    OBVIOUS
  <2> DEFINE k == Len(p) + j
  <2>1. k \in 1 .. Len(p) + Len(q) /\ ~(k <= Len(p)) /\ k - Len(p) = j
    BY <1>1
  <2> HIDE DEF k
  <2>2. k \in DOMAIN r /\ r[k] = q[j]
    BY <1>1, <1>2, <2>1
  <2> QED BY <2>2 DEF k
<1>5. \A i \in DOMAIN r : \/ i \in 1 .. Len(p) /\ r[i] = p[i]
                         \/ /\ i > Len(p) /\ i - Len(p) \in 1 .. Len(q)
                            /\ r[i] = q[i - Len(p)]
  BY <1>1, <1>2
<1>6. ToSet(r) = ToSet(p) \cup ToSet(q)
  <2>1. ToSet(p) \subseteq ToSet(r) /\ ToSet(q) \subseteq ToSet(r)
    BY <1>1, <1>3, <1>4 DEF ToSet
  <2>2. ToSet(r) \subseteq ToSet(p) \cup ToSet(q)
    BY <1>1, <1>5 DEF ToSet
  <2> QED BY <2>1, <2>2
<1>7. ASSUME Ascending(p), Ascending(q),
             \A m \in ToSet(p), n \in ToSet(q) : m < n
      PROVE  Ascending(r)
  <2> SUFFICES ASSUME NEW i \in DOMAIN r, NEW j \in DOMAIN r, i < j
               PROVE  r[i] < r[j]
    BY DEF Ascending
  <2>1. CASE j \in 1 .. Len(p)
    <3>1. i \in 1 .. Len(p)
      BY <1>1, <2>1
    <3> QED BY <1>1, <1>3, <1>7, <2>1, <3>1 DEF Ascending
  <2>2. CASE i \in 1 .. Len(p) /\ j \notin 1 .. Len(p)
    <3>1. i \in DOMAIN p /\ r[i] = p[i]
      BY <1>1, <1>3, <2>2
    <3>2. j - Len(p) \in DOMAIN q /\ r[j] = q[j - Len(p)]
      BY <1>1, <1>5, <2>2
    <3>3. r[i] \in ToSet(p) /\ r[j] \in ToSet(q)
      BY <3>1, <3>2 DEF ToSet
    <3> QED BY <1>7, <3>3
  <2>3. CASE i \notin 1 .. Len(p) /\ j \notin 1 .. Len(p)
    <3>1. /\ i - Len(p) \in 1 .. Len(q) /\ r[i] = q[i - Len(p)]
          /\ j - Len(p) \in 1 .. Len(q) /\ r[j] = q[j - Len(p)]
          /\ i - Len(p) < j - Len(p)
      BY <1>1, <1>5, <2>3
    <3> QED BY <1>1, <1>7, <3>1 DEF Ascending
  <2>4. j \in 1 .. Len(p) => i \in 1 .. Len(p)
    BY <1>1
  <2> QED BY <2>1, <2>2, <2>3, <2>4
<1> QED BY <1>1, <1>6, <1>7 DEF r

\* The events of a segment and their key.
RunKey(s) == IF IsControl(s) THEN <<s.data>> ELSE PlaceOf(s)

\* What a segment holds.
LEMMA RunNumbers ==
  ASSUME NEW rec \in Seq(Events), NEW s, IsRun(rec, s)
  PROVE  /\ s \in SegmentType
         /\ From(s) \in Nat /\ SequenceNumber(s) \in 1 .. Len(rec)
         /\ From(s) < SequenceNumber(s)
         /\ FragmentsOf(s) \in Seq(Nat)
         /\ Len(FragmentsOf(s)) = SequenceNumber(s) - From(s)
         /\ \A i \in 1 .. Len(FragmentsOf(s)) : FragmentsOf(s)[i] = From(s) + i
         /\ \A n \in Own(s) : Key(rec[n], n) = RunKey(s)
<1>1. Len(rec) \in Nat
  BY LenProperties
<1>2. CASE IsRaw(rec, s)
  <2> DEFINE one == <<s.data>>
  <2>1. /\ s \in SegmentType /\ IsControl(s)
        /\ s.data \in 1 .. Len(rec) /\ ~IsDelta(rec[s.data])
    BY <1>2, Kinds DEF IsRaw, SegmentType
  <2>2. /\ FragmentsOf(s) = one /\ SequenceNumber(s) = s.data
        /\ From(s) = s.data - 1 /\ RunKey(s) = <<s.data>>
    BY <2>1 DEF FragmentsOf, SequenceNumber, From, RunKey
  <2>3. one \in Seq(Nat) /\ Len(one) = 1 /\ one[1] = s.data
    BY <1>1, <2>1
  <2>4. ASSUME NEW n \in Own(s) PROVE Key(rec[n], n) = RunKey(s)
    <3>1. n = s.data
      BY <1>1, <2>1, <2>2 DEF Own
    <3> QED BY <2>1, <2>2, <3>1 DEF Key
  <2> HIDE DEF one
  <2>5. /\ From(s) \in Nat /\ From(s) < s.data
        /\ s.data - From(s) = 1 /\ From(s) + 1 = s.data
    <3>1. \A m \in 1 .. Len(rec) :
            m - 1 \in Nat /\ m - 1 < m /\ m - (m - 1) = 1 /\ m - 1 + 1 = m
      BY <1>1
    <3> QED BY <2>1, <2>2, <3>1
  <2> QED BY <2>1, <2>2, <2>3, <2>4, <2>5
<1>3. CASE IsMerged(rec, s)
  <2>1. /\ s \in SegmentType /\ ~IsControl(s) /\ s.delta \in Seq(Nat)
        /\ From(s) \in Nat
    BY <1>3, Kinds DEF IsMerged, SegmentType, DeltaSegment
  <2>2. FragmentsOf(s) = s.delta /\ SequenceNumber(s) = s.seq /\ RunKey(s) = PlaceOf(s)
    BY <2>1 DEF FragmentsOf, SequenceNumber, RunKey
  <2>3. Len(s.delta) \in Nat /\ Len(s.delta) >= 1
    BY <1>3, <2>1, EmptySeq, LenProperties DEF IsMerged
  <2>4. /\ s.seq = From(s) + Len(s.delta) /\ s.seq <= Len(rec)
        /\ \A i \in 1 .. Len(s.delta) : s.delta[i] = From(s) + i
        /\ \A n \in Own(s) : Key(rec[n], n) = PlaceOf(s)
    BY <1>3 DEF IsMerged
  <2>5. /\ s.seq \in 1 .. Len(rec) /\ From(s) < s.seq
        /\ Len(s.delta) = s.seq - From(s)
    BY <1>1, <2>1, <2>3, <2>4
  <2> QED BY <2>1, <2>2, <2>4, <2>5
<1> QED BY <1>2, <1>3 DEF IsRun

\* A segment stays what it is while more events are read.
LEMMA RunKept ==
  ASSUME NEW rec \in Seq(Events), NEW e \in Events, NEW s, IsRun(rec, s)
  PROVE  IsRun(Append(rec, e), s)
<1> DEFINE new == Append(rec, e)
<1>1. /\ Len(rec) \in Nat /\ Len(new) = Len(rec) + 1
      /\ \A n \in 1 .. Len(rec) : new[n] = rec[n]
  BY LenProperties, AppendProperties
<1>2. From(s) \in Nat /\ SequenceNumber(s) \in 1 .. Len(rec)
  BY RunNumbers
<1>3. \A n \in Own(s) : new[n] = rec[n]
  BY <1>1, <1>2 DEF Own
<1> HIDE DEF new
<1>4. CASE IsRaw(rec, s)
  <2>1. IsRaw(new, s)
    BY <1>1, <1>4 DEF IsRaw
  <2> QED BY <2>1 DEF IsRun, new
<1>5. CASE IsMerged(rec, s) /\ HasFields(rec, s)
  <2>1. s.seq \in Nat
    BY <1>5 DEF IsMerged, DeltaSegment
  <2>2. IsMerged(new, s)
    BY <1>1, <1>3, <1>5, <2>1 DEF IsMerged
  <2>3. /\ {n \in Own(s) : new[n].response} = {n \in Own(s) : rec[n].response}
        /\ {n \in Own(s) : new[n].id} = {n \in Own(s) : rec[n].id}
        /\ {n \in Own(s) : new[n].extra} = {n \in Own(s) : rec[n].extra}
        /\ {n \in Own(s) : new[n].logprobs} = {n \in Own(s) : rec[n].logprobs}
        /\ CallsIn(new, Own(s)) = CallsIn(rec, Own(s))
    BY <1>3 DEF CallsIn
  <2>4. HasFields(new, s)
    BY <1>5, <2>3 DEF HasFields
  <2> QED BY <2>2, <2>4 DEF IsRun, new
<1> QED BY <1>4, <1>5 DEF IsRun

\* What the parser makes of the next event.
LEMMA ParsedRun ==
  ASSUME DeltasAreStrings, NEW rec \in Seq(Events), NEW e \in Events,
         e.form # "empty"
  PROVE  LET n == Len(rec) + 1
             segs == parseResponsesEvent(e, n)
         IN  /\ segs # <<>> /\ IsRun(Append(rec, e), segs[1])
             /\ From(segs[1]) = Len(rec) /\ SequenceNumber(segs[1]) = n
<1> DEFINE n == Len(rec) + 1
           new == Append(rec, e)
           segs == parseResponsesEvent(e, n)
           s == segs[1]
<1>1. /\ Len(rec) \in Nat /\ n \in Nat /\ Len(new) = n /\ new[n] = e
      /\ n \in 1 .. n /\ n - 1 = Len(rec)
  BY LenProperties, AppendProperties
<1>2. e \in Event
  BY ResponsesAssumption
<1> HIDE DEF n, new
<1>3. CASE ~IsDelta(e)
  <2>1. segs = <<Done(n)>> \/ segs = <<Control(e, n)>>
    BY <1>3 DEF parseResponsesEvent, IsDelta
  <2>2. Done(n) \in DoneSegment /\ Control(e, n) \in ControlSegment
    BY <1>1, <1>2 DEF Done, Control, DoneSegment, ControlSegment, Event, Given,
                      Optional
  <2>3. Done(n).data = n /\ Control(e, n).data = n
    BY DEF Done, Control
  <2>4. segs # <<>> /\ s \in ControlSegment \cup DoneSegment /\ s.data = n
    BY <2>1, <2>2, <2>3
  <2> HIDE DEF segs
  <2>5. IsControl(s)
    BY <2>4, Kinds
  <2>6. IsRaw(new, s)
    BY <1>1, <1>3, <2>4 DEF IsRaw
  <2> QED BY <1>1, <2>4, <2>5, <2>6 DEF IsRun, From, SequenceNumber, n, new, segs
<1>4. CASE IsDelta(e)
  <2>1. e.text /\ e.form = "json" /\ ~e.error /\ e.type \in DeltaTypes
    BY <1>4 DEF DeltasAreStrings, IsDelta
  <2> DEFINE d == DeltaOf(e, n)
  <2>2. segs = <<d>>
    BY <1>4, <2>1 DEF parseResponsesEvent
  <2>3. /\ d \in DeltaSegment
        /\ d.delta = <<n>> /\ d.seq = n
        /\ PlaceOf(d) = Key(e, n) /\ d.type = e.type
        /\ d.response = Given(e.response, n) /\ d.id = Given(e.id, n)
        /\ d.extra = Given(e.extra, n)
        /\ e.type \in ToolTypes => d.call = e.call
        /\ e.type \in TextTypes => d.logprobs = Given(e.logprobs, <<n>>)
    <3>1. Delta(e, n) \in DeltaSegment /\ Delta(e, n).delta = <<n>>
      BY <1>1, <1>2, <2>1 DEF Delta, DeltaSegment, Event, Given, Optional
    <3>2. /\ e.content \in Optional(Nat) /\ e.summary \in Optional(Nat)
          /\ e.call \in Optional(CallIds)
          /\ Given(e.logprobs, <<n>>) \in Optional(Seq(Nat))
      BY <1>1, <1>2 DEF Event, Optional, Given
    <3>3. CASE e.type \in TextTypes
      <4>1. d = TextDelta(e, n) /\ e.type \notin ToolTypes \cup ReasoningTypes
        BY <3>3, ResponsesAssumption DEF DeltaOf
      <4>2. TextDelta(e, n) \in DeltaSegment
        <5> DEFINE c == IF e.content = None THEN 0 ELSE e.content
                   l == Given(e.logprobs, <<n>>)
                   base == Delta(e, n)
        <5>1. c \in Optional(Nat) /\ l \in Optional(Seq(Nat)) /\ base \in DeltaSegment
          BY <3>1, <3>2 DEF Optional
        <5>2. TextDelta(e, n) = [base EXCEPT !.content = c, !.logprobs = l]
          BY DEF TextDelta
        <5> HIDE DEF c, l, base
        <5> QED BY <5>1, <5>2 DEF DeltaSegment
      <4>3. Key(e, n) = <<e.type, e.item, e.output,
                          IF e.content = None THEN 0 ELSE e.content, None>>
        BY <1>4, <3>3, <4>1 DEF Key, ContentOf
      <4> QED BY <3>1, <4>1, <4>2, <4>3 DEF TextDelta, Delta, PlaceOf
    <3>4. CASE e.type \in ReasoningTypes
      <4>1. d = ReasoningDelta(e, n) /\ e.type \notin ToolTypes \cup TextTypes
        BY <3>4, ResponsesAssumption DEF DeltaOf
      <4>2. ReasoningDelta(e, n) \in DeltaSegment
        BY <3>1, <3>2 DEF ReasoningDelta, DeltaSegment
      <4>3. Key(e, n) = <<e.type, e.item, e.output, e.content, e.summary>>
        BY <1>4, <3>4, <4>1 DEF Key, ContentOf
      <4> QED BY <3>1, <4>1, <4>2, <4>3 DEF ReasoningDelta, Delta, PlaceOf
    <3>5. CASE e.type \in ToolTypes
      <4>1. d = ToolCallDelta(e, n) /\ e.type \notin TextTypes \cup ReasoningTypes
        BY <3>5, ResponsesAssumption DEF DeltaOf
      <4>2. ToolCallDelta(e, n) \in DeltaSegment
        BY <3>1, <3>2 DEF ToolCallDelta, DeltaSegment
      <4>3. Key(e, n) = <<e.type, e.item, e.output, None, None>>
        BY <1>4, <3>5, <4>1 DEF Key, ContentOf
      <4> QED BY <3>1, <4>1, <4>2, <4>3 DEF ToolCallDelta, Delta, PlaceOf
    <3> QED BY <2>1, <3>3, <3>4, <3>5 DEF DeltaTypes
  <2>4. segs # <<>> /\ s = d
    BY <2>2
  <2> HIDE DEF segs, d
  <2>5. ~IsControl(d) /\ From(d) = Len(rec) /\ SequenceNumber(d) = n
    BY <1>1, <2>3, Kinds DEF From, SequenceNumber
  <2>6. Own(d) = {n}
    BY <1>1, <2>5 DEF Own, n
  <2>7. IsMerged(new, d)
    BY <1>1, <1>4, <2>3, <2>5, <2>6 DEF IsMerged, n
  <2>8. /\ CallsIn(new, Own(d)) = {e.call} \ {None}
        /\ \A has \in {"response", "id", "extra", "logprobs"} :
             {m \in Own(d) : new[m][has]} = IF e[has] THEN {n} ELSE {}
    BY <1>1, <2>6 DEF CallsIn
  <2>9. HasFields(new, d)
    <3>1. /\ IsLatest(d.response, {m \in Own(d) : new[m].response})
          /\ IsLatest(d.id, {m \in Own(d) : new[m].id})
          /\ IsLatest(d.extra, {m \in Own(d) : new[m].extra})
      BY <1>1, <2>3, <2>8 DEF IsLatest, Given
    <3>2. d.type \in ToolTypes => IsCall(d.call, CallsIn(new, Own(d)))
      BY <2>3, <2>8 DEF IsCall
    <3>3. d.type \in TextTypes =>
            IsLogprobs(d.logprobs, {m \in Own(d) : new[m].logprobs})
      <4>1. <<n>> \in Seq(Nat) /\ ToSet(<<n>>) = {n} /\ Ascending(<<n>>)
        BY <1>1 DEF ToSet, Ascending
      <4> QED BY <2>3, <2>8, <4>1 DEF IsLogprobs, Given
    <3> QED BY <3>1, <3>2, <3>3 DEF HasFields
  <2> QED BY <2>4, <2>5, <2>7, <2>9 DEF IsRun, segs, n, new
<1> QED BY <1>3, <1>4

-----------------------------------------------------------------------------
\* Merging.

\* Of two fields, one after the other, the later counts.
LEMMA LatestJoined ==
  ASSUME NEW A \in SUBSET Nat, NEW B \in SUBSET Nat, NEW old, NEW new,
         IsLatest(old, A), IsLatest(new, B), \A a \in A, b \in B : a < b
  PROVE  IsLatest(Latest(old, new), A \cup B)
<1>1. None \notin Nat
  BY ResponsesAssumption
<1>2. CASE B = {}
  BY <1>2 DEF IsLatest, Latest
<1>3. CASE B # {}
  <2>1. new \in B /\ \A b \in B : b <= new
    BY <1>3 DEF IsLatest
  <2>2. Latest(old, new) = new
    BY <1>1, <2>1 DEF Latest
  <2>3. \A n \in A \cup B : n <= new
    BY <2>1
  <2> QED BY <2>1, <2>2, <2>3 DEF IsLatest
<1> QED BY <1>2, <1>3

\* Of two call ids that are one if there are both, the first.
LEMMA CallJoined ==
  ASSUME NEW A, NEW B, None \notin A, None \notin B, NEW old, NEW new,
         IsCall(old, A), IsCall(new, B), \A a \in A, b \in B : a = b
  PROVE  IsCall(First(old, new), A \cup B)
BY DEF IsCall, First

\* Logprobs are joined to logprobs or to nothing.
LEMMA LogprobsJoined ==
  ASSUME NEW A \in SUBSET Nat, NEW B \in SUBSET Nat, NEW old, NEW new,
         IsLogprobs(old, A), IsLogprobs(new, B), \A a \in A, b \in B : a < b
  PROVE  IsLogprobs(MergeLogprobs(old, new), A \cup B)
<1>1. None \notin Seq(Nat)
  BY ResponsesAssumption
<1>2. CASE B = {}
  BY <1>2 DEF IsLogprobs, MergeLogprobs
<1>3. CASE B # {}
  <2>1. new \in Seq(Nat) /\ Ascending(new) /\ ToSet(new) = B
    BY <1>3 DEF IsLogprobs
  <2>2. MergeLogprobs(old, new) = Text(old) \o new
    BY <1>1, <2>1 DEF MergeLogprobs
  <2>3. Text(old) \in Seq(Nat) /\ Ascending(Text(old)) /\ ToSet(Text(old)) = A
    <3>1. CASE A = {}
      <4>1. Text(old) = <<>>
        BY <3>1 DEF IsLogprobs, Text
      <4> QED BY <3>1, <4>1 DEF Ascending, ToSet
    <3>2. CASE A # {}
      BY <1>1, <3>2 DEF IsLogprobs, Text
    <3> QED BY <3>1, <3>2
  <2>4. /\ Text(old) \o new \in Seq(Nat) /\ Ascending(Text(old) \o new)
        /\ ToSet(Text(old) \o new) = A \cup B
    BY <2>1, <2>3, Joined
  <2> QED BY <1>3, <2>2, <2>4 DEF IsLogprobs
<1> QED BY <1>2, <1>3

\* Two deltas of one place that follow one another make one.
LEMMA MergedRun ==
  ASSUME CallsAreItems, NEW rec \in Seq(Events), NEW s, NEW t,
         IsRun(rec, s), IsRun(rec, t), CanMerge(s, t),
         From(t) = SequenceNumber(s)
  PROVE  /\ IsRun(rec, Merge(s, t)) /\ From(Merge(s, t)) = From(s)
         /\ SequenceNumber(Merge(s, t)) = SequenceNumber(t)
<1> DEFINE m == Merge(s, t)
           join == s.delta \o t.delta
<1>1. /\ IsMerged(rec, s) /\ HasFields(rec, s) /\ ~IsControl(s)
      /\ IsMerged(rec, t) /\ HasFields(rec, t) /\ ~IsControl(t)
  BY Kinds DEF CanMerge, IsRun, IsRaw
<1>2. s \in DeltaSegment /\ t \in DeltaSegment
  BY <1>1 DEF IsMerged
<1>3. /\ s.delta \in Seq(Nat) /\ t.delta \in Seq(Nat)
      /\ s.seq \in Nat /\ t.seq \in Nat
  BY <1>2 DEF DeltaSegment
<1>4. /\ SequenceNumber(s) = s.seq /\ SequenceNumber(t) = t.seq
      /\ From(s) \in Nat /\ From(t) = s.seq /\ From(s) < s.seq /\ s.seq < t.seq
      /\ t.seq <= Len(rec)
  <2>1. SequenceNumber(s) = s.seq /\ SequenceNumber(t) = t.seq
    BY <1>1 DEF SequenceNumber
  <2>2. From(s) \in Nat /\ From(s) < s.seq /\ From(t) < t.seq /\ t.seq \in 1 .. Len(rec)
    BY <2>1, RunNumbers
  <2>3. Len(rec) \in Nat
    BY LenProperties
  <2> QED BY <2>1, <2>2, <2>3
<1>5. /\ m \in DeltaSegment /\ m.delta = join /\ m.seq = t.seq
      /\ m.response = Latest(s.response, t.response)
      /\ m.id = Latest(s.id, t.id) /\ m.extra = Latest(s.extra, t.extra)
      /\ m.call = First(s.call, t.call)
      /\ m.logprobs = MergeLogprobs(s.logprobs, t.logprobs)
      /\ m.type = s.type /\ PlaceOf(m) = PlaceOf(s)
  <2>1. join \in Seq(Nat)
    BY <1>3, ConcatProperties
  <2>2. /\ Latest(s.response, t.response) \in Optional(Nat)
        /\ Latest(s.id, t.id) \in Optional(Nat)
        /\ Latest(s.extra, t.extra) \in Optional(Nat)
        /\ First(s.call, t.call) \in Optional(CallIds)
    BY <1>2 DEF Latest, First, DeltaSegment
  <2>3. MergeLogprobs(s.logprobs, t.logprobs) \in Optional(Seq(Nat))
    <3>1. s.logprobs \in Optional(Seq(Nat)) /\ t.logprobs \in Optional(Seq(Nat))
      BY <1>2 DEF DeltaSegment
    <3>2. Text(s.logprobs) \in Seq(Nat)
      BY <3>1 DEF Text, Optional
    <3>3. t.logprobs # None => Text(s.logprobs) \o t.logprobs \in Seq(Nat)
      BY <3>1, <3>2, ConcatProperties DEF Optional
    <3> QED BY <3>1, <3>3 DEF MergeLogprobs, Optional
  <2> HIDE DEF join
  <2>4. m = [s EXCEPT !.delta = join, !.seq = t.seq,
                      !.response = Latest(s.response, t.response),
                      !.id = Latest(s.id, t.id),
                      !.extra = Latest(s.extra, t.extra),
                      !.call = First(s.call, t.call),
                      !.logprobs = MergeLogprobs(s.logprobs, t.logprobs)]
    BY DEF Merge, join
  <2> HIDE DEF m
  <2>5. m \in DeltaSegment
    BY <1>2, <1>3, <2>1, <2>2, <2>3, <2>4 DEF DeltaSegment
  <2>6. PlaceOf(m) = PlaceOf(s)
    BY <1>2, <2>4 DEF PlaceOf, DeltaSegment
  <2> QED BY <1>2, <2>4, <2>5, <2>6 DEF DeltaSegment
<1>6. PlaceOf(t) = PlaceOf(s) /\ t.type = s.type
  BY DEF CanMerge, Place, PlaceOf
<1> HIDE DEF m
<1>7. /\ join # <<>> /\ Len(join) = t.seq - From(s)
      /\ \A i \in 1 .. Len(join) : join[i] = From(s) + i
  <2>1. /\ Len(s.delta) = s.seq - From(s) /\ Len(t.delta) = t.seq - s.seq
        /\ \A i \in 1 .. Len(s.delta) : s.delta[i] = From(s) + i
        /\ \A i \in 1 .. Len(t.delta) : t.delta[i] = s.seq + i
    <3>1. FragmentsOf(s) = s.delta /\ FragmentsOf(t) = t.delta
      BY <1>1 DEF FragmentsOf
    <3> QED BY <1>4, <3>1, RunNumbers
  <2>2. /\ Len(join) = Len(s.delta) + Len(t.delta) /\ join \in Seq(Nat)
        /\ \A i \in 1 .. Len(join) :
             join[i] = IF i <= Len(s.delta) THEN s.delta[i]
                                            ELSE t.delta[i - Len(s.delta)]
    <3> DEFINE u == s.delta  v == t.delta
    <3>1. u \in Seq(Nat) /\ v \in Seq(Nat)
      BY <1>3
    <3> HIDE DEF u, v
    <3>2. /\ Len(u \o v) = Len(u) + Len(v) /\ u \o v \in Seq(Nat)
          /\ \A i \in 1 .. Len(u) + Len(v) :
               (u \o v)[i] = IF i <= Len(u) THEN u[i] ELSE v[i - Len(u)]
      BY <3>1, ConcatProperties
    <3> QED BY <3>2 DEF u, v
  <2> HIDE DEF join
  <2> DEFINE a == From(s)  p == Len(s.delta)  q == Len(t.delta)  r == Len(join)
  <2>3. /\ a \in Nat /\ p \in Nat /\ q \in Nat /\ s.seq \in Nat /\ t.seq \in Nat
        /\ p = s.seq - a /\ q = t.seq - s.seq /\ a < s.seq /\ s.seq < t.seq
        /\ r = p + q
    <3>1. p \in Nat /\ q \in Nat
      BY <1>3, LenProperties
    <3> QED BY <1>3, <1>4, <2>1, <2>2, <3>1
  <2>4. ASSUME NEW i \in 1 .. r PROVE join[i] = a + i
    <3> DEFINE j == i - p
    <3> HIDE DEF a, p, q, r
    <3>1. i \in 1 .. p \/ (~(i <= p) /\ j \in 1 .. q /\ s.seq + j = a + i)
      <4> DEFINE b == s.seq
      <4>1. /\ i \in Nat /\ 1 <= i /\ i <= p + q
            /\ a \in Nat /\ b \in Nat /\ p \in Nat /\ q \in Nat /\ b = a + p
        BY <2>3
      <4> HIDE DEF b
      <4>2. ASSUME ~(i <= p) PROVE j \in 1 .. q /\ b + j = a + i
        BY <4>1, <4>2
      <4> QED BY <4>1, <4>2 DEF b
    <3>2. ASSUME i \in 1 .. p PROVE join[i] = a + i
      <4>1. i <= p
        BY <2>3, <3>2
      <4>2. join[i] = s.delta[i]
        BY <2>2, <4>1 DEF p, r
      <4> QED BY <2>1, <3>2, <4>2 DEF p, a
    <3>3. ASSUME ~(i <= p), j \in 1 .. q, s.seq + j = a + i
          PROVE  join[i] = a + i
      <4>1. join[i] = t.delta[j]
        BY <2>2, <3>3 DEF p, r
      <4> HIDE DEF j
      <4> QED BY <2>1, <3>3, <4>1 DEF q
    <3> QED BY <3>1, <3>2, <3>3
  <2>5. r = t.seq - a /\ r >= 1
    <3> DEFINE b == s.seq  c == t.seq
    <3>1. /\ a \in Nat /\ b \in Nat /\ c \in Nat
          /\ a < b /\ b < c /\ r = (b - a) + (c - b)
      BY <2>3
    <3> HIDE DEF a, b, c, r
    <3>2. r = c - a /\ r >= 1
      BY <3>1
    <3> QED BY <3>2 DEF c
  <2>6. join # <<>>
    BY <2>5, EmptySeq
  <2> QED BY <2>4, <2>5, <2>6
<1> HIDE DEF join
<1>8. ~IsControl(m) /\ From(m) = From(s) /\ SequenceNumber(m) = t.seq
  <2>1. ~IsControl(m)
    BY <1>5, Kinds
  <2>2. join[1] = From(s) + 1
    <3>1. 1 \in 1 .. Len(join)
      BY <1>3, <1>4, <1>7
    <3> QED BY <1>7, <3>1
  <2>3. From(m) = join[1] - 1
    BY <1>5, <2>1 DEF From
  <2> QED BY <1>4, <1>5, <2>1, <2>2, <2>3 DEF SequenceNumber
<1>9. /\ Own(m) = Own(s) \cup Own(t) /\ Own(m) \in SUBSET Nat
      /\ \A a \in Own(s), b \in Own(t) : a < b
  BY <1>3, <1>4, <1>8 DEF Own
<1>10. IsMerged(rec, m)
  <2>1. \A n \in Own(m) : IsDelta(rec[n]) /\ Key(rec[n], n) = PlaceOf(m)
    BY <1>1, <1>5, <1>6, <1>9 DEF IsMerged
  <2>2. m.seq = From(m) + Len(m.delta)
    BY <1>3, <1>4, <1>5, <1>7, <1>8
  <2> QED BY <1>4, <1>5, <1>7, <1>8, <2>1, <2>2 DEF IsMerged
<1>11. HasFields(rec, m)
  <2>1. ASSUME NEW has \in {"response", "id", "extra", "logprobs"}
        PROVE  /\ {n \in Own(m) : rec[n][has]}
                    = {n \in Own(s) : rec[n][has]} \cup {n \in Own(t) : rec[n][has]}
               /\ {n \in Own(s) : rec[n][has]} \in SUBSET Nat
               /\ {n \in Own(t) : rec[n][has]} \in SUBSET Nat
               /\ \A a \in {n \in Own(s) : rec[n][has]},
                     b \in {n \in Own(t) : rec[n][has]} : a < b
    BY <1>9
  <2>2. IsLatest(m.response, {n \in Own(m) : rec[n].response})
    BY <1>1, <1>5, <2>1, LatestJoined DEF HasFields
  <2>3. IsLatest(m.id, {n \in Own(m) : rec[n].id})
    BY <1>1, <1>5, <2>1, LatestJoined DEF HasFields
  <2>4. IsLatest(m.extra, {n \in Own(m) : rec[n].extra})
    BY <1>1, <1>5, <2>1, LatestJoined DEF HasFields
  <2>5. m.type \in TextTypes =>
          IsLogprobs(m.logprobs, {n \in Own(m) : rec[n].logprobs})
    BY <1>1, <1>5, <1>6, <2>1, LogprobsJoined DEF HasFields
  <2>6. ASSUME m.type \in ToolTypes PROVE IsCall(m.call, CallsIn(rec, Own(m)))
    <3>1. /\ IsCall(s.call, CallsIn(rec, Own(s)))
          /\ IsCall(t.call, CallsIn(rec, Own(t)))
      BY <1>1, <1>5, <1>6, <2>6 DEF HasFields
    <3>2. CallsIn(rec, Own(m)) = CallsIn(rec, Own(s)) \cup CallsIn(rec, Own(t))
      BY <1>9 DEF CallsIn
    <3>3. ASSUME NEW a \in CallsIn(rec, Own(s)), NEW b \in CallsIn(rec, Own(t))
          PROVE  a = b
      <4>1. PICK i \in Own(s), j \in Own(t) :
              a = rec[i].call /\ b = rec[j].call /\ a # None /\ b # None
        BY DEF CallsIn
      <4>2. /\ IsDelta(rec[i]) /\ Key(rec[i], i) = PlaceOf(s)
            /\ IsDelta(rec[j]) /\ Key(rec[j], j) = PlaceOf(s)
        BY <1>1, <1>6 DEF IsMerged
      <4>3. /\ rec[i].type = s.type /\ rec[j].type = s.type
            /\ rec[i].item = rec[j].item /\ rec[i].output = rec[j].output
        BY <4>2 DEF Key, PlaceOf
      <4>4. rec[i] \in Events /\ rec[j] \in Events
        <5>1. i \in 1 .. Len(rec) /\ j \in 1 .. Len(rec)
          <6>1. Len(rec) \in Nat
            BY LenProperties
          <6> QED BY <1>3, <1>4, <6>1 DEF Own
        <5> QED BY <5>1, ElementOfSeq
      <4> QED BY <1>5, <2>6, <4>1, <4>2, <4>3, <4>4 DEF CallsAreItems
    <3>4. None \notin CallsIn(rec, Own(s)) /\ None \notin CallsIn(rec, Own(t))
      BY DEF CallsIn
    <3> QED BY <1>5, <3>1, <3>2, <3>3, <3>4, CallJoined
  <2> QED BY <2>2, <2>3, <2>4, <2>5, <2>6 DEF HasFields
<1> QED BY <1>4, <1>8, <1>10, <1>11 DEF IsRun, m

-----------------------------------------------------------------------------
\* Segments end to end.

\* One more segment.
LEMMA ChainAppend ==
  ASSUME NEW rec \in Seq(Events), NEW segs, NEW from, NEW to, NEW s,
         Chain(rec, segs, from, to), IsRun(rec, s), From(s) = to
  PROVE  Chain(rec, Append(segs, s), from, SequenceNumber(s))
<1> DEFINE new == Append(segs, s)
<1>1. segs \in Seq(SegmentType) /\ from \in Nat /\ to \in Nat
  BY DEF Chain
<1>2. s \in SegmentType /\ SequenceNumber(s) \in Nat
  <2>1. s \in SegmentType /\ SequenceNumber(s) \in 1 .. Len(rec) /\ Len(rec) \in Nat
    BY RunNumbers, LenProperties
  <2> QED BY <2>1
<1>3. /\ new \in Seq(SegmentType) /\ Len(new) = Len(segs) + 1 /\ Len(segs) \in Nat
      /\ \A i \in 1 .. Len(segs) : new[i] = segs[i]
      /\ new[Len(segs) + 1] = s /\ new # <<>>
  BY <1>1, <1>2, AppendProperties, LenProperties
<1>4. Len(segs) = 0 <=> segs = <<>>
  BY <1>1, EmptySeq
<1> HIDE DEF new
<1>5. ASSUME NEW i \in 1 .. Len(new) PROVE IsRun(rec, new[i])
  <2>1. i \in 1 .. Len(segs) \/ i = Len(segs) + 1
    BY <1>3
  <2> QED BY <1>3, <2>1 DEF Chain
<1>6. ASSUME NEW i \in 1 .. Len(new) - 1
      PROVE  From(new[i + 1]) = SequenceNumber(new[i])
  <2>1. CASE i \in 1 .. Len(segs) - 1
    <3>1. i \in 1 .. Len(segs) /\ i + 1 \in 1 .. Len(segs)
      BY <1>3, <2>1
    <3> QED BY <1>3, <2>1, <3>1 DEF Chain
  <2>2. CASE i = Len(segs)
    <3>1. i \in 1 .. Len(segs) /\ segs # <<>>
      BY <1>3, <1>4, <2>2
    <3> QED BY <1>3, <2>2, <3>1 DEF Chain
  <2>3. i \in 1 .. Len(segs) - 1 \/ i = Len(segs)
    BY <1>3
  <2> QED BY <2>1, <2>2, <2>3
<1>7. From(new[1]) = from
  <2>1. CASE segs = <<>>
    BY <1>3, <1>4, <2>1 DEF Chain
  <2>2. CASE segs # <<>>
    <3>1. 1 \in 1 .. Len(segs)
      BY <1>3, <1>4, <2>2
    <3> QED BY <1>3, <2>2, <3>1 DEF Chain
  <2> QED BY <2>1, <2>2
<1> QED BY <1>1, <1>2, <1>3, <1>5, <1>6, <1>7 DEF Chain, new

\* All but the last.
LEMMA ChainFront ==
  ASSUME NEW rec \in Seq(Events), NEW segs, NEW from, NEW to,
         Chain(rec, segs, from, to), segs # <<>>
  PROVE  /\ Chain(rec, Front(segs), from, From(Last(segs)))
         /\ IsRun(rec, Last(segs)) /\ SequenceNumber(Last(segs)) = to
<1> DEFINE new == Front(segs)
<1>1. segs \in Seq(SegmentType) /\ from \in Nat /\ to \in Nat
  BY DEF Chain
<1>2. Len(segs) \in Nat /\ Len(segs) # 0
  BY <1>1, EmptySeq, LenProperties
<1>3. Last(segs) = segs[Len(segs)] /\ Len(segs) \in 1 .. Len(segs)
  BY <1>2 DEF Last
<1>4. /\ new \in Seq(SegmentType) /\ Len(new) = Len(segs) - 1
      /\ \A i \in 1 .. Len(segs) - 1 : new[i] = segs[i]
  <2>1. \A i \in 1 .. Len(segs) - 1 : segs[i] \in SegmentType
    BY <1>1, <1>2, ElementOfSeq
  <2>2. new = [i \in 1 .. Len(segs) - 1 |-> segs[i]]
    BY <1>1, <1>2, SubSeqProperties DEF Front
  <2> QED BY <1>2, <2>1, <2>2
<1> HIDE DEF new
<1>5. IsRun(rec, Last(segs)) /\ SequenceNumber(Last(segs)) = to
  BY <1>3 DEF Chain
<1>6. From(Last(segs)) \in Nat
  BY <1>5, RunNumbers
<1>7. \A i \in 1 .. Len(new) : IsRun(rec, new[i])
  BY <1>2, <1>4 DEF Chain
<1>8. ASSUME NEW i \in 1 .. Len(new) - 1
      PROVE  From(new[i + 1]) = SequenceNumber(new[i])
  <2>1. /\ i \in 1 .. Len(segs) - 1 /\ i + 1 \in 1 .. Len(segs) - 1
    BY <1>2, <1>4
  <2> QED BY <1>4, <2>1 DEF Chain
<1>9. CASE Len(segs) = 1
  <2>1. new = <<>>
    BY <1>4, <1>9, EmptySeq
  <2>2. From(Last(segs)) = from
    BY <1>3, <1>9 DEF Chain
  <2> QED BY <1>1, <1>4, <1>5, <1>7, <1>8, <2>1, <2>2 DEF Chain, new
<1>10. CASE Len(segs) # 1
  <2> DEFINE k == Len(segs) - 1
  <2>1. /\ k \in 1 .. Len(segs) - 1 /\ 1 \in 1 .. Len(segs) - 1
        /\ k + 1 = Len(segs) /\ Len(new) = k
    BY <1>2, <1>4, <1>10
  <2> HIDE DEF k
  <2>2. new # <<>>
    <3>1. Len(new) # 0
      BY <1>2, <1>4, <2>1
    <3> QED BY <3>1, EmptySeq
  <2>3. From(Last(segs)) = SequenceNumber(new[Len(new)])
    BY <1>3, <1>4, <2>1 DEF Chain
  <2>4. From(new[1]) = from
    BY <1>4, <2>1 DEF Chain
  <2> QED BY <1>1, <1>4, <1>5, <1>6, <1>7, <1>8, <2>2, <2>3, <2>4 DEF Chain, new
<1> QED BY <1>9, <1>10

\* All but the first.
LEMMA ChainTail ==
  ASSUME NEW rec \in Seq(Events), NEW segs, NEW from, NEW to,
         Chain(rec, segs, from, to), segs # <<>>
  PROVE  /\ Chain(rec, Tail(segs), SequenceNumber(Head(segs)), to)
         /\ IsRun(rec, Head(segs)) /\ From(Head(segs)) = from
<1> DEFINE new == Tail(segs)
<1>1. segs \in Seq(SegmentType) /\ from \in Nat /\ to \in Nat
  BY DEF Chain
<1>2. Len(segs) \in Nat /\ Len(segs) # 0 /\ 1 \in 1 .. Len(segs)
  <2>1. Len(segs) \in Nat /\ Len(segs) # 0
    BY <1>1, EmptySeq, LenProperties
  <2> QED BY <2>1
<1>3. /\ Head(segs) = segs[1] /\ new \in Seq(SegmentType)
      /\ Len(new) = Len(segs) - 1
      /\ \A i \in 1 .. Len(segs) - 1 : new[i] = segs[i + 1]
  BY <1>1, <1>2, HeadTailProperties
<1> HIDE DEF new
<1>4. IsRun(rec, Head(segs)) /\ From(Head(segs)) = from
  BY <1>2, <1>3 DEF Chain
<1>5. SequenceNumber(Head(segs)) \in Nat
  <2>1. SequenceNumber(Head(segs)) \in 1 .. Len(rec) /\ Len(rec) \in Nat
    BY <1>4, RunNumbers, LenProperties
  <2> QED BY <2>1
<1>6. ASSUME NEW i \in 1 .. Len(new) PROVE IsRun(rec, new[i])
  <2>1. i \in 1 .. Len(segs) - 1 /\ i + 1 \in 1 .. Len(segs)
    BY <1>2, <1>3
  <2> QED BY <1>3, <2>1 DEF Chain
<1>7. ASSUME NEW i \in 1 .. Len(new) - 1
      PROVE  From(new[i + 1]) = SequenceNumber(new[i])
  <2> DEFINE j == i + 1
  <2>1. /\ i \in 1 .. Len(segs) - 1 /\ j \in 1 .. Len(segs) - 1
    BY <1>2, <1>3
  <2> HIDE DEF j
  <2>2. From(segs[j + 1]) = SequenceNumber(segs[j])
    BY <2>1 DEF Chain
  <2>3. new[i] = segs[j]
    BY <1>3, <2>1 DEF j
  <2>4. new[j] = segs[j + 1]
    BY <1>3, <2>1
  <2> QED BY <2>2, <2>3, <2>4 DEF j
<1>8. CASE Len(segs) = 1
  <2>1. new = <<>>
    BY <1>3, <1>8, EmptySeq
  <2>2. SequenceNumber(Head(segs)) = to
    BY <1>3, <1>8 DEF Chain
  <2> QED BY <1>1, <1>3, <1>4, <1>6, <1>7, <2>1, <2>2 DEF Chain, new
<1>9. CASE Len(segs) # 1
  <2> DEFINE k == Len(segs) - 1
  <2>1. k \in 1 .. Len(segs) - 1 /\ 1 \in 1 .. Len(segs) - 1
        /\ k + 1 = Len(segs) /\ Len(new) = k
    BY <1>2, <1>3, <1>9
  <2> HIDE DEF k
  <2>2. new # <<>>
    <3>1. Len(new) # 0
      BY <1>2, <1>3, <2>1
    <3> QED BY <3>1, EmptySeq
  <2>3. SequenceNumber(new[Len(new)]) = to
    BY <1>3, <2>1 DEF Chain
  <2>4. From(new[1]) = SequenceNumber(Head(segs))
    BY <1>3, <2>1 DEF Chain
  <2> QED BY <1>1, <1>3, <1>4, <1>5, <1>6, <1>7, <2>2, <2>3, <2>4 DEF Chain, new
<1> QED BY <1>8, <1>9

\* A chain stays one while more events are read.
LEMMA ChainKept ==
  ASSUME NEW rec \in Seq(Events), NEW e \in Events, NEW segs, NEW from, NEW to,
         Chain(rec, segs, from, to)
  PROVE  Chain(Append(rec, e), segs, from, to)
BY RunKept DEF Chain

-----------------------------------------------------------------------------
\* Serializing.

Optionals == {"content", "summary", "call", "logprobs", "response", "id", "extra"}

\* A delta on the wire has the fields the protocol requires, and another one
\* when the segment has a value for it.
LEMMA SerializedDelta ==
  ASSUME NEW s \in DeltaSegment
  PROVE  LET w == SerializeSegment(s)
         IN  /\ ~IsControl(w) /\ Required \subseteq DOMAIN w
             /\ \A f \in Required : w[f] = s[f]
             /\ \A f \in Optionals : /\ Field(w, f) = s[f]
                                     /\ f \in DOMAIN w <=> s[f] # None
<1> DEFINE w == SerializeSegment(s)
           has == {f \in DOMAIN s : s[f] # None}
<1>1. /\ DOMAIN s = Required \cup Optionals
      /\ s.type \in DeltaTypes /\ s.item \in Items /\ s.output \in Nat
      /\ s.delta \in Seq(Nat) /\ s.seq \in Nat
  BY DEF DeltaSegment, Required, Optionals
<1>2. \A f \in Required : s[f] # None
  BY <1>1, ResponsesAssumption DEF Required
<1>3. DOMAIN w = has /\ \A f \in has : w[f] = s[f]
  BY DEF SerializeSegment, Restrict
<1> HIDE DEF w
<1>4. Required \subseteq DOMAIN w /\ \A f \in Required : w[f] = s[f]
  BY <1>1, <1>2, <1>3
<1>5. \A f \in Optionals : f \in DOMAIN w <=> s[f] # None
  BY <1>1, <1>3
<1>6. \A f \in Optionals : Field(w, f) = s[f]
  BY <1>3, <1>5 DEF Field
<1>7. ~IsControl(w)
  BY <1>1, <1>3 DEF IsControl, Required, Optionals
<1> QED BY <1>4, <1>5, <1>6, <1>7 DEF w

\* Any other event on the wire names its data.
LEMMA SerializedControl ==
  ASSUME NEW s \in ControlSegment \cup DoneSegment
  PROVE  IsControl(SerializeSegment(s)) /\ SerializeSegment(s).data = s.data
<1> DEFINE has == {f \in DOMAIN s : s[f] # None}
<1>1. "data" \in DOMAIN s /\ s.data \in Nat
  BY Kinds DEF IsControl
<1>2. None \notin Nat
  BY ResponsesAssumption
<1>3. "data" \in has
  BY <1>1, <1>2
<1> QED BY <1>3 DEF SerializeSegment, Restrict, IsControl

\* An event on the wire tells of its segment what it holds, where it belongs
\* and its number.
LEMMA Serialized ==
  ASSUME NEW rec \in Seq(Events), NEW s, IsRun(rec, s)
  PROVE  LET w == SerializeSegment(s)
         IN  /\ FragmentsOf(w) = FragmentsOf(s)
             /\ SequenceNumber(w) = SequenceNumber(s)
             /\ WrittenKey(w) = RunKey(s)
<1>1. CASE IsRaw(rec, s)
  <2>1. s \in ControlSegment \cup DoneSegment
    BY <1>1 DEF IsRaw
  <2> QED BY <2>1, Kinds, SerializedControl
        DEF FragmentsOf, SequenceNumber, WrittenKey, RunKey
<1>2. CASE IsMerged(rec, s)
  <2>1. s \in DeltaSegment
    BY <1>2 DEF IsMerged
  <2>2. ~IsControl(s)
    BY <2>1, Kinds
  <2> QED BY <2>1, <2>2, SerializedDelta
        DEF FragmentsOf, SequenceNumber, WrittenKey, RunKey, PlaceOf, Required,
            Optionals
<1> QED BY <1>1, <1>2 DEF IsRun

-----------------------------------------------------------------------------
\* The invariant.

\* The numbers of a segment's text.
LEMMA OwnNumbers ==
  ASSUME NEW rec \in Seq(Events), NEW s, IsRun(rec, s)
  PROVE  ToSet(FragmentsOf(s)) = Own(s) /\ Own(s) # {}
<1> DEFINE fragments == FragmentsOf(s)
           a == From(s)
           b == SequenceNumber(s)
<1>1. /\ a \in Nat /\ b \in 1 .. Len(rec) /\ a < b /\ Len(rec) \in Nat
      /\ fragments \in Seq(Nat) /\ Len(fragments) = b - a
      /\ \A i \in 1 .. Len(fragments) : fragments[i] = a + i
  BY RunNumbers, LenProperties
<1>2. DOMAIN fragments = 1 .. Len(fragments)
  BY <1>1, LenProperties
<1> HIDE DEF fragments, a, b
<1>3. ToSet(fragments) \subseteq a + 1 .. b
  BY <1>1, <1>2 DEF ToSet
<1>4. ASSUME NEW n \in a + 1 .. b PROVE n \in ToSet(fragments)
  <2> DEFINE i == n - a
  <2>1. i \in 1 .. Len(fragments) /\ a + i = n
    BY <1>1
  <2> HIDE DEF i
  <2>2. fragments[i] = n
    BY <1>1, <2>1
  <2> QED BY <1>2, <2>1, <2>2 DEF ToSet
<1>5. b \in a + 1 .. b
  BY <1>1
<1> QED BY <1>3, <1>4, <1>5 DEF Own, fragments, a, b

\* The buffer joins the next segment to the last one or puts it behind it.
LEMMA Inserted ==
  ASSUME CallsAreItems, NEW rec \in Seq(Events), NEW segs, NEW from, NEW to,
         NEW s, Chain(rec, segs, from, to), IsRun(rec, s), From(s) = to
  PROVE  Chain(rec, Insert(segs, s), from, SequenceNumber(s)) /\ Insert(segs, s) # <<>>
<1> DEFINE new == Insert(segs, s)
<1>1. segs \in Seq(SegmentType)
  BY DEF Chain
<1>2. CASE segs # <<>> /\ CanMerge(Last(segs), s)
  <2> DEFINE m == Merge(Last(segs), s)
  <2>1. /\ Chain(rec, Front(segs), from, From(Last(segs)))
        /\ IsRun(rec, Last(segs)) /\ SequenceNumber(Last(segs)) = to
    BY <1>2, ChainFront
  <2>2. /\ IsRun(rec, m) /\ From(m) = From(Last(segs))
        /\ SequenceNumber(m) = SequenceNumber(s)
    BY <1>2, <2>1, MergedRun
  <2> HIDE DEF m
  <2>3. Chain(rec, Append(Front(segs), m), from, SequenceNumber(s))
    BY <2>1, <2>2, ChainAppend
  <2>4. new = Append(Front(segs), m)
    BY <1>2 DEF Insert, m
  <2>5. Append(Front(segs), m) # <<>>
    <3>1. Front(segs) \in Seq(SegmentType) /\ m \in SegmentType
      BY <2>1, <2>2, RunNumbers DEF Chain
    <3> QED BY <3>1, AppendProperties
  <2> QED BY <2>3, <2>4, <2>5
<1>3. CASE ~(segs # <<>> /\ CanMerge(Last(segs), s))
  <2>1. new = Append(segs, s)
    BY <1>3 DEF Insert
  <2>2. Chain(rec, Append(segs, s), from, SequenceNumber(s))
    BY ChainAppend
  <2>3. s \in SegmentType
    BY RunNumbers
  <2> QED BY <1>1, <2>1, <2>2, <2>3, AppendProperties
<1> QED BY <1>2, <1>3

\* The invariant holds at the start.
LEMMA InvInit == Init => Inv
<1> SUFFICES ASSUME Init PROVE Inv
  OBVIOUS
<1>1. /\ received = <<>> /\ pending = <<>> /\ inflight = <<>> /\ written = <<>>
      /\ Sent = 0 /\ Taken = 0 /\ Len(received) = 0 /\ received \in Seq(Events)
  BY DEF Init, Sent, Taken
<1>2. Chain(received, <<>>, 0, 0)
  BY DEF Chain
<1>3. WrittenOf(<<>>) = <<>> /\ <<>> \in Seq(SegmentType)
  BY DEF WrittenOf
<1>4. ResumeExact
  BY <1>1 DEF ResumeExact
<1>5. \E segs \in Seq(SegmentType) :
        written = WrittenOf(segs) /\ Chain(received, segs, 0, Sent)
  <2> WITNESS <<>> \in Seq(SegmentType)
  <2> QED BY <1>1, <1>2, <1>3
<1> QED BY <1>1, <1>2, <1>4, <1>5 DEF Inv

\* Reading an event lengthens the pending chain.
LEMMA InvRead ==
  ASSUME DeltasAreStrings, CallsAreItems, Inv, ReadEvent
  PROVE  Inv'
<1>1. PICK e \in Events :
        LET segs == parseResponsesEvent(e, Len(received) + 1)
        IN  /\ received' = IF e.form = "empty" THEN received ELSE Append(received, e)
            /\ pending' = IF segs = <<>> THEN pending ELSE Insert(pending, segs[1])
            /\ UNCHANGED <<inflight, written>>
  BY DEF ReadEvent
<1>2. /\ received \in Seq(Events) /\ Chain(received, pending, Taken, Len(received))
      /\ Chain(received, inflight, Sent, Taken) /\ ResumeExact
      /\ inflight' = inflight /\ written' = written
  BY <1>1 DEF Inv
<1>3. Sent' = Sent /\ ResumeExact'
  BY <1>2 DEF Sent, ResumeExact
<1>4. CASE e.form = "empty"
  <2>1. parseResponsesEvent(e, Len(received) + 1) = <<>>
    BY <1>4 DEF parseResponsesEvent, IsDelta
  <2>2. received' = received /\ pending' = pending
    BY <1>1, <1>4, <2>1
  <2> QED BY <1>2, <1>3, <2>2 DEF Inv, Taken
<1>5. CASE e.form # "empty"
  <2> DEFINE segs == parseResponsesEvent(e, Len(received) + 1)
             s == segs[1]
  <2>1. /\ segs # <<>> /\ IsRun(Append(received, e), s)
        /\ From(s) = Len(received) /\ SequenceNumber(s) = Len(received) + 1
    BY <1>2, <1>5, ParsedRun
  <2>2. /\ received' = Append(received, e) /\ received' \in Seq(Events)
        /\ Len(received') = Len(received) + 1
        /\ pending' = Insert(pending, s)
    BY <1>1, <1>2, <1>5, <2>1, AppendProperties
  <2> HIDE DEF segs, s
  <2>3. Chain(received', pending, Taken, Len(received))
    BY <1>2, <2>2, ChainKept
  <2>4. Chain(received', pending', Taken, Len(received')) /\ pending' # <<>>
    BY <2>1, <2>2, <2>3, Inserted
  <2>5. Taken' = Taken
    BY <2>4 DEF Taken, Chain
  <2>6. Chain(received', inflight', Sent', Taken')
    BY <1>2, <1>3, <2>2, <2>5, ChainKept
  <2>7. \E past \in Seq(SegmentType) :
          written' = WrittenOf(past) /\ Chain(received', past, 0, Sent')
    <3>1. PICK past \in Seq(SegmentType) :
            written = WrittenOf(past) /\ Chain(received, past, 0, Sent)
      BY DEF Inv
    <3>2. Chain(received', past, 0, Sent')
      BY <1>2, <1>3, <2>2, <3>1, ChainKept
    <3> QED BY <1>2, <3>1, <3>2
  <2> QED BY <1>3, <2>2, <2>4, <2>5, <2>6, <2>7 DEF Inv
<1> QED BY <1>4, <1>5

\* The writer takes the pending chain, which begins where it is.
LEMMA InvTake ==
  ASSUME Inv, TakeSnapshot
  PROVE  Inv'
<1>1. /\ inflight = <<>> /\ pending # <<>> /\ inflight' = pending /\ pending' = <<>>
      /\ received' = received /\ written' = written
  BY DEF TakeSnapshot
<1>2. Sent' = Sent /\ Taken' = Len(received') /\ ResumeExact'
  BY <1>1 DEF Inv, Sent, Taken, ResumeExact
<1>3. Chain(received', inflight', Sent', Taken')
  BY <1>1, <1>2 DEF Inv, Chain
<1>4. Chain(received', pending', Taken', Len(received'))
  BY <1>1, <1>2, LenProperties DEF Inv, Chain
<1> QED BY <1>1, <1>2, <1>3, <1>4 DEF Inv

\* Writing the first segment of the writer's chain lengthens the client's.
LEMMA InvWrite ==
  ASSUME Inv, WriteSegment
  PROVE  Inv'
<1> DEFINE s == Head(inflight)
           w == SerializeSegment(s)
<1>1. /\ received \in Seq(Events) /\ inflight # <<>>
      /\ written' = Append(written, w) /\ inflight' = Tail(inflight)
      /\ received' = received /\ pending' = pending /\ Taken' = Taken
  BY DEF Inv, WriteSegment, Taken
<1>2. /\ Chain(received, inflight', SequenceNumber(s), Taken)
      /\ IsRun(received, s) /\ From(s) = Sent
  BY <1>1, ChainTail DEF Inv
<1>3. /\ SequenceNumber(w) = SequenceNumber(s) /\ FragmentsOf(w) = FragmentsOf(s)
      /\ ToSet(FragmentsOf(w)) = Own(s)
  BY <1>1, <1>2, Serialized, OwnNumbers
<1>4. PICK past \in Seq(SegmentType) :
        written = WrittenOf(past) /\ Chain(received, past, 0, Sent)
  BY DEF Inv
<1> HIDE DEF s, w
<1>5. /\ s \in SegmentType /\ SequenceNumber(s) \in Nat /\ Sent \in Nat
      /\ Sent < SequenceNumber(s)
  <2>1. /\ s \in SegmentType /\ From(s) \in Nat
        /\ SequenceNumber(s) \in 1 .. Len(received) /\ Len(received) \in Nat
        /\ From(s) < SequenceNumber(s)
    BY <1>1, <1>2, RunNumbers, LenProperties
  <2> QED BY <1>2, <2>1
<1>6. /\ Len(past) \in Nat /\ DOMAIN written = 1 .. Len(past)
      /\ Len(written) = Len(past)
      /\ DOMAIN written' = 1 .. Len(past) + 1 /\ Len(written') = Len(past) + 1
      /\ \A i \in 1 .. Len(past) : written'[i] = written[i]
      /\ written'[Len(past) + 1] = w /\ written' # <<>>
      /\ written' = WrittenOf(Append(past, s))
      /\ Append(past, s) \in Seq(SegmentType)
  <2> DEFINE new == Append(past, s)
             k == Len(past)
  <2>1. /\ k \in Nat /\ new \in Seq(SegmentType) /\ Len(new) = k + 1
        /\ \A i \in 1 .. k : new[i] = past[i]
        /\ new[k + 1] = s
    BY <1>5, AppendProperties, LenProperties
  <2> HIDE DEF new, k
  <2>2. written = [i \in 1 .. k |-> SerializeSegment(past[i])]
    BY <1>4 DEF WrittenOf, k
  <2>3. written \in Seq({SerializeSegment(past[i]) : i \in 1 .. k} \cup {w})
    BY <2>1, <2>2
  <2>4. Len(written) = k /\ DOMAIN written = 1 .. k
    BY <2>1, <2>2
  <2>5. /\ Len(written') = k + 1 /\ DOMAIN written' = 1 .. k + 1
        /\ \A i \in 1 .. k : written'[i] = written[i]
        /\ written'[k + 1] = w /\ written' # <<>>
        /\ written' \in Seq({SerializeSegment(past[i]) : i \in 1 .. k} \cup {w})
    BY <1>1, <2>3, <2>4, AppendProperties, LenProperties
  <2>6. WrittenOf(new) = [i \in 1 .. k + 1 |-> SerializeSegment(new[i])]
    BY <2>1 DEF WrittenOf
  <2>7. \A i \in 1 .. k + 1 : written'[i] = SerializeSegment(new[i])
    <3>1. \A i \in 1 .. k + 1 : i \in 1 .. k \/ i = k + 1
      BY <2>1
    <3> QED BY <2>1, <2>2, <2>5, <3>1 DEF w
  <2>8. written' = [i \in 1 .. k + 1 |-> written'[i]]
    BY <2>1, <2>5, LenProperties
  <2>9. written' = WrittenOf(new)
    BY <2>6, <2>7, <2>8
  <2> QED BY <2>1, <2>4, <2>5, <2>9 DEF new, k
<1>7. Sent' = SequenceNumber(s)
  BY <1>3, <1>6 DEF Sent, Last
<1>8. Chain(received', Append(past, s), 0, Sent')
  BY <1>1, <1>2, <1>4, <1>7, ChainAppend
<1>9. ResumeExact'
  <2> DEFINE k == Len(past)
             texts(i) == ToSet(FragmentsOf(written'[i]))
             old(i) == ToSet(FragmentsOf(written[i]))
  <2>1. SUFFICES ASSUME NEW i \in 1 .. k + 1
                 PROVE  UNION {texts(j) : j \in 1 .. i} = 1 .. SequenceNumber(written'[i])
    BY <1>6 DEF ResumeExact
  <2>2. ASSUME NEW n \in 1 .. k
        PROVE  UNION {texts(j) : j \in 1 .. n} = 1 .. SequenceNumber(written[n])
    <3>1. \A j \in 1 .. n : j \in 1 .. k
      BY <1>6
    <3>2. \A j \in 1 .. n : texts(j) = old(j)
      BY <1>6, <3>1
    <3>3. UNION {old(j) : j \in 1 .. n} = 1 .. SequenceNumber(written[n])
      BY <1>6 DEF Inv, ResumeExact
    <3> QED BY <3>2, <3>3
  <2>3. CASE i \in 1 .. k
    BY <1>6, <2>2, <2>3
  <2>4. CASE i = k + 1
    <3>1. UNION {texts(j) : j \in 1 .. k} = 1 .. Sent
      <4>1. CASE k = 0
        <5>1. written = <<>>
          BY <1>4, <1>6, <4>1 DEF WrittenOf
        <5> QED BY <4>1, <5>1 DEF Sent
      <4>2. CASE k # 0
        <5>1. k \in 1 .. k /\ written # <<>> /\ Sent = SequenceNumber(written[k])
          BY <1>6, <4>2 DEF Sent, Last
        <5> QED BY <2>2, <5>1
      <4> QED BY <4>1, <4>2
    <3>2. texts(k + 1) = Own(s)
      BY <1>3, <1>6
    <3>3. Own(s) = Sent + 1 .. SequenceNumber(s)
      BY <1>2 DEF Own
    <3>4. \A j : j \in 1 .. k + 1 <=> j \in 1 .. k \/ j = k + 1
      BY <1>6
    <3> HIDE DEF texts
    <3>5. UNION {texts(j) : j \in 1 .. i}
            = (UNION {texts(j) : j \in 1 .. k}) \cup texts(k + 1)
      BY <2>4, <3>4
    <3>6. 1 .. SequenceNumber(s) = (1 .. Sent) \cup (Sent + 1 .. SequenceNumber(s))
      BY <1>5
    <3>7. written'[i] = w
      BY <1>6, <2>4
    <3> QED BY <1>3, <3>1, <3>2, <3>3, <3>5, <3>6, <3>7
  <2>5. i \in 1 .. k \/ i = k + 1
    BY <1>6
  <2> QED BY <2>3, <2>4, <2>5
<1> QED BY <1>1, <1>2, <1>6, <1>7, <1>8, <1>9 DEF Inv

-----------------------------------------------------------------------------
\* What holds of every stream.

\* The segments between the parser and the client lie end to end, each the
\* events between two numbers, with the fields of those events
\* (parser.go:338-568, segments.go:266-424, serializer.go:187-272).
THEOREM ResponsesInvariant ==
  ASSUME DeltasAreStrings, CallsAreItems
  PROVE  Spec => []Inv
<1>1. Init => Inv
  BY InvInit
<1>2. Inv /\ [Next]_vars => Inv'
  <2>1. ASSUME Inv, UNCHANGED vars PROVE Inv'
    BY <2>1 DEF vars, Inv, Sent, Taken, ResumeExact
  <2>2. Inv /\ ReadEvent => Inv'
    BY InvRead
  <2>3. Inv /\ TakeSnapshot => Inv'
    BY InvTake
  <2>4. Inv /\ WriteSegment => Inv'
    BY InvWrite
  <2> QED BY <2>1, <2>2, <2>3, <2>4 DEF Next, Terminated
<1> QED BY <1>1, <1>2, PTL DEF Spec

\* Whatever was merged, what the client has after any event is exactly what
\* upstream sent up to that event's sequence number (segments.go:280-290 and
\* the like: a merged delta takes the number of the later one).
THEOREM ResumeIsExact ==
  ASSUME DeltasAreStrings, CallsAreItems
  PROVE  Spec => []ResumeExact
<1>1. Inv => ResumeExact
  BY DEF Inv
<1> QED BY <1>1, ResponsesInvariant, PTL

\* Where an event on the wire comes from.
LEMMA Origin ==
  ASSUME Inv, NEW i \in DOMAIN written
  PROVE  \E s \in SegmentType :
           /\ IsRun(received, s) /\ written[i] = SerializeSegment(s)
           /\ IsControl(written[i]) <=> IsControl(s)
<1>1. PICK past \in Seq(SegmentType) :
        written = WrittenOf(past) /\ Chain(received, past, 0, Sent)
  BY DEF Inv
<1>2. Len(past) \in Nat /\ i \in 1 .. Len(past)
  BY <1>1, LenProperties DEF WrittenOf
<1>3. /\ IsRun(received, past[i]) /\ past[i] \in SegmentType
      /\ written[i] = SerializeSegment(past[i])
  BY <1>1, <1>2, ElementOfSeq DEF WrittenOf, Chain
<1>4. IsControl(written[i]) <=> IsControl(past[i])
  BY <1>3, Kinds, SerializedControl, SerializedDelta DEF SegmentType
<1> QED BY <1>3, <1>4

\* A delta on the wire, the segment it was and the events it holds.
LEMMA DeltaOrigin ==
  ASSUME Inv, NEW w \in ToSet(written), ~IsControl(w)
  PROVE  \E s \in DeltaSegment :
           /\ IsMerged(received, s) /\ HasFields(received, s)
           /\ w = SerializeSegment(s)
           /\ ToSet(w.delta) = Own(s) /\ Own(s) # {}
           /\ w.delta = s.delta /\ w.type = s.type
           /\ \A f \in Optionals : /\ Field(w, f) = s[f]
                                   /\ f \in DOMAIN w <=> s[f] # None
<1>1. PICK i \in DOMAIN written : w = written[i]
  BY DEF ToSet
<1>2. PICK s \in SegmentType :
        /\ IsRun(received, s) /\ w = SerializeSegment(s) /\ ~IsControl(s)
  BY <1>1, Origin
<1>3. /\ IsMerged(received, s) /\ HasFields(received, s) /\ s \in DeltaSegment
  BY <1>2, Kinds DEF IsRun, IsRaw, IsMerged
<1>4. received \in Seq(Events)
  BY DEF Inv
<1>5. ToSet(s.delta) = Own(s) /\ Own(s) # {}
  BY <1>2, <1>4, OwnNumbers DEF FragmentsOf
<1>6. /\ w.delta = s.delta /\ w.type = s.type
      /\ \A f \in Optionals : /\ Field(w, f) = s[f]
                              /\ f \in DOMAIN w <=> s[f] # None
  BY <1>2, <1>3, SerializedDelta DEF Required
<1> QED BY <1>2, <1>3, <1>5, <1>6

\* Text deltas carry the logprobs of exactly their own events, in order, and
\* none when no event had any (segments.go:292-307).
THEOREM LogprobsFollow ==
  ASSUME DeltasAreStrings, CallsAreItems
  PROVE  Spec => []LogprobsFollowText
<1>1. ASSUME Inv PROVE LogprobsFollowText
  <2> SUFFICES ASSUME NEW w \in ToSet(written), ~IsControl(w), w.type \in TextTypes
               PROVE  LET own == {n \in ToSet(w.delta) : received[n].logprobs}
                      IN  IF own = {} THEN "logprobs" \notin DOMAIN w
                          ELSE /\ "logprobs" \in DOMAIN w
                               /\ ToSet(w.logprobs) = own
                               /\ Ascending(w.delta) /\ Ascending(w.logprobs)
    BY DEF LogprobsFollowText
  <2> DEFINE own == {n \in ToSet(w.delta) : received[n].logprobs}
  <2>1. PICK s \in DeltaSegment :
          /\ IsMerged(received, s) /\ HasFields(received, s)
          /\ ToSet(w.delta) = Own(s) /\ w.delta = s.delta /\ w.type = s.type
          /\ \A f \in Optionals : /\ Field(w, f) = s[f]
                                  /\ f \in DOMAIN w <=> s[f] # None
    BY <1>1, DeltaOrigin
  <2>2. IsLogprobs(s.logprobs, own)
    BY <2>1 DEF HasFields
  <2>3. None \notin Seq(Nat)
    BY ResponsesAssumption
  <2>4. Field(w, "logprobs") = s.logprobs /\ ("logprobs" \in DOMAIN w <=> s.logprobs # None)
    BY <2>1 DEF Optionals
  <2>5. Ascending(s.delta)
    <3>1. /\ s.delta \in Seq(Nat) /\ From(s) \in Nat
          /\ \A i \in 1 .. Len(s.delta) : s.delta[i] = From(s) + i
      BY <2>1 DEF IsMerged, DeltaSegment
    <3>2. DOMAIN s.delta = 1 .. Len(s.delta) /\ Len(s.delta) \in Nat
      BY <3>1, LenProperties
    <3> QED BY <3>1, <3>2 DEF Ascending
  <2> HIDE DEF own
  <2>6. CASE own = {}
    BY <2>2, <2>4, <2>6 DEF IsLogprobs, own
  <2>7. CASE own # {}
    <3>1. s.logprobs \in Seq(Nat) /\ Ascending(s.logprobs) /\ ToSet(s.logprobs) = own
      BY <2>2, <2>7 DEF IsLogprobs
    <3>2. "logprobs" \in DOMAIN w /\ w.logprobs = s.logprobs
      BY <2>3, <2>4, <3>1 DEF Field
    <3> QED BY <2>1, <2>5, <2>7, <3>1, <3>2 DEF own
  <2> QED BY <2>6, <2>7
<1> QED BY <1>1, ResponsesInvariant, PTL

\* No merge loses a delta's call id, response id, SSE id or unknown field
\* (segments.go:266-424).
THEOREM MetadataKept ==
  ASSUME DeltasAreStrings, CallsAreItems
  PROVE  Spec => []MetadataPreserved
<1>1. ASSUME Inv PROVE MetadataPreserved
  <2> SUFFICES ASSUME NEW w \in ToSet(written), ~IsControl(w), NEW n \in ToSet(w.delta)
               PROVE  /\ w.type \in ToolTypes /\ received[n].call # None
                           => Field(w, "call") = received[n].call
                      /\ received[n].response => "response" \in DOMAIN w /\ w.response >= n
                      /\ received[n].id => "id" \in DOMAIN w /\ w.id >= n
                      /\ received[n].extra => "extra" \in DOMAIN w /\ w.extra >= n
    BY DEF MetadataPreserved
  <2>1. PICK s \in DeltaSegment :
          /\ IsMerged(received, s) /\ HasFields(received, s)
          /\ ToSet(w.delta) = Own(s) /\ w.type = s.type
          /\ \A f \in Optionals : /\ Field(w, f) = s[f]
                                  /\ f \in DOMAIN w <=> s[f] # None
    BY <1>1, DeltaOrigin
  <2>2. n \in Own(s) /\ n \in Nat
    <3>1. n \in Own(s)
      BY <2>1
    <3>2. From(s) \in Nat /\ s.seq \in Nat /\ SequenceNumber(s) = s.seq
      BY <2>1, Kinds DEF IsMerged, DeltaSegment, SequenceNumber
    <3> QED BY <3>1, <3>2 DEF Own
  <2>3. ASSUME w.type \in ToolTypes, received[n].call # None
        PROVE  Field(w, "call") = received[n].call
    <3>1. received[n].call \in CallsIn(received, Own(s))
      BY <2>2, <2>3 DEF CallsIn
    <3>2. IsCall(s.call, CallsIn(received, Own(s)))
      BY <2>1, <2>3 DEF HasFields
    <3> QED BY <2>1, <3>1, <3>2 DEF IsCall, Optionals
  <2>4. ASSUME NEW f \in {"response", "id", "extra"},
               IsLatest(s[f], {m \in Own(s) : received[m][f]}), received[n][f]
        PROVE  f \in DOMAIN w /\ w[f] >= n
    <3>1. s[f] \in Own(s) /\ n <= s[f] /\ s[f] \in Nat
      <4>1. s[f] \in Own(s) /\ n <= s[f]
        BY <2>2, <2>4 DEF IsLatest
      <4>2. From(s) \in Nat /\ s.seq \in Nat /\ SequenceNumber(s) = s.seq
        BY <2>1, Kinds DEF IsMerged, DeltaSegment, SequenceNumber
      <4> QED BY <4>1, <4>2 DEF Own
    <3>2. s[f] # None
      BY <3>1, ResponsesAssumption
    <3>3. f \in DOMAIN w /\ w[f] = s[f]
      BY <2>1, <3>2 DEF Optionals, Field
    <3> QED BY <2>2, <3>1, <3>3
  <2> QED BY <2>1, <2>3, <2>4 DEF HasFields
<1> QED BY <1>1, ResponsesInvariant, PTL

\* Every variable keeps its type, and a delta on the wire has the fields the
\* protocol requires (serializer.go:187-272).
THEOREM TypeCorrect ==
  ASSUME DeltasAreStrings, CallsAreItems
  PROVE  Spec => []TypeOK
<1>1. ASSUME Inv PROVE TypeOK
  <2>1. /\ received \in Seq(Events)
        /\ pending \in Seq(SegmentType) /\ inflight \in Seq(SegmentType)
    BY <1>1 DEF Inv, Chain
  <2>2. ASSUME NEW i \in DOMAIN written, "data" \notin DOMAIN written[i]
        PROVE  /\ Required \subseteq DOMAIN written[i]
               /\ written[i].type \in TextTypes => "content" \in DOMAIN written[i]
    <3> DEFINE w == written[i]
    <3>1. PICK s \in DeltaSegment :
            /\ IsMerged(received, s) /\ w = SerializeSegment(s) /\ Own(s) # {}
            /\ w.type = s.type
            /\ \A f \in Optionals : f \in DOMAIN w <=> s[f] # None
      BY <1>1, <2>2, DeltaOrigin DEF IsControl, ToSet
    <3>2. Required \subseteq DOMAIN w
      BY <3>1, SerializedDelta
    <3>3. ASSUME s.type \in TextTypes PROVE s.content # None
      <4>1. PICK n \in Own(s) : IsDelta(received[n]) /\ Key(received[n], n) = PlaceOf(s)
        BY <3>1 DEF IsMerged
      <4>2. /\ received[n].type = s.type /\ ContentOf(received[n]) = s.content
        BY <4>1 DEF Key, PlaceOf
      <4>3. s.type \notin ToolTypes /\ None # 0
        BY <3>3, ResponsesAssumption
      <4> QED BY <3>3, <4>2, <4>3 DEF ContentOf
    <3> QED BY <3>1, <3>2, <3>3 DEF Optionals
  <2> QED BY <2>1, <2>2 DEF TypeOK
<1> QED BY <1>1, ResponsesInvariant, PTL

-----------------------------------------------------------------------------
\* The refinement.

\* The pieces of upstream and the runs of the client, as CoalescingStream sees
\* them.
Piece(rec, n) == [key |-> Key(rec[n], n), frag |-> n]
Up(rec) == [n \in DOMAIN rec |-> Piece(rec, n)]
Client(events) == [i \in DOMAIN events |-> RunOf(events[i])]

\* A sequence that is mapped one place at a time and grows by one place.
LEMMA MapAppend ==
  ASSUME NEW S, NEW p \in Seq(S), NEW x \in S, NEW f, NEW g, NEW y,
         DOMAIN f = DOMAIN p, DOMAIN g = DOMAIN Append(p, x),
         \A i \in DOMAIN p : g[i] = f[i],
         g[Len(p) + 1] = y,
         f = [i \in DOMAIN f |-> f[i]], g = [i \in DOMAIN g |-> g[i]]
  PROVE  g = Append(f, y)
<1> DEFINE k == Len(p)
           T == {f[i] : i \in DOMAIN p} \cup {y}
<1>1. /\ k \in Nat /\ DOMAIN f = 1 .. k /\ DOMAIN g = 1 .. k + 1
      /\ DOMAIN p = 1 .. k
  BY AppendProperties, LenProperties
<1> HIDE DEF k
<1>2. f \in Seq(T) /\ Len(f) = k
  BY <1>1
<1>3. y \in T
  OBVIOUS
<1> HIDE DEF T
<1>4. /\ Append(f, y) \in Seq(T) /\ Len(Append(f, y)) = k + 1
      /\ \A i \in 1 .. k : Append(f, y)[i] = f[i]
      /\ Append(f, y)[k + 1] = y
  BY <1>2, <1>3, AppendProperties
<1>5. DOMAIN Append(f, y) = 1 .. k + 1
  BY <1>4, LenProperties
<1>6. \A i \in 1 .. k + 1 : g[i] = Append(f, y)[i]
  <2>1. \A i \in 1 .. k + 1 : i \in 1 .. k \/ i = k + 1
    BY <1>1
  <2> QED BY <1>1, <1>4, <2>1 DEF k
<1>7. Append(f, y) = [i \in 1 .. k + 1 |-> Append(f, y)[i]]
  BY <1>4, LenProperties
<1> QED BY <1>1, <1>6, <1>7

\* An event that is read is one more piece.
LEMMA PieceRead ==
  ASSUME NEW rec \in Seq(Events), NEW e \in Events
  PROVE  LET n == Len(rec) + 1
         IN  Up(Append(rec, e)) = Append(Up(rec), [key |-> Key(e, n), frag |-> n])
<1> DEFINE new == Append(rec, e)
           n == Len(rec) + 1
           y == [key |-> Key(e, n), frag |-> n]
<1>1. /\ Len(rec) \in Nat /\ DOMAIN rec = 1 .. Len(rec) /\ DOMAIN new = 1 .. n
      /\ \A i \in 1 .. Len(rec) : new[i] = rec[i]
      /\ new[n] = e
  BY AppendProperties, LenProperties
<1>2. n \in 1 .. n /\ \A i \in 1 .. Len(rec) : i \in 1 .. n
  BY <1>1
<1> HIDE DEF new, n
<1>3. DOMAIN Up(rec) = DOMAIN rec /\ DOMAIN Up(new) = DOMAIN new
  BY DEF Up
<1>4. \A i \in DOMAIN rec : Up(new)[i] = Up(rec)[i]
  BY <1>1, <1>2 DEF Up, Piece
<1>5. Up(new)[n] = y
  BY <1>1, <1>2 DEF Up, Piece
<1>6. /\ Up(rec) = [i \in DOMAIN Up(rec) |-> Up(rec)[i]]
      /\ Up(new) = [i \in DOMAIN Up(new) |-> Up(new)[i]]
  BY DEF Up
<1> HIDE DEF y
<1> QED BY <1>3, <1>4, <1>5, <1>6, MapAppend DEF new, n, y

\* What the events of a segment become is a stretch of the pieces.
LEMMA RunWritten ==
  ASSUME NEW rec \in Seq(Events), NEW s, IsRun(rec, s)
  PROVE  /\ RunOf(SerializeSegment(s)) = SubSeq(Up(rec), From(s) + 1, SequenceNumber(s))
         /\ \A i \in Own(s) : Up(rec)[i].key = Up(rec)[SequenceNumber(s)].key
<1> DEFINE w == SerializeSegment(s)
           a == From(s)
           b == SequenceNumber(s)
           k == Len(rec)
           fragments == FragmentsOf(s)
           key == RunKey(s)
<1>1. /\ a \in Nat /\ b \in 1 .. k /\ a < b /\ k \in Nat
      /\ fragments \in Seq(Nat) /\ Len(fragments) = b - a
      /\ \A i \in 1 .. Len(fragments) : fragments[i] = a + i
      /\ \A n \in a + 1 .. b : Key(rec[n], n) = key
  BY RunNumbers, LenProperties DEF Own
<1>2. DOMAIN fragments = 1 .. b - a
  BY <1>1, LenProperties
<1>3. RunOf(w) = [i \in 1 .. b - a |-> [key |-> key, frag |-> fragments[i]]]
  BY <1>2, Serialized DEF RunOf
<1>4. Up(rec) = [n \in 1 .. k |-> [key |-> Key(rec[n], n), frag |-> n]]
  BY LenProperties DEF Up, Piece
<1> HIDE DEF w, a, b, k, fragments, key
<1>5. SubSeq(Up(rec), a + 1, b) = [i \in 1 .. b - a |-> Up(rec)[a + i]]
  <2> DEFINE T == {Up(rec)[n] : n \in 1 .. k}
             stretch == SubSeq(Up(rec), a + 1, b)
  <2>1. /\ a + 1 \in Int /\ b \in Int
        /\ \A i \in a + 1 .. b : i \in 1 .. k /\ Up(rec)[i] \in T
    BY <1>1
  <2> HIDE DEF T
  <2>2. /\ stretch \in Seq(T)
        /\ Len(stretch) = IF a + 1 <= b THEN b - (a + 1) + 1 ELSE 0
        /\ \A i \in 1 .. b - (a + 1) + 1 : stretch[i] = Up(rec)[a + 1 + i - 1]
    BY <2>1, SubSeqProperties
  <2>3. b - (a + 1) + 1 = b - a /\ a + 1 <= b
    BY <1>1
  <2> HIDE DEF stretch
  <2>4. stretch = [i \in 1 .. b - a |-> stretch[i]]
    BY <2>2, <2>3, LenProperties
  <2>5. \A i \in 1 .. b - a : stretch[i] = Up(rec)[a + i]
    <3>1. \A i \in 1 .. b - a : a + 1 + i - 1 = a + i
      BY <1>1
    <3> QED BY <2>2, <2>3, <3>1
  <2> QED BY <2>4, <2>5 DEF stretch
<1>6. ASSUME NEW i \in 1 .. b - a
      PROVE  Up(rec)[a + i] = [key |-> key, frag |-> fragments[i]]
  <2>1. a + i \in a + 1 .. b /\ a + i \in 1 .. k
    BY <1>1
  <2>2. fragments[i] = a + i
    BY <1>1
  <2> QED BY <1>1, <1>4, <2>1, <2>2
<1>7. \A n \in a + 1 .. b : n \in 1 .. k /\ b \in a + 1 .. b
  BY <1>1
<1>8. \A n \in a + 1 .. b : Up(rec)[n].key = key
  BY <1>1, <1>4, <1>7
<1> QED BY <1>3, <1>5, <1>6, <1>7, <1>8 DEF w, a, b, k, fragments, key, Own

\* Every step of the session is one of CoalescingStream or none.
LEMMA StreamStep ==
  ASSUME DeltasAreStrings, CallsAreItems, Inv, Inv', [Next]_vars
  PROVE  [Stream!Next]_(Stream!streamVars)
<1>1. /\ received \in Seq(Events) /\ received' \in Seq(Events)
  BY DEF Inv
<1>2. CASE received' = received /\ written' = written
  BY <1>2 DEF Stream!streamVars
<1>3. CASE ReadEvent /\ received' # received
  <2> DEFINE n == Len(received) + 1
  <2>1. PICK e \in Events :
          /\ received' = Append(received, e) /\ written' = written
          /\ Len(received) < MaxEvents
    BY <1>3 DEF ReadEvent
  <2>2. n \in 1 .. MaxEvents
    BY <1>1, <2>1, LenProperties, ResponsesAssumption
  <2> DEFINE piece == [key |-> Key(e, n), frag |-> n]
  <2>3. piece \in PiecesOf
    BY <2>2 DEF PiecesOf
  <2>4. Up(received') = Append(Up(received), piece)
    BY <1>1, <2>1, PieceRead
  <2>5. /\ Up(received) = [m \in DOMAIN received |-> [key |-> Key(received[m], m),
                                                     frag |-> m]]
        /\ Up(received') = [m \in DOMAIN received' |-> [key |-> Key(received'[m], m),
                                                       frag |-> m]]
    BY DEF Up, Piece
  <2> HIDE DEF piece
  <2>6. Stream!Accept
    <3>1. [m \in DOMAIN received |-> [key |-> Key(received[m], m), frag |-> m]]'
            = Append([m \in DOMAIN received |-> [key |-> Key(received[m], m), frag |-> m]],
                     piece)
      BY <2>4, <2>5
    <3>2. UNCHANGED <<[i \in DOMAIN written |-> RunOf(written[i])],
                      IF written = <<>> THEN 0 ELSE SequenceNumber(Last(written)),
                      "open">>
      BY <2>1
    <3> QED BY <2>3, <3>1, <3>2 DEF Stream!Accept
  <2> QED BY <2>6 DEF Stream!Next
<1>4. CASE WriteSegment
  <2> DEFINE s == Head(inflight)
             w == SerializeSegment(s)
  <2>1. /\ inflight # <<>> /\ written' = Append(written, w) /\ received' = received
    BY <1>4 DEF WriteSegment
  <2>2. /\ IsRun(received, s) /\ From(s) = Sent
    BY <2>1, ChainTail DEF Inv
  <2>3. SequenceNumber(w) = SequenceNumber(s)
    BY <1>1, <2>2, Serialized
  <2>4. /\ RunOf(w) = SubSeq(Up(received), Sent + 1, SequenceNumber(s))
        /\ \A i \in Sent + 1 .. SequenceNumber(s) :
             Up(received)[i].key = Up(received)[SequenceNumber(s)].key
    BY <1>1, <2>2, RunWritten DEF Own
  <2>5. /\ Sent \in Nat /\ SequenceNumber(s) \in 1 .. Len(received)
        /\ Sent < SequenceNumber(s) /\ Len(received) \in Nat
    BY <1>1, <2>2, RunNumbers, LenProperties
  <2>6. Len(Up(received)) = Len(received)
    BY <1>1, <2>5, LenProperties DEF Up
  <2>7. SequenceNumber(s) \in Sent + 1 .. Len(Up(received))
    BY <2>5, <2>6
  <2> HIDE DEF s, w
  <2>8. written \in Seq(ToSet(written) \cup {w}) /\ w \in ToSet(written) \cup {w}
    <3>1. PICK past \in Seq(SegmentType) : written = WrittenOf(past)
      BY DEF Inv
    <3>2. Len(past) \in Nat
      BY <3>1, LenProperties
    <3> QED BY <3>1, <3>2 DEF WrittenOf, ToSet
  <2>9. /\ DOMAIN written' = 1 .. Len(written) + 1 /\ DOMAIN written = 1 .. Len(written)
        /\ Len(written) \in Nat /\ Len(written') = Len(written) + 1
        /\ \A i \in 1 .. Len(written) : written'[i] = written[i]
        /\ written'[Len(written) + 1] = w /\ written' # <<>>
    BY <2>1, <2>8, AppendProperties, LenProperties
  <2>10. Client(written') = Append(Client(written), RunOf(w))
    <3>1. /\ Len(written) + 1 \in 1 .. Len(written) + 1
          /\ \A i \in 1 .. Len(written) : i \in 1 .. Len(written) + 1
      BY <2>9
    <3>2. /\ DOMAIN Client(written) = DOMAIN written
          /\ DOMAIN Client(written') = DOMAIN Append(written, w)
          /\ \A i \in DOMAIN written : Client(written')[i] = Client(written)[i]
          /\ Client(written')[Len(written) + 1] = RunOf(w)
          /\ Client(written) = [i \in DOMAIN Client(written) |-> Client(written)[i]]
          /\ Client(written') = [i \in DOMAIN Client(written') |-> Client(written')[i]]
      BY <2>1, <2>9, <3>1 DEF Client
    <3> QED BY <2>8, <3>2, MapAppend
  <2>11. Sent' = SequenceNumber(s)
    BY <2>3, <2>9 DEF Sent, Last
  <2>12. /\ Up(received) = [m \in DOMAIN received |-> [key |-> Key(received[m], m),
                                                      frag |-> m]]
         /\ Client(written) = [i \in DOMAIN written |-> RunOf(written[i])]
         /\ Client(written') = [i \in DOMAIN written' |-> RunOf(written'[i])]
    BY DEF Up, Piece, Client
  <2>13. Stream!Deliver
    BY <2>1, <2>4, <2>7, <2>10, <2>11, <2>12 DEF Stream!Deliver, Sent
  <2> QED BY <2>13 DEF Stream!Next
<1> QED BY <1>2, <1>3, <1>4 DEF Next, ReadEvent, TakeSnapshot, Terminated, vars

\* Every delta reaches the client once, in the order of upstream and in an
\* event that names its place, never joined with a delta of another place or
\* moved over an event of another kind: the safety of ImplementsStream
\* (segments.go:117-136, 266-424).
THEOREM ResponsesRefineStream ==
  ASSUME DeltasAreStrings, CallsAreItems
  PROVE  Spec => Stream!Safety
<1>1. Init => Stream!Init
  BY DEF Init, Stream!Init
<1>2. Inv /\ Inv' /\ [Next]_vars => [Stream!Next]_(Stream!streamVars)
  BY StreamStep
<1> QED BY <1>1, <1>2, ResponsesInvariant, PTL DEF Spec, Stream!Safety

=============================================================================
