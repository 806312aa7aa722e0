---------------------------- MODULE SessionsProofs ----------------------------
(***************************************************************************)
(* The monitor hub, for any number of requests and viewers and any         *)
(* capacity of their channels: no broadcast meets a closed channel, what a *)
(* viewer is told of a request is in order, and it is told the end of an   *)
(* answer it saw something of.                                             *)
(***************************************************************************)
EXTENDS Sessions, SequenceTheorems, TLAPS

\* What a viewer's handler is doing decides on its channel: it is registered
\* while it watches, and closed once it has left.
ChannelInv ==
  /\ vpc \in [Viewers -> {"new", "headers", "watching", "left"}]
  /\ subscribers = {v \in Viewers : vpc[v] = "watching"}
  /\ closedCh = {v \in Viewers : vpc[v] = "left"}

\* The steps of handlers, with all that they do to the hub's channels, leave
\* the viewers and who is registered alone.
LEMMA RequestsKeepChannels ==
  ASSUME NEW r \in Requests, Handler(r) \/ Packet(r) \/ StreamEnds(r)
  PROVE  UNCHANGED <<vpc, subscribers, closedCh>>
<1>1. ASSUME NEW from, NEW type, NEW to, Tell(r, from, type, to)
      PROVE  UNCHANGED <<vpc, subscribers, closedCh>>
  BY <1>1 DEF Tell, Broadcast, viewerVars
<1>2. ASSUME NEW from, NEW yes, NEW no, AskHub(r, from, yes, no)
      PROVE  UNCHANGED <<vpc, subscribers, closedCh>>
  BY <1>2 DEF AskHub, Quiet, viewerVars, hubVars
<1>3. ASSUME NEW from, NEW to, recordLastReq(r, from, to)
      PROVE  UNCHANGED <<vpc, subscribers, closedCh>>
  BY <1>3 DEF recordLastReq, viewerVars, hubVars
<1>4. CASE Begin(r) \/ SessionEnd(r) \/ Reply(r)
  BY <1>2, <1>4 DEF Begin, SessionEnd, Reply, Quiet, viewerVars, hubVars
<1>5. CASE \/ Announce(r) \/ TellPacket(r) \/ TellEnd(r) \/ TellResponse(r)
           \/ TellResponseEnd(r)
  BY <1>1, <1>5 DEF Announce, TellPacket, TellEnd, TellResponse, TellResponseEnd
<1>6. CASE RecordStream(r) \/ Record(r)
  BY <1>3, <1>6 DEF RecordStream, Record
<1>7. CASE \/ Route(r) \/ AskUpstreamStream(r) \/ AskUpstream(r)
           \/ Packet(r) \/ StreamEnds(r)
  BY <1>7 DEF Route, AskUpstreamStream, AskUpstream, Packet, StreamEnds, Quiet,
              viewerVars, hubVars
<1> QED BY <1>4, <1>5, <1>6, <1>7 DEF Handler

\* The invariant of the hub's channels, however viewers come and go.
THEOREM Channels == Spec => []ChannelInv
<1>1. Init => ChannelInv
  BY DEF Init, ChannelInv
<1>2. ChannelInv /\ [Next]_vars => ChannelInv'
  <2> SUFFICES ASSUME ChannelInv, [Next]_vars PROVE ChannelInv'
    OBVIOUS
  <2>1. ASSUME NEW r \in Requests, Handler(r) \/ Packet(r) \/ StreamEnds(r)
        PROVE  ChannelInv'
    BY <2>1, RequestsKeepChannels DEF ChannelInv
  <2>2. ASSUME NEW v \in Viewers, ViewerConnects(v) PROVE ChannelInv'
    BY <2>2 DEF ChannelInv, ViewerConnects, hubVars
  <2>3. ASSUME NEW v \in Viewers, Subscribe(v) PROVE ChannelInv'
    BY <2>3 DEF ChannelInv, Subscribe
  <2>4. ASSUME NEW v \in Viewers, Watch(v) PROVE ChannelInv'
    BY <2>4 DEF ChannelInv, Watch
  <2>5. ASSUME NEW v \in Viewers, Leave(v) PROVE ChannelInv'
    BY <2>5 DEF ChannelInv, Leave
  <2>6. CASE Terminated \/ UNCHANGED vars
    BY <2>6 DEF ChannelInv, Terminated, vars, hubVars, viewerVars
  <2> QED BY <2>1, <2>2, <2>3, <2>4, <2>5, <2>6 DEF Next
<1> QED BY <1>1, <1>2, PTL DEF Spec

\* No broadcast sends on a closed channel: unsubscribing (monitor.go:69-88)
\* takes a channel out of the hub and closes it under one lock.
THEOREM ClosedNeverSent == Spec => []NoSendOnClosed
<1>1. ChannelInv => NoSendOnClosed
  BY DEF ChannelInv, NoSendOnClosed
<1> QED BY <1>1, Channels, PTL

-----------------------------------------------------------------------------
\* What the handlers tell the viewers.

\* The variables keep their types; queues and histories are functions.
TypeInv ==
  /\ TypeOK
  /\ queue \in [Viewers -> Seq(Events)]
  /\ seen \in [Viewers -> Seq(Events)]

\* The moves of a handler that tell nobody anything.
Moves ==
  {<<"new", "announce">>, <<"new", "route">>, <<"new", "done">>,
   <<"route", "ask">>, <<"route", "record">>,
   <<"ask", "record">>, <<"ask", "done">>, <<"ask", "relay">>, <<"ask", "reply">>,
   <<"relay", "packet">>, <<"relay", "relay">>, <<"relay", "recordStream">>,
   <<"recordStream", "end">>, <<"end", "lastEvent">>, <<"end", "done">>,
   <<"reply", "response">>, <<"reply", "record">>, <<"record", "done">>}

\* The moves that do, by the type of the event.
Tells ==
  {<<"announce", "request", "route">>, <<"packet", "chunk", "relay">>,
   <<"lastEvent", "session_end", "done">>,
   <<"response", "response", "responseEnd">>,
   <<"responseEnd", "session_end", "record">>}

\* The stages a handler can be in once it has sent an event of the type.
After(type) ==
  CASE type = "request"     -> Stages \ {"new", "announce"}
    [] type = "chunk"       -> {"relay", "packet", "recordStream", "end",
                                "lastEvent", "done"}
    [] type = "response"    -> {"responseEnd", "record", "done"}
    [] type = "session_end" -> {"record", "done"}

\* An event a viewer was told was sent by a handler that has come that far.
ToldInv ==
  \A v \in Viewers : \A i \in 1 .. Len(Told(v)) :
    LET e == Told(v)[i]
    IN  /\ stage[e.of] \in After(e.type)
        /\ filter[v] \in {NoModel, model[e.of]}

OrderInv ==
  \A v \in Viewers : \A i, j \in 1 .. Len(Told(v)) :
    LET a == Told(v)[i]  b == Told(v)[j]
    IN  i < j /\ a.of = b.of =>
          \/ Position(a.type) < Position(b.type)
          \/ a.type = "chunk" /\ b.type = "chunk"

\* The handlers that still owe their viewers the end of an answer.
Owing == {"relay", "packet", "recordStream", "end", "lastEvent", "responseEnd"}

DebtInv ==
  \A v \in subscribers \ dropped : \A i \in 1 .. Len(Told(v)) :
    LET a == Told(v)[i]
    IN  a.type \in {"chunk", "response"} =>
          \/ stage[a.of] \in Owing
          \/ \E j \in 1 .. Len(Told(v)) :
               i < j /\ Told(v)[j] = Event("session_end", a.of)

\* Nobody is told anything before it subscribes.
FreshInv ==
  \A v \in Viewers : vpc[v] \in {"new", "headers"} =>
                       seen[v] = <<>> /\ queue[v] = <<>>

\* The inductive invariant.
HubInv ==
  TypeInv /\ ChannelInv /\ ToldInv /\ OrderInv /\ DebtInv /\ FreshInv

-----------------------------------------------------------------------------
\* The steps of a handler, by what they do to the viewers.

\* The handler moves and tells nobody.
MovesOn(r) ==
  \E move \in Moves :
    /\ stage[r] = move[1]
    /\ stage' = [stage EXCEPT ![r] = move[2]]
    /\ move = <<"end", "done">> => ~HasSubscribers(model[r])
    /\ UNCHANGED <<model, stream, hubVars, viewerVars>>

\* It sends an event, and goes on.
TellsAndMovesOn(r) ==
  \E tell \in Tells :
    /\ stage[r] = tell[1]
    /\ Broadcast(Event(tell[2], r))
    /\ stage' = [stage EXCEPT ![r] = tell[3]]
    /\ UNCHANGED <<model, stream, viewerVars>>

\* Every step of a handler is of one of the two kinds.
LEMMA HandlerSteps ==
  ASSUME NEW r \in Requests, Handler(r) \/ Packet(r) \/ StreamEnds(r)
  PROVE  MovesOn(r) \/ TellsAndMovesOn(r)
<1>1. ASSUME NEW from, NEW to, <<from, to>> \in Moves, stage[r] = from,
             Goto(r, to), UNCHANGED <<model, stream, hubVars, viewerVars>>,
             <<from, to>> = <<"end", "done">> => ~HasSubscribers(model[r])
      PROVE  MovesOn(r)
  <2> DEFINE move == <<from, to>>
  <2>1. move \in Moves /\ move[1] = from /\ move[2] = to
    BY <1>1
  <2> QED BY <1>1, <2>1 DEF MovesOn, Goto
<1>2. ASSUME NEW from, NEW type, NEW to, <<from, type, to>> \in Tells,
             Tell(r, from, type, to)
      PROVE  TellsAndMovesOn(r)
  <2> DEFINE tell == <<from, type, to>>
  <2>1. tell \in Tells /\ tell[1] = from /\ tell[2] = type /\ tell[3] = to
    BY <1>2
  <2> QED BY <1>2, <2>1 DEF TellsAndMovesOn, Tell, Goto
<1>3. CASE Begin(r) \/ SessionEnd(r) \/ Reply(r)
  BY <1>1, <1>3 DEF Begin, SessionEnd, Reply, AskHub, Quiet, Moves
<1>4. CASE \/ Announce(r) \/ TellPacket(r) \/ TellEnd(r) \/ TellResponse(r)
           \/ TellResponseEnd(r)
  BY <1>2, <1>4
     DEF Announce, TellPacket, TellEnd, TellResponse, TellResponseEnd, Tells
<1>5. CASE RecordStream(r) \/ Record(r)
  BY <1>1, <1>5 DEF RecordStream, Record, recordLastReq, Moves
<1>6. CASE \/ Route(r) \/ AskUpstreamStream(r) \/ AskUpstream(r)
           \/ Packet(r) \/ StreamEnds(r)
  BY <1>1, <1>6 DEF Route, AskUpstreamStream, AskUpstream, Packet, StreamEnds,
                    Quiet, Moves
<1> QED BY <1>3, <1>4, <1>5, <1>6 DEF Handler

Types == {"request", "chunk", "response", "session_end"}

\* A move takes a handler no way back, and only a stream nobody watches ends
\* without a word.
LEMMA MovesGoOn ==
  ASSUME NEW move \in Moves
  PROVE  /\ move[1] \in Stages /\ move[2] \in Stages
         /\ \A type \in Types : move[1] \in After(type) => move[2] \in After(type)
         /\ move[1] \in Owing => move[2] \in Owing \/ move = <<"end", "done">>
BY DEF Moves, Stages, Types, After, Owing

\* What a handler tells comes after what it told before, and the end of an
\* answer is told by the one who owes it.
LEMMA TellsGoOn ==
  ASSUME NEW tell \in Tells
  PROVE  /\ tell[1] \in Stages /\ tell[2] \in Types /\ tell[3] \in Stages
         /\ tell[3] \in After(tell[2])
         /\ \A type \in Types :
              tell[1] \in After(type) =>
                /\ tell[3] \in After(type)
                /\ \/ Position(type) < Position(tell[2])
                   \/ type = "chunk" /\ tell[2] = "chunk"
         /\ tell[1] \in Owing => tell[3] \in Owing \/ tell[2] = "session_end"
         /\ tell[2] \in {"chunk", "response"} => tell[3] \in Owing
BY DEF Tells, Stages, Types, After, Owing, Position

\* What a viewer is told are events.
LEMMA ToldType ==
  ASSUME TypeInv, NEW v \in Viewers
  PROVE  /\ Told(v) \in Seq(Events) /\ Len(Told(v)) \in Nat
         /\ \A i \in 1 .. Len(Told(v)) :
              /\ Told(v)[i] \in Events
              /\ Told(v)[i].of \in Requests /\ Told(v)[i].type \in Types
<1>1. seen[v] \in Seq(Events) /\ queue[v] \in Seq(Events)
  BY DEF TypeInv
<1>2. Told(v) \in Seq(Events)
  BY <1>1, ConcatProperties DEF Told
<1> HIDE DEF Told
<1>3. Len(Told(v)) \in Nat /\ \A i \in 1 .. Len(Told(v)) : Told(v)[i] \in Events
  BY <1>2, LenProperties, ElementOfSeq
<1>4. \A e \in Events : e.of \in Requests /\ e.type \in Types
  BY DEF Events, Types
<1> QED BY <1>2, <1>3, <1>4

\* Taking an event from the channel leaves what the viewer was told alone.
LEMMA TakingKeeps ==
  ASSUME NEW S, NEW s \in Seq(S), NEW q \in Seq(S), q # <<>>
  PROVE  Append(s, Head(q)) \o Tail(q) = s \o q
<1>1. /\ Head(q) \in S /\ Tail(q) \in Seq(S) /\ Len(Tail(q)) = Len(q) - 1
      /\ \A i \in 1 .. Len(Tail(q)) : Tail(q)[i] = q[i + 1]
      /\ Head(q) = q[1]
  BY HeadTailProperties
<1> DEFINE a == Append(s, Head(q))  h == Head(q)  t == Tail(q)
<1>2. /\ a \in Seq(S) /\ Len(a) = Len(s) + 1 /\ a[Len(s) + 1] = h
      /\ \A i \in 1 .. Len(s) : a[i] = s[i]
  BY <1>1, AppendProperties
<1> HIDE DEF a, h, t
<1>3. /\ a \o t \in Seq(S) /\ Len(a \o t) = Len(a) + Len(t)
      /\ \A i \in 1 .. Len(a) + Len(t) :
           (a \o t)[i] = IF i <= Len(a) THEN a[i] ELSE t[i - Len(a)]
  BY <1>1, <1>2, ConcatProperties DEF t
<1>4. /\ s \o q \in Seq(S) /\ Len(s \o q) = Len(s) + Len(q)
      /\ \A i \in 1 .. Len(s) + Len(q) :
           (s \o q)[i] = IF i <= Len(s) THEN s[i] ELSE q[i - Len(s)]
  BY ConcatProperties
<1> DEFINE x == a \o t  y == s \o q
<1>5. Len(s) \in Nat /\ Len(q) \in Nat /\ Len(t) \in Nat
  BY <1>1, LenProperties DEF t
<1>6. h = q[1] /\ Len(t) = Len(q) - 1 /\ \A i \in 1 .. Len(t) : t[i] = q[i + 1]
  BY <1>1 DEF h, t
<1>7. /\ x \in Seq(S) /\ Len(x) = Len(a) + Len(t)
      /\ \A i \in 1 .. Len(a) + Len(t) :
           x[i] = IF i <= Len(a) THEN a[i] ELSE t[i - Len(a)]
  BY <1>3
<1>8. /\ y \in Seq(S) /\ Len(y) = Len(s) + Len(q)
      /\ \A i \in 1 .. Len(s) + Len(q) :
           y[i] = IF i <= Len(s) THEN s[i] ELSE q[i - Len(s)]
  BY <1>4
<1> HIDE DEF x, y
<1>9. Len(x) = Len(y)
  BY <1>2, <1>5, <1>6, <1>7, <1>8
<1>10. ASSUME NEW i \in 1 .. Len(x) PROVE x[i] = y[i]
  <2>1. CASE i <= Len(s)
    <3>1. x[i] = a[i]
      BY <1>2, <1>5, <1>7, <2>1
    <3>2. y[i] = s[i]
      BY <1>5, <1>8, <1>9, <2>1
    <3>3. i \in 1 .. Len(s)
      BY <1>5, <2>1
    <3> QED BY <1>2, <3>1, <3>2, <3>3
  <2>2. CASE i = Len(s) + 1
    <3>1. x[i] = a[Len(s) + 1]
      BY <1>2, <1>5, <1>7, <2>2
    <3>2. y[i] = q[1]
      BY <1>5, <1>8, <1>9, <2>2
    <3> QED BY <1>2, <1>6, <3>1, <3>2
  <2>3. CASE i > Len(s) + 1
    <3>1. x[i] = t[i - (Len(s) + 1)]
      BY <1>2, <1>5, <1>7, <2>3
    <3>2. y[i] = q[i - Len(s)]
      BY <1>5, <1>8, <1>9, <2>3
    <3>3. /\ i - (Len(s) + 1) \in 1 .. Len(t)
          /\ (i - (Len(s) + 1)) + 1 = i - Len(s)
      BY <1>2, <1>5, <1>7, <2>3
    <3> QED BY <1>6, <3>1, <3>2, <3>3
  <2> QED BY <1>5, <2>1, <2>2, <2>3
<1>11. x = y
  BY <1>7, <1>8, <1>9, <1>10, SeqEqual
<1> QED BY <1>11 DEF x, y, a, t

\* Appending to the second part appends to the whole.
LEMMA AppendInConcat ==
  ASSUME NEW S, NEW s \in Seq(S), NEW q \in Seq(S), NEW e \in S
  PROVE  s \o Append(q, e) = Append(s \o q, e)
<1>1. <<e>> \in Seq(S)
  OBVIOUS
<1>2. s \o q \in Seq(S)
  BY ConcatProperties
<1>3. Append(q, e) = q \o <<e>> /\ Append(s \o q, e) = (s \o q) \o <<e>>
  BY <1>2, AppendIsConcat
<1> QED BY <1>1, <1>3, ConcatAssociative

\* A broadcast adds the event to what the viewers with room in their channels
\* were told, and who has no room is late from then on.
LEMMA BroadcastTells ==
  ASSUME TypeInv, NEW r \in Requests, NEW type \in Types,
         Broadcast(Event(type, r)), UNCHANGED <<filter, seen>>
  PROVE  /\ dropped \subseteq dropped' /\ dropped' \subseteq Viewers
         /\ subscribers' = subscribers
         /\ queue' \in [Viewers -> Seq(Events)]
         /\ \A v \in Viewers : Len(queue'[v]) <= Capacity
         /\ \A v \in Viewers :
              \/ Told(v)' = Told(v)
              \/ /\ Told(v)' = Append(Told(v), Event(type, r))
                 /\ v \in subscribers /\ filter[v] \in {NoModel, model[r]}
         /\ \A v \in subscribers \ dropped' :
              filter[v] \in {NoModel, model[r]} =>
                Told(v)' = Append(Told(v), Event(type, r))
<1> DEFINE ev == Event(type, r)
           to == Addressed(model[r])
           full == {v \in to : Len(queue[v]) >= Capacity}
<1>1. ev \in Events /\ ev.of = r
  BY DEF Event, Events, Types
<1>2. /\ queue' = [v \in Viewers |->
                     IF v \in to \ full THEN Append(queue[v], ev) ELSE queue[v]]
      /\ dropped' = dropped \cup full
      /\ subscribers' = subscribers
  BY <1>1 DEF Broadcast
<1>3. /\ subscribers \subseteq Viewers /\ dropped \subseteq Viewers
      /\ seen \in [Viewers -> Seq(Events)]
      /\ queue \in [Viewers -> Seq(Events)]
      /\ \A v \in Viewers : Len(queue[v]) <= Capacity
  BY DEF TypeInv, TypeOK
<1>4. to = {v \in subscribers : filter[v] \in {NoModel, model[r]}}
  BY DEF Addressed
<1> HIDE DEF ev, to
<1>5. /\ full \subseteq to /\ to \subseteq subscribers
      /\ \A v \in to \ full : ~(Len(queue[v]) >= Capacity)
  BY <1>4
<1> HIDE DEF full
<1>6. ASSUME NEW v \in Viewers
      PROVE  /\ queue'[v] \in Seq(Events) /\ Len(queue'[v]) <= Capacity
             /\ v \notin to \ full => queue'[v] = queue[v]
             /\ v \in to \ full => Told(v)' = Append(Told(v), ev)
  <2>1. seen[v] \in Seq(Events) /\ queue[v] \in Seq(Events)
    BY <1>3
  <2>2. CASE v \in to \ full
    <3>1. queue'[v] = Append(queue[v], ev)
      BY <1>2, <2>2
    <3>2. /\ Append(queue[v], ev) \in Seq(Events)
          /\ Len(Append(queue[v], ev)) = Len(queue[v]) + 1
      BY <1>1, <2>1, AppendProperties
    <3>3. Len(queue[v]) + 1 <= Capacity
      BY <1>5, <2>1, <2>2, LenProperties, SessionsAssumption
    <3> DEFINE s == seen[v]  q == queue[v]
    <3>4. s \o Append(q, ev) = Append(s \o q, ev)
      <4>1. s \in Seq(Events) /\ q \in Seq(Events) /\ ev \in Events
        BY <1>1, <2>1
      <4> HIDE DEF s, q
      <4> QED BY <4>1, AppendInConcat
    <3>5. Told(v)' = seen[v] \o Append(queue[v], ev)
      BY <3>1 DEF Told
    <3>6. Told(v)' = Append(Told(v), ev)
      BY <3>4, <3>5 DEF Told
    <3> QED BY <2>2, <3>1, <3>2, <3>3, <3>6
  <2>3. CASE v \notin to \ full
    BY <1>2, <1>3, <2>3
  <2> QED BY <2>2, <2>3
<1>7. ASSUME NEW v \in Viewers, v \notin to \ full PROVE Told(v)' = Told(v)
  BY <1>6, <1>7 DEF Told
<1>8. queue' \in [Viewers -> Seq(Events)]
  BY <1>2, <1>6
<1>9. ASSUME NEW v \in subscribers \ dropped', filter[v] \in {NoModel, model[r]}
      PROVE  v \in Viewers /\ v \in to \ full
  BY <1>2, <1>3, <1>4, <1>9
<1>10. dropped \subseteq dropped' /\ dropped' \subseteq Viewers
  BY <1>2, <1>3, <1>5
<1>11. \A v \in Viewers :
         \/ Told(v)' = Told(v)
         \/ /\ Told(v)' = Append(Told(v), ev)
            /\ v \in subscribers /\ filter[v] \in {NoModel, model[r]}
  BY <1>4, <1>5, <1>6, <1>7
<1>12. \A v \in subscribers \ dropped' :
         filter[v] \in {NoModel, model[r]} => Told(v)' = Append(Told(v), ev)
  BY <1>6, <1>9
<1> QED BY <1>2, <1>6, <1>8, <1>10, <1>11, <1>12 DEF ev

-----------------------------------------------------------------------------
\* The invariant is kept by the handlers.

\* A handler that moves on keeps what is said of the handlers: the events it
\* sent before are of stages it has passed.
LEMMA MoveKeepsTold ==
  ASSUME HubInv, NEW r \in Requests, NEW to \in Stages,
         stage' = [stage EXCEPT ![r] = to],
         \A type \in Types : stage[r] \in After(type) => to \in After(type),
         NEW v \in Viewers, NEW i \in 1 .. Len(Told(v))
  PROVE  stage'[Told(v)[i].of] \in After(Told(v)[i].type)
<1> DEFINE e == Told(v)[i]
<1>1. e.of \in Requests /\ e.type \in Types
  BY ToldType DEF HubInv
<1>2. stage[e.of] \in After(e.type)
  BY DEF HubInv, ToldInv
<1>3. stage \in [Requests -> Stages]
  BY DEF HubInv, TypeInv, TypeOK
<1> HIDE DEF e
<1>4. stage'[e.of] \in After(e.type)
  BY <1>1, <1>2, <1>3
<1> QED BY <1>4 DEF e

\* The steps that leave what every viewer was told alone.
LEMMA MovesOnKeeps ==
  ASSUME HubInv, NEW r \in Requests, MovesOn(r), TypeOK'
  PROVE  HubInv'
<1>1. PICK move \in Moves :
        /\ stage[r] = move[1]
        /\ stage' = [stage EXCEPT ![r] = move[2]]
        /\ move = <<"end", "done">> => ~HasSubscribers(model[r])
        /\ UNCHANGED <<model, stream, hubVars, viewerVars>>
  BY DEF MovesOn
<1>2. UNCHANGED <<model, subscribers, queue, closedCh, dropped, filter, vpc, seen>>
  BY <1>1 DEF hubVars, viewerVars
<1>3. \A v \in Viewers : Told(v)' = Told(v)
  BY <1>2 DEF Told
<1>4. /\ move[2] \in Stages
      /\ \A type \in Types : stage[r] \in After(type) => move[2] \in After(type)
      /\ stage[r] \in Owing => move[2] \in Owing \/ move = <<"end", "done">>
  BY <1>1, MovesGoOn
<1>5. stage \in [Requests -> Stages] /\ subscribers \subseteq Viewers
  BY DEF HubInv, TypeInv, TypeOK
<1>6. TypeInv' /\ ChannelInv' /\ FreshInv'
  BY <1>2 DEF HubInv, TypeInv, ChannelInv, FreshInv
<1>7. ToldInv'
  <2> SUFFICES ASSUME NEW v \in Viewers, NEW i \in 1 .. Len(Told(v))
               PROVE  /\ stage'[Told(v)[i].of] \in After(Told(v)[i].type)
                      /\ filter[v] \in {NoModel, model[Told(v)[i].of]}
    BY <1>2, <1>3 DEF ToldInv
  <2>1. stage'[Told(v)[i].of] \in After(Told(v)[i].type)
    BY <1>1, <1>4, MoveKeepsTold
  <2> QED BY <2>1 DEF HubInv, ToldInv
<1>8. OrderInv'
  BY <1>3 DEF HubInv, OrderInv
<1>9. DebtInv'
  <2> SUFFICES ASSUME NEW v \in subscribers \ dropped,
                      NEW i \in 1 .. Len(Told(v)),
                      Told(v)[i].type \in {"chunk", "response"}
               PROVE  \/ stage'[Told(v)[i].of] \in Owing
                      \/ \E j \in 1 .. Len(Told(v)) :
                           /\ i < j
                           /\ Told(v)[j] = Event("session_end", Told(v)[i].of)
    BY <1>2, <1>3, <1>5 DEF DebtInv
  <2> DEFINE a == Told(v)[i]
  <2>1. v \in Viewers /\ a.of \in Requests
    BY <1>5, ToldType DEF HubInv
  <2>2. \/ stage[a.of] \in Owing
        \/ \E j \in 1 .. Len(Told(v)) :
             i < j /\ Told(v)[j] = Event("session_end", a.of)
    BY DEF HubInv, DebtInv
  <2>3. filter[v] \in {NoModel, model[a.of]}
    BY <2>1 DEF HubInv, ToldInv
  <2> HIDE DEF a
  <2>4. CASE stage[a.of] \in Owing /\ a.of = r
    <3>1. HasSubscribers(model[r])
      BY <2>3, <2>4 DEF HasSubscribers, Addressed
    <3>2. stage'[a.of] \in Owing
      BY <1>1, <1>4, <1>5, <2>4, <3>1
    <3> QED BY <3>2 DEF a
  <2>5. CASE stage[a.of] \in Owing /\ a.of # r
    <3>1. stage'[a.of] = stage[a.of]
      BY <1>1, <1>5, <2>1, <2>5
    <3> QED BY <2>5, <3>1 DEF a
  <2> QED BY <2>2, <2>4, <2>5 DEF a
<1> QED BY <1>6, <1>7, <1>8, <1>9 DEF HubInv

\* The steps that tell the viewers something.
LEMMA TellsKeeps ==
  ASSUME HubInv, NEW r \in Requests, TellsAndMovesOn(r), TypeOK'
  PROVE  HubInv'
<1>1. PICK tell \in Tells :
        /\ stage[r] = tell[1]
        /\ Broadcast(Event(tell[2], r))
        /\ stage' = [stage EXCEPT ![r] = tell[3]]
        /\ UNCHANGED <<model, stream, viewerVars>>
  BY DEF TellsAndMovesOn
<1> DEFINE type == tell[2]
           to == tell[3]
           ev == Event(type, r)
<1>2. /\ UNCHANGED <<model, filter, vpc, seen>>
      /\ UNCHANGED <<subscribers, closedCh>>
  BY <1>1 DEF viewerVars, Broadcast
<1>3. /\ type \in Types /\ to \in Stages /\ to \in After(type)
      /\ \A old \in Types :
           stage[r] \in After(old) =>
             /\ to \in After(old)
             /\ \/ Position(old) < Position(type)
                \/ old = "chunk" /\ type = "chunk"
      /\ stage[r] \in Owing => to \in Owing \/ type = "session_end"
      /\ type \in {"chunk", "response"} => to \in Owing
  BY <1>1, TellsGoOn
<1>4. stage' = [stage EXCEPT ![r] = to] /\ Broadcast(ev)
  BY <1>1
<1> HIDE DEF type, to
<1>5. ev.of = r /\ ev.type = type
  BY DEF Event
<1>6. stage \in [Requests -> Stages] /\ subscribers \subseteq Viewers
  BY DEF HubInv, TypeInv, TypeOK
<1>7. stage'[r] = to /\ \A s \in Requests : s # r => stage'[s] = stage[s]
  BY <1>4, <1>6
<1>8. /\ dropped \subseteq dropped'
      /\ queue' \in [Viewers -> Seq(Events)]
      /\ \A v \in Viewers :
           \/ Told(v)' = Told(v)
           \/ /\ Told(v)' = Append(Told(v), ev)
              /\ v \in subscribers /\ filter[v] \in {NoModel, model[r]}
      /\ \A v \in subscribers \ dropped' :
           filter[v] \in {NoModel, model[r]} => Told(v)' = Append(Told(v), ev)
  BY <1>2, <1>3, <1>4, BroadcastTells DEF HubInv
<1>9. ev \in Events
  BY <1>3 DEF Event, Events, Types
<1> HIDE DEF ev
<1>10. ASSUME NEW v \in Viewers
       PROVE  /\ Len(Told(v)) \in Nat /\ Len(Told(v)') \in Nat
              /\ Len(Told(v)) <= Len(Told(v)')
              /\ \A i \in 1 .. Len(Told(v)) : Told(v)'[i] = Told(v)[i]
              /\ \A i \in 1 .. Len(Told(v)') :
                   \/ i \in 1 .. Len(Told(v))
                   \/ /\ i = Len(Told(v)) + 1 /\ Told(v)'[i] = ev
                      /\ v \in subscribers /\ filter[v] \in {NoModel, model[r]}
              /\ v \in subscribers \ dropped' /\ filter[v] \in {NoModel, model[r]} =>
                   /\ Len(Told(v)) + 1 \in 1 .. Len(Told(v)')
                   /\ Told(v)'[Len(Told(v)) + 1] = ev
  <2> DEFINE t == Told(v)
  <2>1. t \in Seq(Events) /\ Len(t) \in Nat
    BY ToldType DEF HubInv
  <2>2. \/ t' = t
        \/ /\ t' = Append(t, ev)
           /\ v \in subscribers /\ filter[v] \in {NoModel, model[r]}
    BY <1>8
  <2>3. v \in subscribers \ dropped' /\ filter[v] \in {NoModel, model[r]} =>
          t' = Append(t, ev)
    BY <1>8
  <2> HIDE DEF t
  <2>4. t' = Append(t, ev) =>
          /\ Len(t') = Len(t) + 1 /\ t'[Len(t) + 1] = ev
          /\ \A i \in 1 .. Len(t) : t'[i] = t[i]
    BY <1>9, <2>1, AppendProperties
  <2> QED BY <2>1, <2>2, <2>3, <2>4 DEF t
<1>11. TypeInv'
  BY <1>2, <1>8 DEF HubInv, TypeInv
<1>12. ChannelInv' /\ FreshInv'
  <2>1. ChannelInv'
    BY <1>2 DEF HubInv, ChannelInv
  <2>2. ASSUME NEW v \in Viewers, vpc[v] \in {"new", "headers"}
        PROVE  queue'[v] = <<>>
    <3>1. v \notin subscribers
      BY <2>2 DEF HubInv, ChannelInv
    <3>2. queue'[v] = queue[v]
      BY <1>4, <3>1 DEF Broadcast, Addressed, HubInv, TypeInv
    <3> QED BY <2>2, <3>2 DEF HubInv, FreshInv
  <2> QED BY <1>2, <2>1, <2>2 DEF HubInv, FreshInv
<1>13. ToldInv'
  <2> SUFFICES ASSUME NEW v \in Viewers, NEW i \in 1 .. Len(Told(v)')
               PROVE  /\ stage'[Told(v)'[i].of] \in After(Told(v)'[i].type)
                      /\ filter[v] \in {NoModel, model[Told(v)'[i].of]}
    BY <1>2 DEF ToldInv
  <2>1. CASE i \in 1 .. Len(Told(v))
    <3>1. stage'[Told(v)[i].of] \in After(Told(v)[i].type)
      BY <1>3, <1>4, <2>1, MoveKeepsTold
    <3> QED BY <1>10, <2>1, <3>1 DEF HubInv, ToldInv
  <2>2. CASE Told(v)'[i] = ev /\ filter[v] \in {NoModel, model[r]}
    BY <1>3, <1>5, <1>7, <2>2
  <2> QED BY <1>10, <2>1, <2>2
<1>14. OrderInv'
  <2> SUFFICES ASSUME NEW v \in Viewers,
                      NEW i \in 1 .. Len(Told(v)'), NEW j \in 1 .. Len(Told(v)'),
                      i < j, Told(v)'[i].of = Told(v)'[j].of
               PROVE  \/ Position(Told(v)'[i].type) < Position(Told(v)'[j].type)
                      \/ Told(v)'[i].type = "chunk" /\ Told(v)'[j].type = "chunk"
    BY DEF OrderInv
  <2>1. i \in 1 .. Len(Told(v)) /\ Told(v)'[i] = Told(v)[i]
    BY <1>10
  <2>2. CASE j \in 1 .. Len(Told(v))
    <3>1. Told(v)'[j] = Told(v)[j]
      BY <1>10, <2>2
    <3> QED BY <2>1, <2>2, <3>1 DEF HubInv, OrderInv
  <2>3. CASE Told(v)'[j] = ev
    <3>1. Told(v)[i].of = r /\ Told(v)[i].type \in Types
      BY <1>5, <2>1, <2>3, ToldType DEF HubInv
    <3>2. stage[r] \in After(Told(v)[i].type)
      BY <2>1, <3>1 DEF HubInv, ToldInv
    <3> QED BY <1>3, <1>5, <2>1, <2>3, <3>1, <3>2
  <2> QED BY <1>10, <2>2, <2>3
<1>15. DebtInv'
  <2> SUFFICES ASSUME NEW v \in subscribers \ dropped',
                      NEW i \in 1 .. Len(Told(v)'),
                      Told(v)'[i].type \in {"chunk", "response"}
               PROVE  \/ stage'[Told(v)'[i].of] \in Owing
                      \/ \E j \in 1 .. Len(Told(v)') :
                           /\ i < j
                           /\ Told(v)'[j] = Event("session_end", Told(v)'[i].of)
    BY <1>2 DEF DebtInv
  <2>1. v \in Viewers /\ v \in subscribers \ dropped
    BY <1>6, <1>8
  <2>2. CASE i \in 1 .. Len(Told(v))
    <3> DEFINE a == Told(v)[i]
    <3>1. Told(v)'[i] = a
      BY <1>10, <2>1, <2>2
    <3>2. a.of \in Requests
      BY <2>1, <2>2, ToldType DEF HubInv
    <3>3. \/ stage[a.of] \in Owing
          \/ \E j \in 1 .. Len(Told(v)) :
               i < j /\ Told(v)[j] = Event("session_end", a.of)
      BY <2>1, <2>2, <3>1 DEF HubInv, DebtInv
    <3>4. filter[v] \in {NoModel, model[a.of]}
      BY <2>1, <2>2 DEF HubInv, ToldInv
    <3> HIDE DEF a
    <3>5. CASE stage[a.of] \in Owing /\ a.of = r
      <4>1. CASE to \in Owing
        BY <1>7, <3>1, <3>5, <4>1
      <4>2. CASE type = "session_end"
        <5>1. /\ Len(Told(v)) + 1 \in 1 .. Len(Told(v)')
              /\ Told(v)'[Len(Told(v)) + 1] = ev /\ i < Len(Told(v)) + 1
          BY <1>10, <2>1, <2>2, <3>4, <3>5
        <5>2. ev = Event("session_end", a.of)
          BY <3>5, <4>2 DEF ev
        <5> QED BY <3>1, <5>1, <5>2
      <4> QED BY <1>3, <3>5, <4>1, <4>2
    <3>6. CASE stage[a.of] \in Owing /\ a.of # r
      BY <1>7, <3>1, <3>2, <3>6
    <3>7. ASSUME NEW j \in 1 .. Len(Told(v)), i < j,
                 Told(v)[j] = Event("session_end", a.of)
          PROVE  \E k \in 1 .. Len(Told(v)') :
                   i < k /\ Told(v)'[k] = Event("session_end", a.of)
      <4>1. j \in 1 .. Len(Told(v)') /\ Told(v)'[j] = Told(v)[j]
        BY <1>10, <2>1
      <4> QED BY <3>7, <4>1
    <3> QED BY <3>1, <3>3, <3>5, <3>6, <3>7
  <2>3. CASE Told(v)'[i] = ev
    BY <1>3, <1>5, <1>7, <2>3
  <2> QED BY <1>10, <2>1, <2>2, <2>3
<1> QED BY <1>11, <1>12, <1>13, <1>14, <1>15 DEF HubInv

\* What a handler does to its own variables and to the table keeps the types.
LEMMA HandlerTypes ==
  ASSUME TypeInv, NEW r \in Requests, Handler(r) \/ Packet(r) \/ StreamEnds(r)
  PROVE  TypeOK'
<1> USE DEF TypeInv, TypeOK
<1>1. /\ stage' \in [Requests -> Stages]
      /\ UNCHANGED <<model, stream, filter, vpc, seen>>
      /\ subscribers' = subscribers /\ closedCh' = closedCh
      /\ dropped' \subseteq Viewers
      /\ \A v \in Viewers : queue'[v] \in Seq(Events) /\ Len(queue'[v]) <= Capacity
  <2>1. CASE MovesOn(r)
    <3>1. PICK move \in Moves :
            /\ stage' = [stage EXCEPT ![r] = move[2]]
            /\ UNCHANGED <<model, stream, hubVars, viewerVars>>
      BY <2>1 DEF MovesOn
    <3>2. move[2] \in Stages
      BY MovesGoOn
    <3> QED BY <3>1, <3>2 DEF hubVars, viewerVars
  <2>2. CASE TellsAndMovesOn(r)
    <3>1. PICK tell \in Tells :
            /\ Broadcast(Event(tell[2], r))
            /\ stage' = [stage EXCEPT ![r] = tell[3]]
            /\ UNCHANGED <<model, stream, viewerVars>>
      BY <2>2 DEF TellsAndMovesOn
    <3> DEFINE type == tell[2]
    <3>2. type \in Types /\ tell[3] \in Stages
      BY TellsGoOn
    <3>3. UNCHANGED <<filter, vpc, seen>> /\ Broadcast(Event(type, r))
      BY <3>1 DEF viewerVars
    <3>4. closedCh' = closedCh
      BY <3>1 DEF Broadcast
    <3> HIDE DEF type
    <3>5. /\ dropped' \subseteq Viewers /\ subscribers' = subscribers
          /\ queue' \in [Viewers -> Seq(Events)]
          /\ \A v \in Viewers : Len(queue'[v]) <= Capacity
      BY <3>2, <3>3, BroadcastTells
    <3> QED BY <3>1, <3>2, <3>3, <3>4, <3>5
  <2> QED BY <2>1, <2>2, HandlerSteps
<1>2. chunks' \in [Requests -> 0 .. MaxChunks]
  <2>1. CASE Packet(r)
    BY <2>1, SessionsAssumption DEF Packet
  <2>2. CASE chunks' = chunks
    BY <2>2
  <2>3. Packet(r) \/ chunks' = chunks
    BY DEF Handler, Begin, Announce, Route, AskUpstreamStream, AskUpstream,
           TellPacket, RecordStream, SessionEnd, TellEnd, Reply, TellResponse,
           TellResponseEnd, Record, StreamEnds, AskHub, Tell, Quiet,
           recordLastReq
  <2> QED BY <2>1, <2>2, <2>3
<1>3. lastReqs' \in [Models -> Requests \cup {Nil}]
  <2>1. CASE RecordStream(r) \/ Record(r)
    BY <2>1 DEF RecordStream, Record, recordLastReq
  <2>2. CASE lastReqs' = lastReqs
    BY <2>2
  <2>3. RecordStream(r) \/ Record(r) \/ lastReqs' = lastReqs
    BY DEF Handler, Begin, Announce, Route, AskUpstreamStream, AskUpstream,
           TellPacket, SessionEnd, TellEnd, Reply, TellResponse,
           TellResponseEnd, Packet, StreamEnds, AskHub, Tell, Quiet
  <2> QED BY <2>1, <2>2, <2>3
<1> QED BY <1>1, <1>2, <1>3

\* A viewer that subscribes has been told nothing, and owes no one anything;
\* one that leaves is out of what is promised.
LEMMA ViewerKeeps ==
  ASSUME HubInv, NEW u \in Viewers,
         ViewerConnects(u) \/ Subscribe(u) \/ Watch(u) \/ Leave(u)
  PROVE  HubInv'
<1>1. /\ UNCHANGED <<model, stream, stage, chunks, lastReqs, filter, dropped>>
      /\ vpc' \in [Viewers -> {"new", "headers", "watching", "left"}]
      /\ subscribers' \subseteq Viewers /\ closedCh' \subseteq Viewers
  BY DEF HubInv, TypeInv, TypeOK, ViewerConnects, Subscribe, Watch, Leave,
         requestVars, hubVars
<1>2. /\ queue' \in [Viewers -> Seq(Events)] /\ seen' \in [Viewers -> Seq(Events)]
      /\ \A v \in Viewers : Len(queue'[v]) <= Capacity
      /\ \A v \in Viewers : Told(v)' = Told(v)
  <2>1. /\ queue \in [Viewers -> Seq(Events)] /\ seen \in [Viewers -> Seq(Events)]
        /\ \A v \in Viewers : Len(queue[v]) <= Capacity
    BY DEF HubInv, TypeInv, TypeOK
  <2>2. CASE queue' = queue /\ seen' = seen
    BY <2>1, <2>2 DEF Told
  <2>3. CASE Watch(u)
    <3> DEFINE q == queue[u]  s == seen[u]  h == Head(q)  t == Tail(q)
               a == Append(s, h)
    <3>1. /\ q # <<>> /\ seen' = [seen EXCEPT ![u] = a]
          /\ queue' = [queue EXCEPT ![u] = t]
      BY <2>3 DEF Watch
    <3>2. q \in Seq(Events) /\ s \in Seq(Events) /\ Len(q) <= Capacity
      BY <2>1
    <3> HIDE DEF q, s
    <3>3. h \in Events /\ t \in Seq(Events) /\ Len(t) = Len(q) - 1
      BY <3>1, <3>2, HeadTailProperties
    <3>4. Len(t) <= Capacity
      BY <3>2, <3>3, SessionsAssumption, LenProperties
    <3> HIDE DEF h
    <3>5. a \in Seq(Events)
      BY <3>2, <3>3, AppendProperties
    <3>6. a \o t = s \o q
      BY <3>1, <3>2, TakingKeeps DEF h
    <3> HIDE DEF a, t
    <3>7. \A v \in Viewers : /\ queue'[v] = IF v = u THEN t ELSE queue[v]
                             /\ seen'[v] = IF v = u THEN a ELSE seen[v]
      BY <2>1, <3>1
    <3>8. Told(u)' = Told(u)
      BY <3>6, <3>7 DEF Told, q, s
    <3>9. ASSUME NEW v \in Viewers, v # u PROVE Told(v)' = Told(v)
      BY <3>7, <3>9 DEF Told
    <3> QED BY <2>1, <3>1, <3>3, <3>4, <3>5, <3>7, <3>8, <3>9
  <2> QED BY <2>2, <2>3 DEF ViewerConnects, Subscribe, Leave, hubVars
<1>3. TypeInv'
  BY <1>1, <1>2 DEF HubInv, TypeInv, TypeOK
<1>4. ChannelInv'
  BY DEF HubInv, ChannelInv, ViewerConnects, Subscribe, Watch, Leave, hubVars
<1>5. ToldInv' /\ OrderInv'
  BY <1>1, <1>2 DEF HubInv, ToldInv, OrderInv
<1>6. FreshInv'
  <2>1. ASSUME NEW v \in Viewers, vpc'[v] \in {"new", "headers"}
        PROVE  /\ vpc[v] \in {"new", "headers"}
               /\ queue'[v] = queue[v] /\ seen'[v] = seen[v]
    BY <2>1 DEF HubInv, ChannelInv, TypeInv, ViewerConnects, Subscribe, Watch,
                Leave, hubVars
  <2> QED BY <2>1 DEF HubInv, FreshInv
<1>7. DebtInv'
  <2>1. ASSUME NEW v \in subscribers', v \notin subscribers
        PROVE  v \in Viewers /\ Len(Told(v)') = 0
    <3>1. v \in Viewers /\ vpc[v] \in {"new", "headers"}
      BY <1>1, <2>1 DEF HubInv, ChannelInv, ViewerConnects, Subscribe, Watch,
                        Leave, hubVars
    <3>2. seen[v] = <<>> /\ queue[v] = <<>>
      BY <3>1 DEF HubInv, FreshInv
    <3>3. Told(v) = <<>>
      BY <3>2 DEF Told
    <3> QED BY <1>2, <3>1, <3>3
  <2>2. subscribers \subseteq Viewers
    BY DEF HubInv, TypeInv, TypeOK
  <2> SUFFICES ASSUME NEW v \in subscribers' \ dropped,
                      NEW i \in 1 .. Len(Told(v)'),
                      Told(v)'[i].type \in {"chunk", "response"}
               PROVE  \/ stage[Told(v)'[i].of] \in Owing
                      \/ \E j \in 1 .. Len(Told(v)') :
                           /\ i < j
                           /\ Told(v)'[j] = Event("session_end", Told(v)'[i].of)
    BY <1>1 DEF DebtInv
  <2>3. v \in subscribers /\ Told(v)' = Told(v)
    BY <1>2, <2>1, <2>2
  <2> QED BY <2>3 DEF HubInv, DebtInv
<1> QED BY <1>3, <1>4, <1>5, <1>6, <1>7 DEF HubInv

\* Everything the hub promises its viewers, from its first state on.
THEOREM HubInvariant == Spec => []HubInv
<1>1. Init => HubInv
  <2> SUFFICES ASSUME Init PROVE HubInv
    OBVIOUS
  <2>1. \A v \in Viewers : Told(v) = <<>>
    BY DEF Init, Told
  <2>2. TypeInv
    <3>1. <<>> \in Seq(Events) /\ Len(<<>>) = 0
      BY EmptySeq
    <3> QED BY <3>1, SessionsAssumption DEF Init, TypeInv, TypeOK, Stages
  <2>3. ChannelInv /\ FreshInv
    BY DEF Init, ChannelInv, FreshInv
  <2>4. ToldInv /\ OrderInv
    BY <2>1 DEF ToldInv, OrderInv
  <2>5. DebtInv
    BY DEF Init, DebtInv
  <2> QED BY <2>2, <2>3, <2>4, <2>5 DEF HubInv
<1>2. HubInv /\ [Next]_vars => HubInv'
  <2> SUFFICES ASSUME HubInv, [Next]_vars PROVE HubInv'
    OBVIOUS
  <2>1. ASSUME NEW r \in Requests, Handler(r) \/ Packet(r) \/ StreamEnds(r)
        PROVE  HubInv'
    <3>1. TypeOK'
      BY <2>1, HandlerTypes DEF HubInv
    <3> QED BY <2>1, <3>1, HandlerSteps, MovesOnKeeps, TellsKeeps
  <2>2. ASSUME NEW u \in Viewers,
               ViewerConnects(u) \/ Subscribe(u) \/ Watch(u) \/ Leave(u)
        PROVE  HubInv'
    BY <2>2, ViewerKeeps
  <2>3. CASE Terminated \/ UNCHANGED vars
    <3>1. /\ UNCHANGED <<model, stream, stage, chunks, lastReqs, filter, vpc,
                         seen, subscribers, queue, closedCh, dropped>>
      BY <2>3 DEF Terminated, vars, requestVars, hubVars, viewerVars
    <3>2. \A v \in Viewers : Told(v)' = Told(v)
      BY <3>1 DEF Told
    <3>3. TypeInv' /\ ChannelInv' /\ FreshInv'
      BY <3>1 DEF HubInv, TypeInv, TypeOK, ChannelInv, FreshInv
    <3>4. ToldInv' /\ OrderInv'
      BY <3>1, <3>2 DEF HubInv, ToldInv, OrderInv
    <3>5. DebtInv'
      <4>1. \A v \in subscribers : Told(v)' = Told(v)
        BY <3>2 DEF HubInv, TypeInv, TypeOK
      <4> QED BY <3>1, <4>1 DEF HubInv, DebtInv
    <3> QED BY <3>3, <3>4, <3>5 DEF HubInv
  <2> QED BY <2>1, <2>2, <2>3 DEF Next
<1> QED BY <1>1, <1>2, PTL DEF Spec

\* Every variable of the hub, its viewers and the handlers keeps its type; no
\* channel ever holds more than its capacity (monitor.go:90-111).
THEOREM TypesKept == Spec => []TypeOK
<1>1. HubInv => TypeOK
  BY DEF HubInv, TypeInv
<1> QED BY <1>1, HubInvariant, PTL

\* What a viewer sees of a request is in order, whatever it misses: the
\* handlers broadcast from their own goroutine, one event at a time
\* (server.go:476-654), and a channel keeps the order (monitor.go:90-111).
THEOREM ToldInOrder == Spec => []SessionsInOrder
<1>1. HubInv => SessionsInOrder
  <2> SUFFICES ASSUME HubInv, NEW v \in Viewers,
                      NEW i \in DOMAIN Told(v), NEW j \in DOMAIN Told(v),
                      i < j, Told(v)[i].of = Told(v)[j].of
               PROVE  \/ Position(Told(v)[i].type) < Position(Told(v)[j].type)
                      \/ Told(v)[i].type = "chunk" /\ Told(v)[j].type = "chunk"
    BY DEF SessionsInOrder
  <2>1. DOMAIN Told(v) = 1 .. Len(Told(v))
    BY ToldType, LenProperties DEF HubInv
  <2> QED BY <2>1 DEF HubInv, OrderInv
<1> QED BY <1>1, HubInvariant, PTL

\* A viewer that stayed and missed nothing is told the end of every answer it
\* saw something of: the check for subscribers before the last event
\* (server.go:624-636) can miss only a viewer that came after the
\* last chunk.
THEOREM EndIsTold == Spec => []EndIsSeen
<1>1. HubInv => EndIsSeen
  <2> SUFFICES ASSUME HubInv, NEW v \in subscribers \ dropped,
                      NEW i \in DOMAIN Told(v),
                      Told(v)[i].type \in {"chunk", "response"},
                      stage[Told(v)[i].of] = "done"
               PROVE  \E j \in DOMAIN Told(v) :
                        /\ i < j
                        /\ Told(v)[j] = Event("session_end", Told(v)[i].of)
    BY DEF EndIsSeen
  <2>1. v \in Viewers
    BY DEF HubInv, TypeInv, TypeOK
  <2>2. DOMAIN Told(v) = 1 .. Len(Told(v))
    BY <2>1, ToldType, LenProperties DEF HubInv
  <2>3. stage[Told(v)[i].of] \notin Owing
    BY DEF Owing
  <2> QED BY <2>2, <2>3 DEF HubInv, DebtInv
<1> QED BY <1>1, HubInvariant, PTL

=============================================================================
