---------------------------- MODULE GatewayProofs ----------------------------
(***************************************************************************)
(* Routes, keys and lists, for every command line and whatever upstreams   *)
(* offer.                                                                  *)
(***************************************************************************)
EXTENDS Gateway, SequenceTheorems, TLAPS

\* A list has nothing but what upstreams offer.
Listed == UNION {ListedUnder(i) : i \in DOMAIN upstreams}

\* A completion came from the upstream its id is routed to, which was asked
\* for the routed model with its own key, and has the client's name for the
\* model where that is promised; what has no route is refused.
AnswerInv(a) ==
  \/ /\ a.kind = "completion"
     /\ \E route \in resolveUpstream(a.asked) : a.to = route.to /\ a.sent = route.model
     /\ a.key = upstreams[a.to].key
     /\ a.stream => a.coding = None
     /\ \A p \in DOMAIN a.names : NamePromised(a, p) => a.names[p] = a.asked
  \/ a.kind = "refusal" /\ resolveUpstream(a.asked) = {}
  \/ a.kind = "list" /\ a.ids \subseteq Listed

\* The inductive invariant.
GatewayInv ==
  /\ flags \in Flags /\ ValidFlags(flags) /\ upstreams = ParseFlags(flags)
  /\ refresh \in Accepts \cup {None}
  /\ modelsCache # None => modelsCache.ids \subseteq Listed
  /\ answers \in Seq(Answered)
  /\ \A a \in Answered : AnswerInv(a)

-----------------------------------------------------------------------------
\* A sequence one longer has one element more.
LEMMA AppendedSet ==
  ASSUME NEW s, s \in Seq(ToSet(s)), NEW a
  PROVE  /\ ToSet(Append(s, a)) = ToSet(s) \cup {a}
         /\ Append(s, a) \in Seq(ToSet(Append(s, a)))
<1> DEFINE S == ToSet(s) \cup {a}
           t == Append(s, a)
<1>1. s \in Seq(S) /\ a \in S
  BY SeqMonotonic
<1>2. Len(s) \in Nat /\ DOMAIN s = 1 .. Len(s)
  BY LenProperties
<1> HIDE DEF S
<1>3. /\ t \in Seq(S) /\ Len(t) = Len(s) + 1 /\ t[Len(s) + 1] = a
      /\ \A i \in 1 .. Len(s) : t[i] = s[i]
  BY <1>1, AppendProperties
<1>4. DOMAIN t = 1 .. Len(s) + 1
  BY <1>3, LenProperties
<1> HIDE DEF t
<1>5. \A i \in 1 .. Len(s) + 1 : i \in 1 .. Len(s) \/ i = Len(s) + 1
  BY <1>2
<1>6. Len(s) + 1 \in 1 .. Len(s) + 1 /\ 1 .. Len(s) \subseteq 1 .. Len(s) + 1
  BY <1>2
<1>7. ToSet(t) = S
  BY <1>2, <1>3, <1>4, <1>5, <1>6 DEF ToSet, S
<1> QED BY <1>3, <1>7 DEF S, t

\* The configuration is as many upstreams as the command line has, in its
\* order and under its names.
LEMMA Configured ==
  ASSUME GatewayInv
  PROVE  /\ Len(upstreams) = Len(flags.upstreams) /\ Len(upstreams) \in Nat \ {0}
         /\ DOMAIN upstreams = 1 .. Len(upstreams)
         /\ DOMAIN upstreams = DOMAIN flags.upstreams
         /\ \A i \in DOMAIN upstreams :
              /\ upstreams[i].name = flags.upstreams[i].name
              /\ upstreams[i].url = flags.upstreams[i].url
              /\ upstreams[i].url \in DOMAIN Offers
              /\ upstreams[i].key = Key(flags, i)
         /\ \A i, j \in Named(upstreams) :
              upstreams[i].name = upstreams[j].name => i = j
<1> DEFINE us == flags.upstreams
<1>1. us # <<>> /\ us \in Seq(ToSet(us))
  BY GatewayAssumption DEF GatewayInv
<1>2. /\ Len(us) \in Nat \ {0} /\ DOMAIN us = 1 .. Len(us)
  BY <1>1, LenProperties, EmptySeq
<1>3. upstreams = [i \in DOMAIN us |->
                     [name |-> us[i].name, url |-> us[i].url, key |-> Key(flags, i)]]
  BY DEF GatewayInv, ParseFlags
<1>4. /\ DOMAIN upstreams = DOMAIN us
      /\ \A i \in DOMAIN upstreams :
           /\ upstreams[i].name = us[i].name
           /\ upstreams[i].url = us[i].url
           /\ upstreams[i].key = Key(flags, i)
  BY <1>3
<1>5. Len(upstreams) = Len(us)
  <2>1. upstreams = [i \in 1 .. Len(us) |-> upstreams[i]]
    BY <1>2, <1>3
  <2> QED BY <1>2, <2>1
<1>6. \A i \in DOMAIN us : us[i].url \in DOMAIN Offers
  BY GatewayAssumption DEF GatewayInv
<1>7. Named(upstreams) = Named(us)
  BY <1>4 DEF Named
<1>8. \A i, j \in Named(us) : us[i].name = us[j].name => i = j
  BY DEF GatewayInv, ValidFlags
<1>9. \A i, j \in Named(upstreams) :
        upstreams[i].name = upstreams[j].name => i = j
  BY <1>4, <1>7, <1>8 DEF Named
<1> HIDE DEF us
<1> QED BY <1>2, <1>4, <1>5, <1>6, <1>9 DEF us

\* A route leads to an upstream there is, and an id has one at most.
LEMMA OneRoute ==
  ASSUME GatewayInv, NEW model
  PROVE  /\ \A route \in resolveUpstream(model) : route.to \in DOMAIN upstreams
         /\ \A r, s \in resolveUpstream(model) : r = s
<1>1. \A name : \A i, j \in Indices(name) :
        i = j /\ i \in DOMAIN upstreams
  BY Configured DEF Indices, Named
<1>2. Len(upstreams) = 1 => 1 \in DOMAIN upstreams
  BY Configured
<1>3. CASE Len(model) > 1
  BY <1>1, <1>3 DEF resolveUpstream, Route
<1>4. CASE ~(Len(model) > 1) /\ Len(model) = 1 /\ Len(upstreams) = 1
  BY <1>2, <1>4 DEF resolveUpstream, Route
<1>5. CASE ~(Len(model) > 1) /\ ~(Len(model) = 1 /\ Len(upstreams) = 1)
  <2> DEFINE to == IF Indices("default") # {} THEN Indices("default")
                                              ELSE Indices(model[1])
  <2>1. resolveUpstream(model) = {Route(i, model) : i \in to}
    BY <1>5 DEF resolveUpstream
  <2>2. \A i, j \in to : i = j /\ i \in DOMAIN upstreams
    BY <1>1
  <2> HIDE DEF to
  <2> QED BY <2>1, <2>2 DEF Route
<1> QED BY <1>3, <1>4, <1>5

\* A body that was offered no coding has none.
LEMMA PlainBody ==
  ASSUME NEW i, NEW accept, NEW coding \in BodyCodings(i, StreamAccept(accept))
  PROVE  coding = None
BY DEF BodyCodings, StreamAccept

\* Whatever upstreams answer, the list has what they offer.
LEMMA FetchesListed ==
  ASSUME GatewayInv, NEW accept, NEW res \in FetchResults(accept)
  PROVE  res.ids \subseteq Listed
<1>1. PICK body :
        LET readable == {i \in DOMAIN upstreams : body[i] = None}
        IN  res = CASE Passed -> [status |-> 200, coding |-> body[1],
                                  ids |-> ListedUnder(1)]
                    [] ~Passed /\ readable # {} ->
                         [status |-> 200, coding |-> None,
                          ids |-> UNION {ListedUnder(i) : i \in readable}]
                    [] OTHER -> [status |-> 502, coding |-> None, ids |-> {}]
  BY DEF FetchResults
<1> DEFINE readable == {i \in DOMAIN upstreams : body[i] = None}
<1>2. CASE Passed
  <2>1. 1 \in DOMAIN upstreams
    BY <1>2, Configured DEF Passed
  <2>2. res.ids = ListedUnder(1)
    BY <1>1, <1>2
  <2> QED BY <2>1, <2>2 DEF Listed
<1>3. CASE ~Passed /\ readable # {}
  <2>1. res.ids = UNION {ListedUnder(i) : i \in readable}
    BY <1>1, <1>3
  <2>2. readable \subseteq DOMAIN upstreams
    OBVIOUS
  <2> HIDE DEF readable
  <2> QED BY <2>1, <2>2 DEF Listed
<1>4. CASE ~Passed /\ ~(readable # {})
  <2>1. res.ids = {}
    BY <1>1, <1>4
  <2> QED BY <2>1
<1> QED BY <1>2, <1>3, <1>4

\* Nothing is configured anew: an answer that was right stays right.
LEMMA RightStays ==
  ASSUME UNCHANGED upstreams
  PROVE  Listed' = Listed /\ \A b : AnswerInv(b) => AnswerInv(b)'
<1>1. Listed' = Listed
  BY DEF Listed, ListedUnder, ListedId, Named
<1>2. ASSUME NEW name PROVE Indices(name)' = Indices(name)
  BY DEF Indices, Named
<1>3. ASSUME NEW b PROVE resolveUpstream(b.asked)' = resolveUpstream(b.asked)
  <2>1. /\ Indices(Head(b.asked))' = Indices(Head(b.asked))
        /\ Indices("default")' = Indices("default")
        /\ Indices(b.asked[1])' = Indices(b.asked[1])
    BY <1>2
  <2>2. Len(upstreams)' = Len(upstreams)
    OBVIOUS
  <2> QED BY <2>1, <2>2 DEF resolveUpstream
<1>4. ASSUME NEW b, AnswerInv(b) PROVE AnswerInv(b)'
  <2>1. resolveUpstream(b.asked)' = resolveUpstream(b.asked)
    BY <1>3
  <2> QED BY <1>1, <1>4, <2>1 DEF AnswerInv, NamePromised
<1> QED BY <1>1, <1>4

\* An answer of the right kind keeps the history right.
LEMMA AnswerKeeps ==
  ASSUME GatewayInv, NEW a, Answer(a), AnswerInv(a), UNCHANGED <<flags, upstreams>>
  PROVE  answers' \in Seq(Answered') /\ \A b \in Answered' : AnswerInv(b)'
<1>1. answers' = Append(answers, a) /\ answers \in Seq(ToSet(answers))
  BY DEF Answer, GatewayInv, Answered
<1>2. Answered' = Answered \cup {a} /\ answers' \in Seq(Answered')
  BY <1>1, AppendedSet DEF Answered
<1>3. \A b : AnswerInv(b) => AnswerInv(b)'
  BY RightStays
<1> QED BY <1>2, <1>3 DEF GatewayInv

\* What comes from the upstream of a route is right, if the client's name is
\* put back where that is promised.
LEMMA CompletionRight ==
  ASSUME NEW req, NEW route \in resolveUpstream(req.model), NEW reply, NEW restored,
         req.stream => reply.coding = None,
         req.stream /\ reply.status = 200 => "delta" \in restored \/
           "delta" \notin Places(req.api, reply.type),
         ~req.stream /\ reply.coding = None => "object" \in restored
  PROVE  AnswerInv(Completion(req, route, reply, restored))
<1> DEFINE a == Completion(req, route, reply, restored)
<1>1. /\ a.kind = "completion" /\ a.stream = req.stream /\ a.asked = req.model
      /\ a.to = route.to /\ a.sent = route.model /\ a.key = upstreams[route.to].key
      /\ a.status = reply.status /\ a.coding = reply.coding
      /\ a.names = Names(req, reply, restored)
  BY DEF Completion
<1> HIDE DEF a
<1>2. ASSUME NEW p \in DOMAIN a.names, NamePromised(a, p)
      PROVE  a.names[p] = a.asked
  <2>1. p \in Places(req.api, reply.type) /\ (p \in restored => a.names[p] = req.model)
    BY <1>1, <1>2 DEF Names
  <2>2. p \in restored
    BY <1>1, <1>2, <2>1 DEF NamePromised
  <2> QED BY <1>1, <2>1, <2>2
<1> QED BY <1>1, <1>2 DEF AnswerInv, a

\* Nobody is sent to the wrong upstream, or answered under a wrong name where
\* the right one is promised.
LEMMA CompleteKeeps ==
  ASSUME GatewayInv, NEW req, NEW accept,
         UNCHANGED <<flags, upstreams>>,
         CompleteAtOnce(req, accept) \/ CompleteStream(req, accept) \/ Refuse(req)
  PROVE  answers' \in Seq(Answered') /\ \A b \in Answered' : AnswerInv(b)'
<1>1. CASE CompleteAtOnce(req, accept)
  <2>1. PICK route \in resolveUpstream(req.model) : \E reply \in Replies(route, accept) :
          Answer(Completion(req, route, reply, RestoredAtOnce(reply)))
    BY <1>1 DEF CompleteAtOnce
  <2>2. PICK reply \in Replies(route, accept) :
          Answer(Completion(req, route, reply, RestoredAtOnce(reply)))
    BY <2>1
  <2>3. ~req.stream
    BY <1>1 DEF CompleteAtOnce
  <2>4. reply.coding = None => "object" \in RestoredAtOnce(reply)
    BY DEF RestoredAtOnce
  <2>5. AnswerInv(Completion(req, route, reply, RestoredAtOnce(reply)))
    BY <2>3, <2>4, CompletionRight
  <2> QED BY <2>2, <2>5, AnswerKeeps
<1>2. CASE CompleteStream(req, accept)
  <2>1. PICK route \in resolveUpstream(req.model) :
          \E reply \in Replies(route, StreamAccept(accept)) :
            Answer(Completion(req, route, reply, RestoredInStream(reply)))
    BY <1>2 DEF CompleteStream
  <2>2. PICK reply \in Replies(route, StreamAccept(accept)) :
          Answer(Completion(req, route, reply, RestoredInStream(reply)))
    BY <2>1
  <2>3. req.stream
    BY <1>2 DEF CompleteStream
  <2>4. /\ reply.coding \in BodyCodings(route.to, StreamAccept(accept))
        /\ reply.type \in {"object", "events"}
    BY DEF Replies
  <2>5. reply.coding = None
    BY <2>4, PlainBody
  <2>6. reply.status = 200 => "delta" \in RestoredInStream(reply) \/
                              "delta" \notin Places(req.api, reply.type)
    BY <2>4 DEF RestoredInStream, Places
  <2>7. AnswerInv(Completion(req, route, reply, RestoredInStream(reply)))
    BY <2>3, <2>5, <2>6, CompletionRight
  <2> QED BY <2>2, <2>7, AnswerKeeps
<1>3. CASE Refuse(req)
  <2> DEFINE a == [kind |-> "refusal", status |-> 400, asked |-> req.model]
  <2>1. a.kind = "refusal" /\ a.asked = req.model
    OBVIOUS
  <2>2. Answer(a) /\ resolveUpstream(req.model) = {}
    BY <1>3 DEF Refuse
  <2> HIDE DEF a
  <2>3. AnswerInv(a)
    BY <2>1, <2>2 DEF AnswerInv
  <2> QED BY <2>2, <2>3, AnswerKeeps
<1> QED BY <1>1, <1>2, <1>3

\* The cache has what a fetch found, and a list says what one found.
LEMMA ListKeeps ==
  ASSUME GatewayInv, NEW res, res.ids \subseteq Listed,
         Answer(List(res)), UNCHANGED <<flags, upstreams>>
  PROVE  answers' \in Seq(Answered') /\ \A b \in Answered' : AnswerInv(b)'
<1>1. AnswerInv(List(res))
  BY DEF AnswerInv, List
<1> QED BY <1>1, AnswerKeeps

\* The invariant of the lists and of the routes, in every behaviour.
THEOREM GatewayInvariant == Spec => []GatewayInv
<1>1. Init => GatewayInv
  <2> SUFFICES ASSUME Init PROVE GatewayInv
    OBVIOUS
  <2>1. answers \in Seq(Answered) /\ Answered = {}
    <3>1. <<>> \in Seq({}) /\ ToSet(<<>>) = {}
      BY EmptySeq DEF ToSet
    <3> QED BY <3>1 DEF Init, Answered
  <2> QED BY <2>1 DEF Init, GatewayInv
<1>2. GatewayInv /\ [Next]_vars => GatewayInv'
  <2> SUFFICES ASSUME GatewayInv, [Next]_vars PROVE GatewayInv'
    OBVIOUS
  <2>1. UNCHANGED <<flags, upstreams>>
    BY DEF Next, vars, Complete, FirstList, CachedList, Refreshed, Terminated
  <2>2. Listed' = Listed
    BY <2>1, RightStays
  <2>3. /\ flags' \in Flags /\ ValidFlags(flags') /\ upstreams' = ParseFlags(flags')
    BY <2>1 DEF GatewayInv
  <2>4. refresh' \in Accepts \cup {None}
    BY DEF GatewayInv, Next, vars, Complete, FirstList, CachedList, Refreshed,
           Terminated
  <2>5. modelsCache' # None => modelsCache'.ids \subseteq Listed
    <3>1. CASE modelsCache' = modelsCache
      BY <3>1 DEF GatewayInv
    <3>2. CASE FirstList
      BY <3>2, FetchesListed DEF FirstList
    <3>3. CASE Refreshed
      BY <3>3, FetchesListed DEF Refreshed, GatewayInv
    <3> QED BY <3>1, <3>2, <3>3 DEF Next, vars, Complete, CachedList, Terminated
  <2>6. answers' \in Seq(Answered') /\ \A b \in Answered' : AnswerInv(b)'
    <3>1. CASE Complete
      BY <2>1, <3>1, CompleteKeeps DEF Complete
    <3>2. CASE FirstList
      BY <2>1, <3>2, FetchesListed, ListKeeps DEF FirstList
    <3>3. CASE CachedList
      BY <2>1, <3>3, ListKeeps DEF CachedList, GatewayInv
    <3>4. CASE answers' = answers
      <4>1. \A b : AnswerInv(b) => AnswerInv(b)'
        BY <2>1, RightStays
      <4> QED BY <3>4, <4>1 DEF GatewayInv, Answered
    <3> QED BY <3>1, <3>2, <3>3, <3>4 DEF Next, vars, Refreshed, Terminated
  <2> QED BY <2>2, <2>3, <2>4, <2>5, <2>6 DEF GatewayInv
<1> QED BY <1>1, <1>2, PTL DEF Spec

\* An id has one route at most, to an upstream there is, and no stream reaches
\* the pipeline encoded (server.go:207-230 and 551).
THEOREM TypesKept == Spec => []TypeOK
<1>1. GatewayInv => TypeOK
  <2> SUFFICES ASSUME GatewayInv PROVE TypeOK
    OBVIOUS
  <2>1. \A id \in Ids : \A r, s \in resolveUpstream(id) : r = s
    BY OneRoute
  <2>2. ASSUME NEW a \in Completions
        PROVE  a.to \in DOMAIN upstreams /\ (a.stream => a.coding = None)
    <3>1. AnswerInv(a) /\ a.kind = "completion"
      BY <2>2 DEF Completions, GatewayInv
    <3> QED BY <3>1, OneRoute DEF AnswerInv
  <2>3. DOMAIN upstreams = DOMAIN flags.upstreams
    BY Configured
  <2> QED BY <2>1, <2>2, <2>3 DEF TypeOK, GatewayInv
<1> QED BY <1>1, GatewayInvariant, PTL

\* A key goes to the upstream it was given for and to no other one
\* (config.go:79-96 and 159-174, server.go:231-239).
THEOREM KeysNotShared == Spec => []KeysStayApart
<1>1. GatewayInv => KeysStayApart
  <2> SUFFICES ASSUME GatewayInv, NEW a \in Completions
               PROVE  LET u == flags.upstreams[a.to]
                          own == (IF u.name \in DOMAIN flags.keys
                                    THEN {flags.keys[u.name]} ELSE {})
                                   \cup ({u.key} \ {None})
                          only == IF Len(upstreams) = 1 /\ None \in DOMAIN flags.keys
                                    THEN {flags.keys[None]} ELSE {}
                      IN  /\ a.key \in own \cup only \cup {None}
                          /\ own # {} => a.key \in own
    BY DEF KeysStayApart
  <2>1. AnswerInv(a) /\ a.kind = "completion"
    BY DEF Completions, GatewayInv
  <2>2. a.to \in DOMAIN upstreams /\ a.key = upstreams[a.to].key
    BY <2>1, OneRoute DEF AnswerInv
  <2>3. a.key = Key(flags, a.to) /\ Len(upstreams) = Len(flags.upstreams)
    BY <2>2, Configured
  <2> QED BY <2>3 DEF Key
<1> QED BY <1>1, GatewayInvariant, PTL

-----------------------------------------------------------------------------
\* What routing and the catalogue agree on.

\* A name put before an id can be cut off again.
LEMMA PrefixCut ==
  ASSUME NEW name, NEW m, m # <<>>, m \in Seq(ToSet(m))
  PROVE  /\ Len(<<name>> \o m) \in Nat /\ Len(<<name>> \o m) > 1
         /\ Head(<<name>> \o m) = name
         /\ Tail(<<name>> \o m) = m
<1> DEFINE S == ToSet(m) \cup {name}
           p == <<name>>
           id == p \o m
<1>1. m \in Seq(S) /\ Len(m) \in Nat \ {0}
  BY SeqMonotonic, LenProperties, EmptySeq
<1>2. p \in Seq(S) /\ Len(p) = 1 /\ p[1] = name
  <2>1. name \in S
    OBVIOUS
  <2> HIDE DEF S
  <2> QED BY <2>1
<1> HIDE DEF S, p
<1>3. /\ id \in Seq(S) /\ Len(id) = 1 + Len(m)
      /\ \A i \in 1 .. 1 + Len(m) :
           id[i] = IF i <= 1 THEN p[i] ELSE m[i - 1]
  BY <1>1, <1>2, ConcatProperties
<1> HIDE DEF id
<1>4. Len(id) \in Nat /\ Len(id) > 1 /\ id[1] = name
  BY <1>1, <1>2, <1>3
<1>5. id # <<>>
  BY <1>1, <1>3, EmptySeq
<1>6. /\ Head(id) = id[1] /\ Tail(id) \in Seq(S) /\ Len(Tail(id)) = Len(id) - 1
      /\ \A i \in 1 .. Len(Tail(id)) : Tail(id)[i] = id[i + 1]
  BY <1>3, <1>5, HeadTailProperties
<1> DEFINE t == Tail(id)
<1>7. /\ t \in Seq(S) /\ Len(t) = Len(id) - 1
      /\ \A i \in 1 .. Len(t) : t[i] = id[i + 1]
  BY <1>6
<1> HIDE DEF t
<1>8. Len(t) = Len(m)
  BY <1>1, <1>3, <1>7
<1>9. ASSUME NEW i \in 1 .. Len(t) PROVE t[i] = m[i]
  <2>1. i + 1 \in 1 .. 1 + Len(m) /\ ~(i + 1 <= 1) /\ (i + 1) - 1 = i
    BY <1>1, <1>8
  <2> QED BY <1>3, <1>7, <2>1
<1>10. t = m
  BY <1>1, <1>7, <1>8, <1>9, SeqEqual
<1> QED BY <1>4, <1>6, <1>10 DEF id, p, t

\* The route of an id with a prefix goes by the prefix.
LEMMA PrefixedRoute ==
  ASSUME NEW id, Len(id) \in Nat, Len(id) > 1
  PROVE  \A route : route \in resolveUpstream(id) <=>
                      \E j \in Indices(Head(id)) : route = Route(j, Tail(id))
<1>1. Len(id) # 1
  <2> DEFINE n == Len(id)
  <2>1. n \in Nat /\ n > 1
    OBVIOUS
  <2> HIDE DEF n
  <2>2. n # 1
    BY <2>1
  <2> QED BY <2>2 DEF n
<1>2. resolveUpstream(id) = {Route(j, Tail(id)) : j \in Indices(Head(id))}
  BY <1>1 DEF resolveUpstream
<1> QED BY <1>2

\* The id of a named upstream leads back to it.
LEMMA NamedRoute ==
  ASSUME GatewayInv, NEW i \in Named(upstreams),
         NEW m \in Offers[upstreams[i].url].models
  PROVE  resolveUpstream(<<upstreams[i].name>> \o m) = {Route(i, m)}
<1> DEFINE id == <<upstreams[i].name>> \o m
<1>1. i \in DOMAIN upstreams /\ upstreams[i].url \in DOMAIN Offers
  BY Configured DEF Named
<1>2. m # <<>> /\ m \in Seq(ToSet(m))
  BY <1>1, GatewayAssumption
<1>3. Len(id) \in Nat /\ Len(id) > 1 /\ Head(id) = upstreams[i].name /\ Tail(id) = m
  BY <1>2, PrefixCut
<1>4. Indices(upstreams[i].name) = {i}
  BY Configured DEF Indices
<1> HIDE DEF id
<1>5. \A route : route \in resolveUpstream(id) <=> route = Route(i, m)
  BY <1>3, <1>4, PrefixedRoute
<1>6. resolveUpstream(id) = {Route(i, m)}
  BY <1>5
<1> QED BY <1>6 DEF id

\* The id of an only upstream that has no name leads to it, if there is
\* nothing to cut off.
LEMMA UnnamedRoute ==
  ASSUME GatewayInv, NEW i \in DOMAIN upstreams, Len(upstreams) = 1,
         NEW m, Len(m) = 1
  PROVE  resolveUpstream(m) = {Route(i, m)}
<1>1. i = 1
  BY Configured
<1> QED BY <1>1 DEF resolveUpstream

\* A model that can be asked for by its listed id is found by it.
LEMMA ReachableRoute ==
  ASSUME GatewayInv, NEW r \in Offered, Reachable(r)
  PROVE  resolveUpstream(ListedId(r.to, r.model)) = {r}
<1>1. PICK i \in DOMAIN upstreams : \E m \in Offers[upstreams[i].url].models : r = Route(i, m)
  BY DEF Offered
<1>2. PICK m \in Offers[upstreams[i].url].models : r = Route(i, m)
  BY <1>1
<1>3. r.to = i /\ r.model = m
  BY <1>2 DEF Route
<1>4. CASE i \in Named(upstreams)
  <2>1. resolveUpstream(<<upstreams[i].name>> \o m) = {Route(i, m)}
    BY <1>4, NamedRoute
  <2> QED BY <1>2, <1>3, <1>4, <2>1 DEF ListedId
<1>5. CASE i \notin Named(upstreams)
  <2>1. Len(upstreams) = 1 /\ Len(m) = 1
    BY <1>3, <1>5 DEF Reachable
  <2>2. resolveUpstream(m) = {Route(i, m)}
    BY <2>1, UnnamedRoute
  <2> QED BY <1>2, <1>3, <1>5, <2>2 DEF ListedId
<1> QED BY <1>4, <1>5

\* For every command line and whatever upstreams offer and answer, a model
\* that can be asked for by its listed id is served by the upstream that has it
\* and under that id: the prefixes of fetchUpstreamModels (server.go:864-889)
\* are those resolveUpstream cuts off (server.go:207-230), and the client's
\* name is put back where that is promised (server.go:973, serializer.go:66).
THEOREM ListedIsServed == Spec => []ListedIsRouted
<1>1. GatewayInv => ListedIsRouted
  <2> SUFFICES ASSUME GatewayInv, NEW list \in Lists
               PROVE  /\ list.ids \subseteq {ListedId(r.to, r.model) : r \in Offered}
                      /\ \A r \in Offered :
                           LET id == ListedId(r.to, r.model)
                           IN  Reachable(r) /\ id \in list.ids =>
                                 /\ resolveUpstream(id) = {r}
                                 /\ \A a \in Answered : a.kind # "list" /\ a.asked = id =>
                                      /\ a.kind = "completion" /\ a.to = r.to
                                      /\ a.sent = r.model
                                      /\ \A p \in DOMAIN a.names :
                                           NamePromised(a, p) => a.names[p] = id
    BY DEF ListedIsRouted
  <2>1. ASSUME NEW id \in list.ids
        PROVE  \E r \in Offered : id = ListedId(r.to, r.model)
    <3>1. id \in Listed
      BY <2>1 DEF Lists, GatewayInv, AnswerInv
    <3>2. PICK i \in DOMAIN upstreams : id \in ListedUnder(i)
      BY <3>1 DEF Listed
    <3>3. PICK m \in Offers[upstreams[i].url].models : id = ListedId(i, m)
      BY <3>2 DEF ListedUnder
    <3>4. Route(i, m) \in Offered
      BY DEF Offered
    <3> QED BY <3>3, <3>4 DEF Route
  <2>2. ASSUME NEW r \in Offered, Reachable(r),
               NEW a \in Answered, a.kind # "list", a.asked = ListedId(r.to, r.model)
        PROVE  /\ a.kind = "completion" /\ a.to = r.to /\ a.sent = r.model
               /\ \A p \in DOMAIN a.names :
                    NamePromised(a, p) => a.names[p] = ListedId(r.to, r.model)
    <3>1. resolveUpstream(a.asked) = {r}
      BY <2>2, ReachableRoute
    <3>2. AnswerInv(a)
      BY DEF GatewayInv
    <3> QED BY <2>2, <3>1, <3>2 DEF AnswerInv
  <2> QED BY <2>1, <2>2, ReachableRoute
<1> QED BY <1>1, GatewayInvariant, PTL

=============================================================================
