------------------------------- MODULE Gateway -------------------------------
(***************************************************************************)
(* What the proxy does to a request on its way to an upstream and to the   *)
(* answer on its way back, beside streaming: the flags that name upstreams *)
(* and their keys (config.go:44-190), the upstream a model is routed to    *)
(* and the name it has there (server.go:207-256), the name put back into   *)
(* some answers and parts of answers and not into others (server.go:973,   *)
(* serializer.go:66), the prefixes of a merged catalogue                   *)
(* (server.go:864-889), and the coding of a body, which upstream chooses   *)
(* from the Accept-Encoding header the proxy passes on.                    *)
(*                                                                         *)
(* A model id is the sequence of its parts between slashes.  Requests are  *)
(* served one after the other; how they overlap in the cache of catalogues *)
(* is the subject of ModelsCache.  All upstreams answer, and give their    *)
(* lists.                                                                  *)
(***************************************************************************)
EXTENDS Naturals, Sequences, FiniteSets, SequencesExt

CONSTANTS
  Flags,       \* command lines
  Offers,      \* external: by URL, the models and codings of an upstream
  Snapshot,    \* external: the name upstream may give a model in an answer,
               \* by the last part of its id
  Accepts,     \* Accept-Encoding headers: sets of codings
  Ids,         \* model ids clients ask for
  MaxRequests, \* bound: requests of a behaviour
  MaxCompletions, \* bound: how many of them ask for a model
  None         \* no name, no key, no coding, no cache

\* An upstream flag has a name, a URL and a key of its own; key flags give
\* keys by name, and one to None.  The ids of models are sequences of parts.
ASSUME GatewayAssumption ==
  /\ \A f \in Flags :
       /\ f.upstreams # <<>> /\ f.upstreams \in Seq(ToSet(f.upstreams))
       /\ \A i \in DOMAIN f.upstreams : f.upstreams[i].url \in DOMAIN Offers
  /\ \A u \in DOMAIN Offers : \A id \in Offers[u].models :
       id # <<>> /\ id \in Seq(ToSet(id))
  /\ MaxRequests \in Nat /\ MaxCompletions \in Nat

VARIABLES
  flags,       \* the command line
  upstreams,   \* [name, url, key] of each upstream
  modelsCache, \* the cached catalogue, with its coding
  refresh,     \* the header a background refresh is running with
  answers      \* history: the answers clients got

vars == <<flags, upstreams, modelsCache, refresh, answers>>

-----------------------------------------------------------------------------
\* Configuration.

Named(us) == {i \in DOMAIN us : us[i].name # None}

\* Mutant: a key without a name is everybody's.
KeyShared(f, i) ==
  LET u == f.upstreams[i]
  IN  CASE u.name \in DOMAIN f.keys -> f.keys[u.name]
        [] u.name \notin DOMAIN f.keys /\ u.key = None
             /\ None \in DOMAIN f.keys -> f.keys[None]
        [] OTHER -> u.key

\* A key flag of that name, else the upstream's own; the key without a name
\* is that of unnamed upstreams, and of an only one that has none.
Key(f, i) ==
  LET u == f.upstreams[i]
  IN  CASE u.name \in DOMAIN f.keys -> f.keys[u.name]
        [] u.name \notin DOMAIN f.keys /\ u.key = None
             /\ Len(f.upstreams) = 1 /\ None \in DOMAIN f.keys -> f.keys[None]
        [] OTHER -> u.key

\* A name that comes twice ends the program.
ValidFlags(f) ==
  \A i, j \in Named(f.upstreams) :
    f.upstreams[i].name = f.upstreams[j].name => i = j

ParseFlags(f) ==
  [i \in DOMAIN f.upstreams |->
     [name |-> f.upstreams[i].name, url |-> f.upstreams[i].url, key |-> Key(f, i)]]

Init ==
  /\ flags \in {f \in Flags : ValidFlags(f)}
  /\ upstreams = ParseFlags(flags)
  /\ modelsCache = None /\ refresh = None /\ answers = <<>>

-----------------------------------------------------------------------------
\* Routing.

\* The upstream of a name; a named upstream is never None.
Indices(name) == {i \in Named(upstreams) : upstreams[i].name = name}

Route(i, model) == [to |-> i, model |-> model]

\* Mutant: an id is cut at its last slash.
RoutesCutLast(model) ==
  LET prefix == Front(model)  rest == <<Last(model)>>
  IN  CASE Len(model) > 1 -> {Route(i, rest) : i \in Indices(prefix[Len(prefix)])}
        [] Len(model) = 1 /\ Len(upstreams) = 1 -> {Route(1, model)}
        [] OTHER -> {Route(i, model) :
             i \in IF Indices("default") # {} THEN Indices("default")
                                              ELSE Indices(model[1])}

\* One route or none, which is a 400.  A prefix must name an upstream; an id
\* without one goes to the only upstream, the default, or its namesake.
resolveUpstream(model) ==
  CASE Len(model) > 1 -> {Route(i, Tail(model)) : i \in Indices(Head(model))}
    [] Len(model) = 1 /\ Len(upstreams) = 1 -> {Route(1, model)}
    [] OTHER -> {Route(i, model) :
         i \in IF Indices("default") # {} THEN Indices("default")
                                          ELSE Indices(model[1])}

\* External: upstream encodes the body in a coding it was offered, or not.
\* Without Accept-Encoding in the request, net/http offers gzip of its own
\* and decodes the answer itself.
BodyCodings(i, accept) == (Offers[upstreams[i].url].codings \cap accept) \cup {None}

Answered == ToSet(answers)

Answer(a) ==
  /\ Len(answers) < MaxRequests
  /\ answers' = Append(answers, a)

-----------------------------------------------------------------------------
\* Completions.

\* External: what upstream answers to a request, whatever was asked for: a
\* JSON object or events, a success or an error, in which it calls the model
\* as it was asked for it or by the name of a snapshot.
Replies(route, accept) ==
  [status : {200, 429}, type : {"object", "events"},
   coding : BodyCodings(route.to, accept),
   said   : {route.model, Snapshot[Last(route.model)]}]

\* External: where a model is named in an answer.  A chunk of a chat stream
\* is one the parser has segments for ("delta") or another ("other": an
\* error, a chunk without choices, a role that comes again).  The events of
\* the Responses API name it where they describe the whole response
\* ("other"), not in their deltas.
Places(api, type) ==
  CASE type = "object" -> {"object"}
    [] type = "events" /\ api = "chat" -> {"delta", "other"}
    [] OTHER -> {"other"}

\* Upstream's names, but for the places where the client's are put back.
Names(req, reply, restored) ==
  [p \in Places(req.api, reply.type) |->
     IF p \in restored THEN req.model ELSE reply.said]

\* An object is renamed, if it can be read.
RestoredAtOnce(reply) == IF reply.coding = None THEN {"object"} ELSE {}

\* Only what the pipeline takes apart gets the client's name: baseMap writes
\* it, and raw segments and control events go out as they came.  An error,
\* or an answer that is no event stream, is copied.
RestoredInStream(reply) ==
  IF reply.status = 200 /\ reply.type = "events" THEN {"delta"} ELSE {}

Completion(req, route, reply, restored) ==
  [kind |-> "completion", stream |-> req.stream, asked |-> req.model,
   to |-> route.to, sent |-> route.model, key |-> upstreams[route.to].key,
   status |-> reply.status, coding |-> reply.coding,
   names |-> Names(req, reply, restored)]

\* transparentProxy, with the client's headers.
CompleteAtOnce(req, accept) ==
  /\ ~req.stream
  /\ \E route \in resolveUpstream(req.model) : \E reply \in Replies(route, accept) :
       Answer(Completion(req, route, reply, RestoredAtOnce(reply)))

\* The pipeline has to read the events: Accept-Encoding is deleted.
StreamAccept(accept) == {}

CompleteStream(req, accept) ==
  /\ req.stream
  /\ \E route \in resolveUpstream(req.model) :
       \E reply \in Replies(route, StreamAccept(accept)) :
         Answer(Completion(req, route, reply, RestoredInStream(reply)))

\* No route: nobody is asked.
Refuse(req) ==
  /\ resolveUpstream(req.model) = {}
  /\ Answer([kind |-> "refusal", status |-> 400, asked |-> req.model])

Requests == [api : {"chat", "responses"}, stream : BOOLEAN, model : Ids]

Complete ==
  \E req \in Requests, accept \in Accepts :
    /\ Cardinality({a \in Answered : a.kind # "list"}) < MaxCompletions
    /\ CompleteAtOnce(req, accept) \/ CompleteStream(req, accept) \/ Refuse(req)
    /\ UNCHANGED <<flags, upstreams, modelsCache, refresh>>

-----------------------------------------------------------------------------
\* The catalogue.

\* The id a model of an upstream is listed under.
ListedId(i, m) == IF i \in Named(upstreams) THEN <<upstreams[i].name>> \o m ELSE m

ListedUnder(i) == {ListedId(i, m) : m \in Offers[upstreams[i].url].models}

Passed == Len(upstreams) = 1 /\ Named(upstreams) = {}

\* The list of an only, unnamed upstream is passed on as it is; other lists
\* are merged if they can be read.
FetchResults(accept) ==
  {LET readable == {i \in DOMAIN upstreams : body[i] = None}
   IN  CASE Passed -> [status |-> 200, coding |-> body[1], ids |-> ListedUnder(1)]
         [] ~Passed /\ readable # {} ->
              [status |-> 200, coding |-> None,
               ids |-> UNION {ListedUnder(i) : i \in readable}]
         [] OTHER -> [status |-> 502, coding |-> None, ids |-> {}]
   : body \in {b \in [DOMAIN upstreams -> UNION {BodyCodings(i, accept) :
                                                   i \in DOMAIN upstreams}] :
                 \A i \in DOMAIN upstreams : b[i] \in BodyCodings(i, accept)}}

List(res) ==
  [kind |-> "list", status |-> res.status, coding |-> res.coding, ids |-> res.ids]

\* fetchModelsData, for a request that finds no cached list.
FirstList ==
  \E accept \in Accepts : \E res \in FetchResults(accept) :
    /\ modelsCache = None
    /\ Answer(List(res))
    /\ modelsCache' = IF res.status = 200 THEN res ELSE None
    /\ UNCHANGED <<flags, upstreams, refresh>>

\* Later requests are answered from the cache, whatever their headers are,
\* and start a refresh with them.
CachedList ==
  \E accept \in Accepts :
    /\ modelsCache # None
    /\ Answer(List(modelsCache))
    /\ refresh' = IF refresh = None THEN accept ELSE refresh
    /\ UNCHANGED <<flags, upstreams, modelsCache>>

Refreshed ==
  /\ refresh # None
  /\ \E res \in FetchResults(refresh) :
       modelsCache' = IF res.status = 200 THEN res ELSE modelsCache
  /\ refresh' = None
  /\ UNCHANGED <<flags, upstreams, answers>>

\* The behaviour is over.
Terminated == Len(answers) = MaxRequests /\ refresh = None /\ UNCHANGED vars

Next == Complete \/ FirstList \/ CachedList \/ Refreshed \/ Terminated

Spec == Init /\ [][Next]_vars

-----------------------------------------------------------------------------
Completions == {a \in Answered : a.kind = "completion"}
Lists == {a \in Answered : a.kind = "list" /\ a.status = 200}

\* An id has one route at most, answers come from upstreams there are, and a
\* stream reaches the pipeline decoded.
TypeOK ==
  /\ flags \in Flags /\ DOMAIN upstreams = DOMAIN flags.upstreams
  /\ refresh \in Accepts \cup {None}
  /\ \A id \in Ids : \A r, s \in resolveUpstream(id) : r = s
  /\ \A a \in Completions : a.to \in DOMAIN upstreams /\ (a.stream => a.coding = None)

\* The models upstreams have, each with its upstream.
Offered ==
  UNION {{Route(i, m) : m \in Offers[upstreams[i].url].models} : i \in DOMAIN upstreams}

\* A model can be asked for by its listed id if its upstream has a name, or if
\* there is only one upstream and the id has no slash.  The other models of
\* upstreams without names are listed too (server.go:704 and 864-885), but
\* resolveUpstream takes what is before the first slash for a name, and among
\* several upstreams looks for the default or a namesake of an id without one
\* (server.go:208-226).
Reachable(route) ==
  \/ route.to \in Named(upstreams)
  \/ Len(upstreams) = 1 /\ Len(route.model) = 1

\* Where the client is promised the name it asked for: in an object it asked
\* for that the proxy can read, and in the deltas of a chat stream
\* (server_test.go:1254, e2e_test.go:545).
NamePromised(a, p) ==
  \/ p = "object" /\ ~a.stream /\ a.coding = None
  \/ p = "delta" /\ a.stream /\ a.status = 200

\* The catalogue and the routing agree: a list has nothing but what upstreams
\* offer, and a model with a listed id, slashes in it or not, that can be
\* asked for by it leads back to its upstream and to no other.  A client that
\* asks for it is answered by that upstream, which is asked for the model by
\* its own id, and not refused; and the answer calls it by the listed id where
\* that is promised.
ListedIsRouted ==
  \A list \in Lists :
    /\ list.ids \subseteq {ListedId(r.to, r.model) : r \in Offered}
    /\ \A r \in Offered :
         LET id == ListedId(r.to, r.model)
         IN  Reachable(r) /\ id \in list.ids =>
               /\ resolveUpstream(id) = {r}
               /\ \A a \in Answered : a.kind # "list" /\ a.asked = id =>
                    /\ a.kind = "completion" /\ a.to = r.to /\ a.sent = r.model
                    /\ \A p \in DOMAIN a.names : NamePromised(a, p) => a.names[p] = id

\* A key that was given for one upstream is sent to no other one, and an
\* upstream a key was given for is sent one.
KeysStayApart ==
  \A a \in Completions :
    LET u == flags.upstreams[a.to]
        own == (IF u.name \in DOMAIN flags.keys THEN {flags.keys[u.name]} ELSE {})
                 \cup ({u.key} \ {None})
        only == IF Len(upstreams) = 1 /\ None \in DOMAIN flags.keys
                  THEN {flags.keys[None]} ELSE {}
    IN  /\ a.key \in own \cup only \cup {None}
        /\ own # {} => a.key \in own

=============================================================================
