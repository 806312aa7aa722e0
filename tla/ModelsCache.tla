---------------------------- MODULE ModelsCache ----------------------------
(***************************************************************************)
(* GET /v1/models (pkg/proxy/server.go:656-825): the catalogue is fetched  *)
(* by the first request, under modelsInitMu; every later request is        *)
(* answered from modelsCache and starts a refresh in the background, one   *)
(* at a time (the compare-and-swap of modelsUpdating).                     *)
(*                                                                         *)
(* A catalogue is the version each upstream answered with.  With one       *)
(* unnamed upstream its response is kept whole and any status is passed    *)
(* on; with named upstreams the lists are merged and a failing upstream is *)
(* left out, unless all fail.                                              *)
(***************************************************************************)
EXTENDS Naturals, FiniteSets

CONSTANTS
  Requests,     \* the requests of a behaviour: each is made once
  Upstreams,    \* the configured upstreams
  MaxVersion,   \* bound: how often an upstream changes its catalogue
  Refused,      \* the answer of an upstream with another status than 200
  Failed,       \* a fetch that ended with an error
  Nil           \* no cached response, no lock holder, no answer yet

ASSUME ModelsAssumption ==
  /\ Upstreams # {} /\ IsFiniteSet(Upstreams)
  /\ MaxVersion \in Nat \ {0}
  /\ Nil \notin Requests

Versions == 1 .. MaxVersion

\* What a fetch of one upstream ends with.
Answers == Versions \cup {Refused, Failed}

VARIABLES
  single,         \* one upstream without a name
  configured,     \* the upstreams of this proxy
  version,        \* external: the catalogue each upstream has now
  modelsCache,    \* the cached catalogue: a partial function of upstreams
  modelsInitMu,   \* the request holding the lock
  modelsUpdating, \* a refresh is running
  pc,             \* each request's handler
  refresher,      \* the background goroutine a request started
  answers,        \* what its fetch got so far
  response        \* what the client was sent

vars == <<single, configured, version, modelsCache, modelsInitMu,
          modelsUpdating, pc, refresher, answers, response>>

\* The catalogues a fetch that succeeded for some upstream can give.
Catalogues == UNION {[us -> Versions] : us \in (SUBSET Upstreams) \ {{}}}

ASSUME AnswersAssumption ==
  /\ Nil \notin Catalogues \cup {Refused, Failed}
  /\ {Nil, Refused, Failed} \cap Versions = {}

NoAnswers == [u \in configured |-> Nil]

Init ==
  /\ \/ single = TRUE /\ \E u \in Upstreams : configured = {u}
     \/ single = FALSE /\ configured = Upstreams
  /\ version = [u \in Upstreams |-> 1]
  /\ modelsCache = Nil
  /\ modelsInitMu = Nil
  /\ modelsUpdating = FALSE
  /\ pc = [r \in Requests |-> "new"]
  /\ refresher = [r \in Requests |-> "none"]
  /\ answers = [r \in Requests |-> NoAnswers]
  /\ response = [r \in Requests |-> Nil]

-----------------------------------------------------------------------------
\* What fetchModelsData makes of the upstreams' answers: an error, a status
\* other than 200, or a catalogue.
Combined(ans) ==
  LET good == {u \in configured : ans[u] \in Versions}
  IN  IF good # {} THEN [u \in good |-> ans[u]]
        ELSE IF single /\ \E u \in configured : ans[u] = Refused
               THEN Refused
               ELSE Failed

Answered(r) == \A u \in configured : answers[r][u] # Nil

IsCatalogue(res) == res \notin {Refused, Failed}

\* The first Load of the cache, without the lock.
LoadCache(r) ==
  /\ pc[r] = "new"
  /\ IF modelsCache = Nil
       THEN pc' = [pc EXCEPT ![r] = "lock"] /\ UNCHANGED response
       ELSE /\ pc' = [pc EXCEPT ![r] = "served"]
            /\ response' = [response EXCEPT ![r] = modelsCache]
  /\ UNCHANGED <<single, configured, version, modelsCache, modelsInitMu,
                 modelsUpdating, refresher, answers>>

\* Mutant: no second Load; whoever gets the lock fetches.
LockAndFetch(r) ==
  /\ pc[r] = "lock" /\ modelsInitMu = Nil
  /\ modelsInitMu' = r
  /\ pc' = [pc EXCEPT ![r] = "fetch"]
  /\ UNCHANGED <<single, configured, version, modelsCache, modelsUpdating,
                 refresher, answers, response>>

\* The second Load, with the lock: another request may have filled the cache.
LockAndLoad(r) ==
  /\ pc[r] = "lock" /\ modelsInitMu = Nil
  /\ IF modelsCache = Nil
       THEN /\ modelsInitMu' = r
            /\ pc' = [pc EXCEPT ![r] = "fetch"]
            /\ UNCHANGED response
       ELSE /\ pc' = [pc EXCEPT ![r] = "served"]
            /\ response' = [response EXCEPT ![r] = modelsCache]
            /\ UNCHANGED modelsInitMu
  /\ UNCHANGED <<single, configured, version, modelsCache, modelsUpdating,
                 refresher, answers>>

\* One upstream answers a fetch, the handler's or its refresher's; the
\* request's context or the refresher's timeout may fail it.  From a named
\* upstream another status is an error.
UpstreamAnswers(r, u) ==
  /\ pc[r] = "fetch" \/ refresher[r] = "fetch"
  /\ u \in configured /\ answers[r][u] = Nil
  /\ \E a \in {version[u], Failed} \cup (IF single THEN {Refused} ELSE {}) :
       answers' = [answers EXCEPT ![r][u] = a]
  /\ UNCHANGED <<single, configured, version, modelsCache, modelsInitMu,
                 modelsUpdating, pc, refresher, response>>

\* The initial fetch is over: only a 200 is stored; the lock is released in
\* any case.
FetchDone(r) ==
  /\ pc[r] = "fetch" /\ Answered(r)
  /\ response' = [response EXCEPT ![r] = Combined(answers[r])]
  /\ IF IsCatalogue(Combined(answers[r]))
       THEN modelsCache' = Combined(answers[r])
       ELSE UNCHANGED modelsCache
  /\ pc' = [pc EXCEPT ![r] = "unlock"]
  /\ answers' = [answers EXCEPT ![r] = NoAnswers]
  /\ UNCHANGED <<single, configured, version, modelsInitMu, modelsUpdating,
                 refresher>>

\* Mutant: the early return after a failed fetch keeps the lock.
UnlockOnSuccess(r) ==
  /\ pc[r] = "unlock"
  /\ modelsInitMu' = IF response[r] = Failed THEN modelsInitMu ELSE Nil
  /\ pc' = [pc EXCEPT ![r] = "done"]
  /\ UNCHANGED <<single, configured, version, modelsCache, modelsUpdating,
                 refresher, answers, response>>

Unlock(r) ==
  /\ pc[r] = "unlock"
  /\ modelsInitMu' = Nil
  /\ pc' = [pc EXCEPT ![r] = "done"]
  /\ UNCHANGED <<single, configured, version, modelsCache, modelsUpdating,
                 refresher, answers, response>>

\* Mutant: no compare-and-swap.
StartRefreshAlways(r) ==
  /\ pc[r] = "served"
  /\ modelsUpdating' = TRUE
  /\ refresher' = [refresher EXCEPT ![r] = "fetch"]
  /\ pc' = [pc EXCEPT ![r] = "done"]
  /\ UNCHANGED <<single, configured, version, modelsCache, modelsInitMu,
                 answers, response>>

\* After an answer from the cache: the compare-and-swap, and the refresher
\* of the request that won it.
StartRefresh(r) ==
  /\ pc[r] = "served"
  /\ IF modelsUpdating
       THEN UNCHANGED <<modelsUpdating, refresher>>
       ELSE /\ modelsUpdating' = TRUE
            /\ refresher' = [refresher EXCEPT ![r] = "fetch"]
  /\ pc' = [pc EXCEPT ![r] = "done"]
  /\ UNCHANGED <<single, configured, version, modelsCache, modelsInitMu,
                 answers, response>>

\* Mutant: the refresh stores an error too.
StoreRefreshAny(r) ==
  /\ refresher[r] = "fetch" /\ Answered(r)
  /\ modelsCache' = Combined(answers[r])
  /\ refresher' = [refresher EXCEPT ![r] = "stored"]
  /\ answers' = [answers EXCEPT ![r] = NoAnswers]
  /\ UNCHANGED <<single, configured, version, modelsInitMu, modelsUpdating,
                 pc, response>>

StoreRefresh(r) ==
  /\ refresher[r] = "fetch" /\ Answered(r)
  /\ IF IsCatalogue(Combined(answers[r]))
       THEN modelsCache' = Combined(answers[r])
       ELSE UNCHANGED modelsCache
  /\ refresher' = [refresher EXCEPT ![r] = "stored"]
  /\ answers' = [answers EXCEPT ![r] = NoAnswers]
  /\ UNCHANGED <<single, configured, version, modelsInitMu, modelsUpdating,
                 pc, response>>

\* The deferred Store(false).
EndRefresh(r) ==
  /\ refresher[r] = "stored"
  /\ refresher' = [refresher EXCEPT ![r] = "done"]
  /\ modelsUpdating' = FALSE
  /\ UNCHANGED <<single, configured, version, modelsCache, modelsInitMu, pc,
                 answers, response>>

\* External: an upstream changes its catalogue.
CatalogueChanges(u) ==
  /\ version[u] < MaxVersion
  /\ version' = [version EXCEPT ![u] = @ + 1]
  /\ UNCHANGED <<single, configured, modelsCache, modelsInitMu,
                 modelsUpdating, pc, refresher, answers, response>>

Handler(r) ==
  LoadCache(r) \/ LockAndLoad(r) \/ FetchDone(r) \/ Unlock(r) \/ StartRefresh(r)

Refresher(r) == StoreRefresh(r) \/ EndRefresh(r)

Terminated ==
  /\ \A r \in Requests : pc[r] = "done" /\ refresher[r] \in {"none", "done"}
  /\ UNCHANGED vars

Next ==
  \/ \E r \in Requests : Handler(r) \/ Refresher(r)
  \/ \E r \in Requests, u \in Upstreams : UpstreamAnswers(r, u)
  \/ \E u \in Upstreams : CatalogueChanges(u)
  \/ Terminated

\* Goroutines run and the fetches end: the refresher's by its timeout of 30
\* seconds, the handler's when upstream answers or its client gives up.
Spec ==
  /\ Init /\ [][Next]_vars
  /\ \A r \in Requests :
       /\ WF_vars(Handler(r)) /\ WF_vars(Refresher(r))
       /\ \A u \in Upstreams : WF_vars(UpstreamAnswers(r, u))

-----------------------------------------------------------------------------
\* Every variable keeps its type.  In particular only what a 200 carried is
\* cached: no error page, and never the empty list of a fetch in which every
\* upstream failed.
TypeOK ==
  /\ single \in BOOLEAN
  /\ configured \subseteq Upstreams /\ configured # {}
  /\ version \in [Upstreams -> Versions]
  /\ modelsCache \in Catalogues \cup {Nil}
  /\ modelsInitMu \in Requests \cup {Nil}
  /\ modelsUpdating \in BOOLEAN
  /\ pc \in [Requests ->
               {"new", "lock", "fetch", "unlock", "served", "done"}]
  /\ refresher \in [Requests -> {"none", "fetch", "stored", "done"}]
  /\ answers \in [Requests -> [configured -> Answers \cup {Nil}]]
  /\ response \in [Requests -> Catalogues \cup {Nil, Refused, Failed}]

Fetching ==
  {r \in Requests : pc[r] = "fetch" \/ refresher[r] = "fetch"}

\* The lock, the second Load under it and the compare-and-swap together keep
\* the proxy from fetching twice at a time: not two first requests, not two
\* refreshes, and not a first request beside a refresh.
OneFetchAtATime == Cardinality(Fetching) <= 1

\* The cache never goes back to an older catalogue of an upstream, and never
\* back to empty: stores happen in the order of the fetches.
CacheAdvances ==
  [][modelsCache # Nil =>
       /\ modelsCache' # Nil
       /\ \A u \in DOMAIN modelsCache \cap DOMAIN modelsCache' :
            modelsCache'[u] >= modelsCache[u]]_vars

\* Every request is answered, also those queued behind an initial fetch that
\* failed, and no refresh, failed or not, keeps later ones from refreshing.
RequestsAnswered ==
  /\ \A r \in Requests : pc[r] = "lock" ~> pc[r] = "done"
  /\ modelsUpdating ~> ~modelsUpdating

=============================================================================
