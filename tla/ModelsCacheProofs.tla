-------------------------- MODULE ModelsCacheProofs --------------------------
(***************************************************************************)
(* Proofs about ModelsCache, for any set of requests and upstreams: the    *)
(* proxy fetches the catalogue once at a time, and its cache advances.     *)
(***************************************************************************)
EXTENDS ModelsCache, FiniteSetTheorems, TLAPS

\* The lock belongs to the request that fetches or is about to release it.
LockHeld ==
  \A r \in Requests : pc[r] \in {"fetch", "unlock"} <=> modelsInitMu = r

\* A refresher that has not ended holds the flag, and is the only one.
FlagHeld ==
  /\ \A r \in Requests : refresher[r] \in {"fetch", "stored"} => modelsUpdating
  /\ \A r, s \in Requests :
       refresher[r] \in {"fetch", "stored"} /\ refresher[s] \in {"fetch", "stored"}
         => r = s

\* Refreshes start from a cache that is filled, initial fetches from one that
\* is empty until they end; a request has a refresher when it is done.
Phases ==
  \A r \in Requests :
    /\ pc[r] = "served" \/ refresher[r] # "none" => modelsCache # Nil
    /\ pc[r] = "fetch" => modelsCache = Nil
    /\ refresher[r] # "none" => pc[r] = "done"

\* What a running fetch got is not older than the cache and not newer than
\* what the upstream has now; nobody else has any answers.
Fresh ==
  /\ modelsCache # Nil =>
       \A u \in DOMAIN modelsCache : modelsCache[u] <= version[u]
  /\ \A r \in Requests :
       /\ ~(pc[r] = "fetch" \/ refresher[r] = "fetch") => answers[r] = NoAnswers
       /\ \A u \in configured : answers[r][u] \in Versions =>
            /\ answers[r][u] <= version[u]
            /\ modelsCache # Nil /\ u \in DOMAIN modelsCache =>
                 modelsCache[u] <= answers[r][u]

IInv == TypeOK /\ LockHeld /\ FlagHeld /\ Phases /\ Fresh

-----------------------------------------------------------------------------
\* What a fetch gives: an error, or a catalogue of what upstreams answered.
LEMMA CombinedType ==
  ASSUME NEW ans \in [configured -> Answers \cup {Nil}], configured \subseteq Upstreams
  PROVE  /\ Combined(ans) \in Catalogues \cup {Refused, Failed}
         /\ IsCatalogue(Combined(ans)) =>
              /\ Combined(ans) \in Catalogues /\ Combined(ans) # Nil
              /\ \A u \in DOMAIN Combined(ans) :
                   u \in configured /\ ans[u] \in Versions /\ Combined(ans)[u] = ans[u]
<1> DEFINE good == {u \in configured : ans[u] \in Versions}
<1>1. CASE good # {}
  <2>1. Combined(ans) = [u \in good |-> ans[u]]
    BY <1>1 DEF Combined
  <2>2. [u \in good |-> ans[u]] \in [good -> Versions]
    OBVIOUS
  <2>3. Combined(ans) \in Catalogues
    BY <1>1, <2>1, <2>2 DEF Catalogues
  <2>4. QED
    BY <2>1, <2>3, AnswersAssumption
<1>2. CASE good = {}
  BY <1>2 DEF Combined, IsCatalogue
<1>3. QED
  BY <1>1, <1>2

\* No answer yet is no version.
LEMMA NoAnswersType ==
  /\ NoAnswers \in [configured -> Answers \cup {Nil}]
  /\ \A u \in configured : NoAnswers[u] \notin Versions
BY AnswersAssumption DEF NoAnswers

\* A proxy that has just started satisfies the invariant.
LEMMA IInvInit == Init => IInv
<1> SUFFICES ASSUME Init PROVE IInv
  OBVIOUS
<1>1. TypeOK
  <2>1. configured \subseteq Upstreams /\ configured # {}
    BY ModelsAssumption DEF Init
  <2>2. 1 \in Versions
    BY ModelsAssumption DEF Versions
  <2>3. version \in [Upstreams -> Versions]
    BY <2>2 DEF Init
  <2>4. answers \in [Requests -> [configured -> Answers \cup {Nil}]]
    BY NoAnswersType DEF Init
  <2>5. single \in BOOLEAN
    BY DEF Init
  <2>6. QED
    BY <2>1, <2>3, <2>4, <2>5 DEF Init, TypeOK
<1>2. LockHeld /\ FlagHeld /\ Phases
  BY ModelsAssumption DEF Init, LockHeld, FlagHeld, Phases
<1>3. Fresh
  BY NoAnswersType DEF Init, Fresh
<1>4. QED
  BY <1>1, <1>2, <1>3 DEF IInv

-----------------------------------------------------------------------------
\* One lemma per action of ModelsCache.

\* Looking at the cache without the lock keeps the invariant.
LEMMA LoadCacheKeeps == ASSUME IInv, NEW r \in Requests, LoadCache(r) PROVE IInv'
<1> USE DEF IInv, LoadCache
<1>1. TypeOK'
  BY DEF TypeOK
<1>2. LockHeld' /\ FlagHeld' /\ Phases'
  BY DEF TypeOK, LockHeld, FlagHeld, Phases
<1>3. Fresh'
  BY DEF TypeOK, Fresh, NoAnswers
<1>4. QED
  BY <1>1, <1>2, <1>3

\* The request that gets the lock fetches only if the cache is still empty.
LEMMA LockAndLoadKeeps == ASSUME IInv, NEW r \in Requests, LockAndLoad(r) PROVE IInv'
<1> USE DEF IInv, LockAndLoad
<1>1. TypeOK'
  BY DEF TypeOK
<1>2. LockHeld'
  BY ModelsAssumption DEF TypeOK, LockHeld
<1>3. FlagHeld' /\ Phases'
  BY DEF TypeOK, FlagHeld, Phases
<1>4. Fresh'
  BY DEF TypeOK, Fresh, NoAnswers
<1>5. QED
  BY <1>1, <1>2, <1>3, <1>4

\* An answer is the version upstream has at that moment, or an error.
LEMMA UpstreamAnswersKeeps ==
  ASSUME IInv, NEW r \in Requests, NEW u \in Upstreams, UpstreamAnswers(r, u)
  PROVE  IInv'
<1> USE DEF IInv
<1>1. PICK a \in {version[u], Failed, Refused} :
        answers' = [answers EXCEPT ![r][u] = a]
  BY DEF UpstreamAnswers
<1>2. /\ u \in configured /\ answers[r][u] = Nil
      /\ pc[r] = "fetch" \/ refresher[r] = "fetch"
      /\ UNCHANGED <<single, configured, version, modelsCache, modelsInitMu,
                     modelsUpdating, pc, refresher, response>>
  BY DEF UpstreamAnswers
<1>3. a \in Answers /\ (a \in Versions => a = version[u]) /\ version[u] \in Versions
  BY AnswersAssumption DEF TypeOK, Answers
<1>4. TypeOK'
  BY <1>1, <1>2, <1>3 DEF TypeOK
<1>5. LockHeld' /\ FlagHeld' /\ Phases'
  BY <1>2 DEF LockHeld, FlagHeld, Phases
<1>6. \A s \in Requests, v \in configured :
        answers'[s][v] = IF s = r /\ v = u THEN a ELSE answers[s][v]
  BY <1>1, <1>2 DEF TypeOK
<1>7. \A s \in Requests : s # r => answers'[s] = answers[s]
  BY <1>1 DEF TypeOK
<1>8. version[u] <= version[u]
  BY <1>3 DEF Versions
<1>9. Fresh'
  BY <1>2, <1>3, <1>6, <1>7, <1>8 DEF Fresh, NoAnswers
<1>10. QED
  BY <1>4, <1>5, <1>9

\* The end of the initial fetch stores into a cache that is still empty.
LEMMA FetchDoneKeeps == ASSUME IInv, NEW r \in Requests, FetchDone(r) PROVE IInv'
<1> USE DEF IInv
<1> DEFINE res == Combined(answers[r])
<1>1. /\ pc[r] = "fetch" /\ pc' = [pc EXCEPT ![r] = "unlock"]
      /\ response' = [response EXCEPT ![r] = res]
      /\ modelsCache' = IF IsCatalogue(res) THEN res ELSE modelsCache
      /\ answers' = [answers EXCEPT ![r] = NoAnswers]
      /\ UNCHANGED <<single, configured, version, modelsInitMu, modelsUpdating,
                     refresher>>
  BY DEF FetchDone
<1>2. /\ res \in Catalogues \cup {Refused, Failed}
      /\ IsCatalogue(res) =>
           /\ res \in Catalogues /\ res # Nil
           /\ \A u \in DOMAIN res :
                u \in configured /\ answers[r][u] \in Versions /\ res[u] = answers[r][u]
  BY CombinedType DEF TypeOK
<1>3. modelsCache = Nil /\ \A s \in Requests : refresher[s] = "none"
  BY <1>1 DEF Phases
<1>4. \A s \in Requests : pc[s] = "fetch" => s = r
  BY <1>1 DEF LockHeld
<1>5. TypeOK'
  BY <1>1, <1>2, NoAnswersType DEF TypeOK
<1>6. LockHeld' /\ FlagHeld'
  BY <1>1 DEF TypeOK, LockHeld, FlagHeld
<1>7. Phases'
  BY <1>1, <1>3, <1>4 DEF TypeOK, Phases
<1>8. \A s \in Requests : answers'[s] = NoAnswers
  BY <1>1, <1>3, <1>4 DEF TypeOK, Fresh
<1>9. modelsCache' # Nil =>
        \A u \in DOMAIN modelsCache' : modelsCache'[u] <= version'[u]
  BY <1>1, <1>2, <1>3 DEF Fresh
<1>10. Fresh'
  BY <1>1, <1>8, <1>9, NoAnswersType DEF Fresh, NoAnswers
<1>11. QED
  BY <1>5, <1>6, <1>7, <1>10

\* Releasing the lock leaves it to no other request.
LEMMA UnlockKeeps == ASSUME IInv, NEW r \in Requests, Unlock(r) PROVE IInv'
<1> USE DEF IInv, Unlock
<1>1. TypeOK'
  BY DEF TypeOK
<1>2. LockHeld'
  BY ModelsAssumption DEF TypeOK, LockHeld
<1>3. FlagHeld' /\ Phases'
  BY DEF TypeOK, FlagHeld, Phases
<1>4. Fresh'
  BY DEF TypeOK, Fresh, NoAnswers
<1>5. QED
  BY <1>1, <1>2, <1>3, <1>4

\* The compare-and-swap lets one refresher in, whose cache is filled.
LEMMA StartRefreshKeeps ==
  ASSUME IInv, NEW r \in Requests, StartRefresh(r) PROVE IInv'
<1> USE DEF IInv, StartRefresh
<1>1. TypeOK'
  BY DEF TypeOK
<1>2. LockHeld'
  BY DEF TypeOK, LockHeld
<1>3. FlagHeld'
  BY DEF TypeOK, FlagHeld
<1>4. Phases'
  BY DEF TypeOK, Phases
<1>5. Fresh'
  BY DEF TypeOK, Fresh, NoAnswers
<1>6. QED
  BY <1>1, <1>2, <1>3, <1>4, <1>5

\* What a refresh stores is not older than what it replaces.
LEMMA StoreRefreshKeeps ==
  ASSUME IInv, NEW r \in Requests, StoreRefresh(r) PROVE IInv'
<1> USE DEF IInv
<1> DEFINE res == Combined(answers[r])
<1>1. /\ refresher[r] = "fetch"
      /\ modelsCache' = IF IsCatalogue(res) THEN res ELSE modelsCache
      /\ refresher' = [refresher EXCEPT ![r] = "stored"]
      /\ answers' = [answers EXCEPT ![r] = NoAnswers]
      /\ UNCHANGED <<single, configured, version, modelsInitMu, modelsUpdating,
                     pc, response>>
  BY DEF StoreRefresh
<1>2. IsCatalogue(res) =>
        /\ res \in Catalogues /\ res # Nil
        /\ \A u \in DOMAIN res :
             u \in configured /\ answers[r][u] \in Versions /\ res[u] = answers[r][u]
  BY CombinedType DEF TypeOK
<1>3. modelsCache # Nil /\ modelsCache' # Nil
  BY <1>1, <1>2 DEF Phases
<1>4. \A s \in Requests : pc[s] # "fetch" /\ (refresher[s] = "fetch" => s = r)
  BY <1>1, <1>3 DEF Phases, FlagHeld
<1>5. TypeOK'
  BY <1>1, <1>2, NoAnswersType DEF TypeOK
<1>6. LockHeld' /\ FlagHeld'
  BY <1>1 DEF TypeOK, LockHeld, FlagHeld
<1>7. Phases'
  BY <1>1, <1>3, <1>4 DEF TypeOK, Phases
<1>8. \A s \in Requests : answers'[s] = NoAnswers
  BY <1>1, <1>4 DEF TypeOK, Fresh
<1>9. \A u \in DOMAIN modelsCache' : modelsCache'[u] <= version'[u]
  BY <1>1, <1>2, <1>3 DEF Fresh
<1>10. Fresh'
  BY <1>1, <1>8, <1>9, NoAnswersType DEF Fresh, NoAnswers
<1>11. QED
  BY <1>5, <1>6, <1>7, <1>10

\* Releasing the flag when no other refresher holds it.
LEMMA EndRefreshKeeps == ASSUME IInv, NEW r \in Requests, EndRefresh(r) PROVE IInv'
<1> USE DEF IInv, EndRefresh
<1>1. TypeOK'
  BY DEF TypeOK
<1>2. LockHeld' /\ Phases'
  BY DEF TypeOK, LockHeld, Phases
<1>3. FlagHeld'
  BY DEF TypeOK, FlagHeld
<1>4. Fresh'
  BY DEF TypeOK, Fresh, NoAnswers
<1>5. QED
  BY <1>1, <1>2, <1>3, <1>4

\* An upstream only moves on to newer catalogues.
LEMMA CatalogueChangesKeeps ==
  ASSUME IInv, NEW u \in Upstreams, CatalogueChanges(u) PROVE IInv'
<1> USE DEF IInv, CatalogueChanges
<1>1. TypeOK'
  BY ModelsAssumption DEF TypeOK, Versions
<1>2. LockHeld' /\ FlagHeld' /\ Phases'
  BY DEF LockHeld, FlagHeld, Phases
<1>3. \A v \in Upstreams : version[v] \in Nat /\ version'[v] \in Nat /\ version[v] <= version'[v]
  BY ModelsAssumption DEF TypeOK, Versions
<1>4. modelsCache # Nil => \A v \in DOMAIN modelsCache :
        v \in Upstreams /\ modelsCache[v] \in Nat
  BY DEF TypeOK, Catalogues, Versions
<1>5. Fresh'
  BY <1>3, <1>4 DEF TypeOK, Fresh, NoAnswers, Versions
<1>6. QED
  BY <1>1, <1>2, <1>5

\* Every step keeps the invariant.
LEMMA IInvStep == IInv /\ [Next]_vars => IInv'
<1> SUFFICES ASSUME IInv, [Next]_vars PROVE IInv'
  OBVIOUS
<1>1. ASSUME NEW r \in Requests, Handler(r) PROVE IInv'
  BY <1>1, LoadCacheKeeps, LockAndLoadKeeps, FetchDoneKeeps, UnlockKeeps,
     StartRefreshKeeps DEF Handler
<1>2. ASSUME NEW r \in Requests, Refresher(r) PROVE IInv'
  BY <1>2, StoreRefreshKeeps, EndRefreshKeeps DEF Refresher
<1>3. ASSUME NEW r \in Requests, NEW u \in Upstreams, UpstreamAnswers(r, u)
      PROVE  IInv'
  BY <1>3, UpstreamAnswersKeeps
<1>4. ASSUME NEW u \in Upstreams, CatalogueChanges(u) PROVE IInv'
  BY <1>4, CatalogueChangesKeeps
<1>5. CASE UNCHANGED vars
  BY <1>5 DEF vars, IInv, TypeOK, LockHeld, FlagHeld, Phases, Fresh, NoAnswers
<1>6. QED
  BY <1>1, <1>2, <1>3, <1>4, <1>5 DEF Next, Terminated

\* The invariant holds of every behaviour of ModelsCache.
THEOREM Invariance == Spec => []IInv
BY IInvInit, IInvStep, PTL DEF Spec

\* Only catalogues are cached (server.go:668, 689); every variable keeps its
\* type.
THEOREM TypeCorrect == Spec => []TypeOK
<1>1. IInv => TypeOK
  BY DEF IInv
<1>2. QED
  BY <1>1, Invariance, PTL

\* However many first requests and refreshes overlap, the catalogue is fetched
\* once at a time (server.go:657-685).
THEOREM FetchesExclude == Spec => []OneFetchAtATime
<1>1. ASSUME IInv PROVE OneFetchAtATime
  <2>1. \A r, s \in Fetching : r = s
    BY <1>1 DEF IInv, Fetching, LockHeld, FlagHeld, Phases
  <2>2. CASE Fetching = {}
    BY <2>2, FS_EmptySet DEF OneFetchAtATime
  <2>3. CASE \E r : r \in Fetching
    <3>1. PICK r : Fetching = {r}
      BY <2>1, <2>3
    <3>2. QED
      BY <3>1, FS_Singleton DEF OneFetchAtATime
  <2>4. QED
    BY <2>2, <2>3
<1>2. QED
  BY <1>1, Invariance, PTL

\* What one step does to a cache that is filled: only a refresh replaces it,
\* by answers that are not older.
LEMMA CacheStep ==
  ASSUME IInv, [Next]_vars, modelsCache # Nil
  PROVE  /\ modelsCache' # Nil
         /\ \A u \in DOMAIN modelsCache \cap DOMAIN modelsCache' :
              modelsCache'[u] >= modelsCache[u]
<1>1. \A u \in DOMAIN modelsCache : modelsCache[u] \in Nat
  BY DEF IInv, TypeOK, Catalogues, Versions
<1>2. CASE modelsCache' = modelsCache
  BY <1>1, <1>2
<1>3. ASSUME NEW r \in Requests, FetchDone(r) PROVE FALSE
  BY <1>3 DEF IInv, Phases, FetchDone
<1>4. ASSUME NEW r \in Requests, StoreRefresh(r), modelsCache' # modelsCache
      PROVE  /\ modelsCache' # Nil
             /\ \A u \in DOMAIN modelsCache \cap DOMAIN modelsCache' :
                  modelsCache'[u] >= modelsCache[u]
  <2> DEFINE res == Combined(answers[r])
  <2>1. modelsCache' = res /\ IsCatalogue(res)
    BY <1>4 DEF StoreRefresh
  <2>2. /\ res # Nil
        /\ \A u \in DOMAIN res :
             u \in configured /\ answers[r][u] \in Versions /\ res[u] = answers[r][u]
    BY <2>1, CombinedType DEF IInv, TypeOK
  <2>3. \A u \in DOMAIN modelsCache \cap DOMAIN res : modelsCache[u] <= res[u]
    BY <2>2 DEF IInv, Fresh
  <2>4. \A u \in DOMAIN res : res[u] \in Nat
    BY <2>2 DEF Versions
  <2>5. QED
    BY <1>1, <2>1, <2>2, <2>3, <2>4
<1>5. QED
  BY <1>2, <1>3, <1>4
     DEF Next, Handler, Refresher, LoadCache, LockAndLoad, Unlock, StartRefresh,
         EndRefresh, UpstreamAnswers, CatalogueChanges, Terminated, vars

\* Stores happen in the order of the fetches, so the cache never goes back to
\* an older catalogue (server.go:669, 690).
THEOREM CacheNeverBack == Spec => CacheAdvances
<1>1. IInv /\ [Next]_vars =>
        [modelsCache # Nil =>
           /\ modelsCache' # Nil
           /\ \A u \in DOMAIN modelsCache \cap DOMAIN modelsCache' :
                modelsCache'[u] >= modelsCache[u]]_vars
  BY CacheStep
<1>2. QED
  BY <1>1, Invariance, PTL DEF Spec, CacheAdvances

=============================================================================
