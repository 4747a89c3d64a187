---------------------------- MODULE RoutingCache ----------------------------
(***************************************************************************)
(* The routing cache of coreclient.Client (internal/coreclient/client.go). *)
(*                                                                         *)
(* Request goroutines (Handler) call GetRouting, which serves the cached   *)
(* configuration while it is young and otherwise fetches a new one from    *)
(* the Hub.  One background goroutine (Refresher) fetches on every tick of *)
(* a ticker of period cacheTTL.  Nothing serialises the fetches: the mutex *)
(* c.mu covers single reads and writes of the cache, never a whole fetch.  *)
(* Each action below is one critical section of c.mu or one event of the   *)
(* fetch between two of them.                                              *)
(*                                                                         *)
(* Data.  A configuration is the version number of the admin edit that     *)
(* produced it; HubEntries says how each version lists each model.  Time   *)
(* is counted in ticks and kept as ages: an age stops growing at Horizon,  *)
(* beyond which no guard and no property tells ages apart.                 *)
(***************************************************************************)
EXTENDS Integers

CONSTANTS
  Handler,      \* request goroutines
  Refresher,    \* the goroutine of StartBackgroundRefresh
  Model,        \* model names a request may ask for
  MaxVersion,   \* bound: number of admin edits in a behaviour
  HubEntries,   \* HubEntries[v][m]: how edit v lists model m
  TTL,          \* Client.cacheTTL
  FetchBound,   \* longest time from sending a request to storing its reply
  Horizon       \* age at which ages stop growing

Proc == Handler \cup {Refresher}
Version == 0..MaxVersion
NoVersion == -1     \* the zero RoutingConfig{}
Age == 0..Horizon

ASSUME ProcAssumption == Refresher \notin Handler
ASSUME TimeAssumption ==
  /\ TTL \in Nat \ {0}
  /\ FetchBound \in Nat \ {0}
  /\ Horizon \in Nat
  /\ Horizon > TTL + FetchBound
  /\ Horizon >= 2 * TTL
ASSUME VersionAssumption ==
  /\ MaxVersion \in Nat
  /\ HubEntries \in [Version -> [Model -> {"absent", "incomplete", "complete"}]]

VARIABLES
  hubVersion,     \* the configuration the Hub holds now
  hubUp,          \* the Hub answers 200 within the HTTP client's timeout
  supersededFor,  \* supersededFor[v]: time since edit v was replaced
  baseUrlOk,      \* c.baseURL parses; fixed when the process starts
  routing,        \* c.routing (and c.updatedAt, always stored with it)
  sinceFetch,     \* age of c.lastFetch; c.expiresAt = c.lastFetch + cacheTTL
  fetchErr,       \* c.fetchErr
  sinceTick,      \* time since the ticker last fired
  tickPending,    \* the ticker's channel, which buffers one tick
  pc,             \* where each goroutine is
  inFlight,       \* time since each goroutine sent its request
  response,       \* the configuration in each goroutine's reply
  outcome,        \* what GetRouting or refreshRouting last returned
  heldAtSend      \* history: c.routing when the request was sent

hubVars == <<hubVersion, hubUp, supersededFor, baseUrlOk>>
cacheVars == <<routing, sinceFetch, fetchErr>>
tickerVars == <<sinceTick, tickPending>>
procVars == <<pc, inFlight, response, outcome, heldAtSend>>
vars == <<hubVars, cacheVars, tickerVars, procVars>>

\* Errors are told apart only by errors.Is(err, ErrRoutingEmpty).
Error == {"none", "empty", "failed"}
Nothing == [config |-> NoVersion, err |-> "none"]
Outcome == [config : Version \cup {NoVersion}, err : Error]

\* The entries that survive the RouteEntry.Valid filter of refreshRouting.
Usable(v) ==
  IF v = NoVersion THEN {} ELSE {m \in Model : HubEntries[v][m] = "complete"}

\* ResolveRoute's answer for model m, given what GetRouting returned.
Answer(o, m) ==
  CASE o.err = "empty"  -> "routing_empty"
    [] o.err = "failed" -> "routing_unavailable"
    [] o.err = "none"   -> IF m \in Usable(o.config) THEN "route"
                           ELSE "model_not_found"

Older(age) == IF age < Horizon THEN age + 1 ELSE Horizon
\* Mutant: GetRouting serves the cache through the grace period of
\* getCachedOrError.
MutantStale == sinceFetch > 2 * TTL

Stale == sinceFetch > TTL

TypeOK ==
  /\ hubVersion \in Version
  /\ hubUp \in BOOLEAN
  /\ supersededFor \in [Version -> Age]
  /\ baseUrlOk \in BOOLEAN
  /\ routing \in Version \cup {NoVersion}
  /\ sinceFetch \in Age
  /\ fetchErr \in Error
  /\ sinceTick \in 0..TTL
  /\ tickPending \in BOOLEAN
  /\ pc \in [Proc -> {"idle", "sent", "replied", "storeEmpty", "fallback",
                      "returned", "platform"}]
  /\ \A h \in Handler : pc[h] # "platform"
  /\ pc[Refresher] # "returned"
  /\ inFlight \in [Proc -> 0..FetchBound]
  /\ response \in [Proc -> Version \cup {NoVersion}]
  /\ outcome \in [Proc -> Outcome]
  /\ heldAtSend \in [Proc -> Version \cup {NoVersion}]

Init ==
  /\ hubVersion = 0
  /\ hubUp \in BOOLEAN
  /\ supersededFor = [v \in Version |-> 0]
  /\ baseUrlOk \in BOOLEAN
  /\ routing = NoVersion
  /\ sinceFetch = Horizon       \* the zero time.Time
  /\ fetchErr = "none"
  /\ sinceTick = 0
  /\ tickPending = FALSE
  /\ pc = [p \in Proc |-> "idle"]
  /\ inFlight = [p \in Proc |-> 0]
  /\ response = [p \in Proc |-> NoVersion]
  /\ outcome = [p \in Proc |-> Nothing]
  /\ heldAtSend = [p \in Proc |-> NoVersion]

-----------------------------------------------------------------------------
(* Client operations *)

\* A handler gets its result; the Refresher discards it and goes on to
\* refreshPlatformConfig.
Return(p, config, err) ==
  /\ pc' = [pc EXCEPT ![p] = IF p = Refresher THEN "platform" ELSE "returned"]
  /\ outcome' = [outcome EXCEPT ![p] =
                   IF p = Refresher THEN Nothing
                   ELSE [config |-> config, err |-> err]]
  /\ inFlight' = [inFlight EXCEPT ![p] = 0]
  /\ response' = [response EXCEPT ![p] = NoVersion]
  /\ heldAtSend' = [heldAtSend EXCEPT ![p] = NoVersion]

\* The head of refreshRouting: build the request and send it.
BeginRefresh(p) ==
  \/ /\ baseUrlOk
     /\ pc' = [pc EXCEPT ![p] = "sent"]
     /\ inFlight' = [inFlight EXCEPT ![p] = 0]
     /\ heldAtSend' = [heldAtSend EXCEPT ![p] = routing]
     /\ UNCHANGED <<cacheVars, response, outcome>>
  \/ /\ ~baseUrlOk
     /\ fetchErr' = "failed"
     /\ Return(p, NoVersion, "failed")
     /\ UNCHANGED <<routing, sinceFetch>>

\* GetRouting finds a young, non-empty cache.
ServeCached(h) ==
  /\ pc[h] = "idle"
  /\ ~Stale
  /\ Usable(routing) # {}
  /\ Return(h, routing, "none")
  /\ UNCHANGED <<hubVars, cacheVars, tickerVars>>

\* GetRouting finds the cache expired or empty.
MissCache(h) ==
  /\ pc[h] = "idle"
  /\ Stale \/ Usable(routing) = {}
  /\ BeginRefresh(h)
  /\ UNCHANGED <<hubVars, tickerVars>>

\* Mutant: the background loop fetches only while it has no routing.
MutantBackgroundRefresh ==
  /\ Usable(routing) = {}
  /\ pc[Refresher] = "idle"
  /\ tickPending
  /\ tickPending' = FALSE
  /\ BeginRefresh(Refresher)
  /\ UNCHANGED <<hubVars, sinceTick>>

\* The background loop takes a tick.
BackgroundRefresh ==
  /\ pc[Refresher] = "idle"
  /\ tickPending
  /\ tickPending' = FALSE
  /\ BeginRefresh(Refresher)
  /\ UNCHANGED <<hubVars, sinceTick>>

\* Mutant: a failed fetch puts back the configuration that was cached when it
\* was sent.
MutantFailureRestores(p) ==
  /\ pc[p] \in {"sent", "replied"}
  /\ ~hubUp \/ p \in Handler
  /\ routing' = heldAtSend[p]
  /\ fetchErr' = "failed"
  /\ pc' = [pc EXCEPT ![p] = "fallback"]
  /\ UNCHANGED <<hubVars, sinceFetch, tickerVars, inFlight, response, outcome,
                 heldAtSend>>

\* Mutant: an HTTP client without a timeout; only a caller can give up.
MutantFailureNeedsCaller(p) ==
  /\ pc[p] \in {"sent", "replied"}
  /\ p \in Handler
  /\ fetchErr' = "failed"
  /\ pc' = [pc EXCEPT ![p] = "fallback"]
  /\ UNCHANGED <<hubVars, routing, sinceFetch, tickerVars, inFlight, response,
                 outcome, heldAtSend>>

\* Transport error, status other than 200, truncated or malformed body, the
\* timeout, or (for a handler) the client going away: all set fetchErr and
\* then consult getCachedOrError in a second critical section.
FetchFails(p) ==
  /\ pc[p] \in {"sent", "replied"}
  /\ ~hubUp \/ p \in Handler
  /\ fetchErr' = "failed"
  /\ pc' = [pc EXCEPT ![p] = "fallback"]
  /\ UNCHANGED <<hubVars, routing, sinceFetch, tickerVars, inFlight, response,
                 outcome, heldAtSend>>

\* getCachedOrError, whose configuration refreshRouting throws away: only
\* the error is returned, next to an empty RoutingConfig.
Fallback(p) ==
  /\ pc[p] = "fallback"
  /\ Return(p, NoVersion,
            IF Usable(routing) # {} /\ sinceFetch < 2 * TTL THEN "none"
            ELSE IF fetchErr # "none" THEN fetchErr ELSE "failed")
  /\ UNCHANGED <<hubVars, cacheVars, tickerVars>>

\* A 200 reply without a usable entry: setFetchError first ...
ReceiveEmpty(p) ==
  /\ pc[p] = "replied"
  /\ Usable(response[p]) = {}
  /\ fetchErr' = "empty"
  /\ pc' = [pc EXCEPT ![p] = "storeEmpty"]
  /\ UNCHANGED <<hubVars, routing, sinceFetch, tickerVars, inFlight, response,
                 outcome, heldAtSend>>

\* Mutant: the second critical section trusts the fetchErr set by the first.
MutantStoreEmpty(p) ==
  /\ pc[p] = "storeEmpty"
  /\ routing' = response[p]
  /\ sinceFetch' = 0
  /\ UNCHANGED fetchErr
  /\ Return(p, NoVersion, "empty")
  /\ UNCHANGED <<hubVars, tickerVars>>

\* ... then a second critical section stores the empty configuration.
StoreEmpty(p) ==
  /\ pc[p] = "storeEmpty"
  /\ routing' = response[p]
  /\ sinceFetch' = 0
  /\ fetchErr' = "empty"
  /\ Return(p, NoVersion, "empty")
  /\ UNCHANGED <<hubVars, tickerVars>>

\* A 200 reply with usable entries replaces the cache, whatever it holds: the
\* three branches on cfg.UpdatedAt assign the same value.
StoreRouting(p) ==
  /\ pc[p] = "replied"
  /\ Usable(response[p]) # {}
  /\ routing' = response[p]
  /\ sinceFetch' = 0
  /\ fetchErr' = "none"
  /\ Return(p, response[p], "none")
  /\ UNCHANGED <<hubVars, tickerVars>>

\* ResolveRoute has used the result (see Answer); the goroutine can serve
\* another request.
ResolveRoute(h) ==
  /\ pc[h] = "returned"
  /\ pc' = [pc EXCEPT ![h] = "idle"]
  /\ outcome' = [outcome EXCEPT ![h] = Nothing]
  /\ UNCHANGED <<hubVars, cacheVars, tickerVars, inFlight, response,
                 heldAtSend>>

\* refreshPlatformConfig, the other half of the loop body, has returned.
PlatformRefreshed ==
  /\ pc[Refresher] = "platform"
  /\ pc' = [pc EXCEPT ![Refresher] = "idle"]
  /\ inFlight' = [inFlight EXCEPT ![Refresher] = 0]
  /\ UNCHANGED <<hubVars, cacheVars, tickerVars, response, outcome,
                 heldAtSend>>

-----------------------------------------------------------------------------
(* The Hub, the network and time *)

\* The Hub reads its current configuration and answers.
HubReplies(p) ==
  /\ pc[p] = "sent"
  /\ hubUp
  /\ response' = [response EXCEPT ![p] = hubVersion]
  /\ pc' = [pc EXCEPT ![p] = "replied"]
  /\ UNCHANGED <<hubVars, cacheVars, tickerVars, inFlight, outcome, heldAtSend>>

AdminEdit ==
  /\ hubVersion < MaxVersion
  /\ hubVersion' = hubVersion + 1
  /\ UNCHANGED <<hubUp, supersededFor, baseUrlOk, cacheVars, tickerVars,
                 procVars>>

HubFlips ==
  /\ hubUp' = ~hubUp
  /\ UNCHANGED <<hubVersion, supersededFor, baseUrlOk, cacheVars, tickerVars,
                 procVars>>

\* Mutant: nothing bounds the life of a fetch.
MutantTick ==
  /\ supersededFor' = [v \in Version |->
                         IF v < hubVersion THEN Older(supersededFor[v]) ELSE 0]
  /\ sinceFetch' = Older(sinceFetch)
  /\ inFlight' = [p \in Proc |-> IF pc[p] \in {"idle", "returned"} THEN 0
                                 ELSE inFlight[p] + 1]
  /\ sinceTick' = IF sinceTick + 1 >= TTL THEN 0 ELSE sinceTick + 1
  /\ tickPending' = (tickPending \/ sinceTick + 1 >= TTL)
  /\ UNCHANGED <<hubVersion, hubUp, baseUrlOk, routing, fetchErr, pc, response,
                 outcome, heldAtSend>>

\* Time passes.  No fetch lives longer than FetchBound: the HTTP client
\* gives up after its timeout and the rest of refreshRouting is local.
Tick ==
  /\ \A p \in Proc : pc[p] \notin {"idle", "returned"} => inFlight[p] < FetchBound
  /\ supersededFor' = [v \in Version |->
                         IF v < hubVersion THEN Older(supersededFor[v]) ELSE 0]
  /\ sinceFetch' = Older(sinceFetch)
  /\ inFlight' = [p \in Proc |-> IF pc[p] \in {"idle", "returned"} THEN 0
                                 ELSE inFlight[p] + 1]
  /\ sinceTick' = IF sinceTick + 1 >= TTL THEN 0 ELSE sinceTick + 1
  /\ tickPending' = (tickPending \/ sinceTick + 1 >= TTL)
  /\ UNCHANGED <<hubVersion, hubUp, baseUrlOk, routing, fetchErr, pc, response,
                 outcome, heldAtSend>>

-----------------------------------------------------------------------------
HandlerStep(h) == ServeCached(h) \/ MissCache(h) \/ ResolveRoute(h)

FetchStep(p) ==
  \/ HubReplies(p) \/ FetchFails(p) \/ Fallback(p)
  \/ ReceiveEmpty(p) \/ StoreEmpty(p) \/ StoreRouting(p)

Next ==
  \/ \E h \in Handler : HandlerStep(h)
  \/ \E p \in Proc : FetchStep(p)
  \/ BackgroundRefresh \/ PlatformRefreshed
  \/ AdminEdit \/ HubFlips \/ Tick

Spec == Init /\ [][Next]_vars

\* Goroutines run, a fetch is answered or fails, and time goes on.  Nothing
\* obliges the admin to edit, the Hub to come back or a client to call.
Fairness ==
  /\ \A p \in Proc : WF_vars(FetchStep(p))
  /\ WF_vars(BackgroundRefresh)
  /\ WF_vars(PlatformRefreshed)
  /\ WF_vars(Tick)

FairSpec == Spec /\ Fairness

-----------------------------------------------------------------------------
(* Properties *)

Returns(h) == pc[h] # "returned" /\ pc'[h] = "returned"

\* No handler is handed a configuration that the admin replaced more than
\* cacheTTL plus one fetch ago: ageing in the cache (GetRouting, expiresAt)
\* and ageing in a slow fetch add up to no more than that, in any overlap of
\* fetches and edits.
StalenessBounded ==
  [][\A h \in Handler :
       Returns(h) /\ outcome'[h].config # NoVersion
         => supersededFor[outcome'[h].config] <= TTL + FetchBound]_vars

RoutingRegister == INSTANCE StaleRegister
  WITH Reader <- Handler, Bound <- TTL + FetchBound, current <- hubVersion,
       handed <- [h \in Handler |-> outcome[h].config]

\* To its callers GetRouting is a register that lags the admin panel by at
\* most cacheTTL plus one fetch: cache, ticker, overlapping fetches, empty
\* replies and fallbacks show in nothing but that lag, and in answers that
\* hand out no configuration at all.
ImplementsRoutingRegister == RoutingRegister!Spec

\* The cache goes back to an older edit only through a fetch that overlapped
\* a newer one: the goroutine that stores the older reply sent its request
\* when the cache held nothing newer than that reply.
RegressionNeedsOverlap ==
  [][routing' < routing =>
       \E p \in Proc : /\ pc[p] \in {"replied", "storeEmpty"}
                       /\ routing' = response[p]
                       /\ heldAtSend[p] <= routing']_vars

\* A cache that holds a fetched but unusable configuration always records an
\* error, although setFetchError(ErrRoutingEmpty) and the store are two
\* critical sections between which another fetch may clear fetchErr.
EmptyCacheHasError ==
  routing # NoVersion /\ Usable(routing) = {} => fetchErr # "none"

\* Every fetch ends: no goroutine waits for the Hub forever, whether the Hub
\* answers, fails or flaps.
FetchesEnd ==
  \A p \in Proc : pc[p] \in {"sent", "replied", "storeEmpty", "fallback"}
                    ~> pc[p] \notin {"sent", "replied", "storeEmpty", "fallback"}

\* If the Hub stays reachable, the background loop alone brings the cache to
\* the admin's last edit and keeps it there, with no request ever arriving.
CacheConverges ==
  (baseUrlOk /\ <>[]hubUp) => <>[](routing = hubVersion)

\* docs/API.md, "Routing freshness": admin changes propagate within one cache
\* interval.  While the background loop keeps up (no tick waits for it), no
\* handler is handed an edit replaced more than cacheTTL ago.
PropagatesWithinOneInterval ==
  [][\A h \in Handler :
       Returns(h) /\ outcome'[h].config # NoVersion /\ ~tickPending
         => supersededFor[outcome'[h].config] <= TTL]_vars

\* docs/API.md, error table: model_not_available (404) means the model is not
\* in the admin routing config.  A model that every edit offers is never
\* answered with "model not found".
NotFoundMeansNotConfigured ==
  \A h \in Handler, m \in Model :
    /\ pc[h] = "returned"
    /\ \A v \in Version : m \in Usable(v)
    => Answer(outcome[h], m) # "model_not_found"
=============================================================================
