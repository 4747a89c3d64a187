-------------------------------- MODULE Ready --------------------------------
(***************************************************************************)
(* GET /ready: handler.Ready (internal/handler/health.go) over the caches  *)
(* of the other components, of which RoutingCache is composed in whole.    *)
(*                                                                         *)
(* A probe asks Redis, the JWKS cache and coreclient.Client one after the  *)
(* other, in six critical sections with a fetch of the routing among them; *)
(* everything may change between any two.  The handlers of RoutingCache    *)
(* are the probes here: GetRouting is the same for both, and the step that *)
(* uses its result is ReadRouting.                                         *)
(*                                                                         *)
(* The JWKS cache only goes from empty to not empty and the platform       *)
(* configuration only from none to some and from one to another: this is   *)
(* KeysNeverLost of JwksCache, and StoreConfig is the only action of       *)
(* YadManifest that assigns platform.                                      *)
(***************************************************************************)
EXTENDS Integers

CONSTANTS
  Handler,       \* the goroutines that serve probes
  Refresher, Model, MaxVersion, HubEntries, TTL, FetchBound, Horizon,
                 \* as in RoutingCache
  PlatformEdit   \* admin edits of the platform configuration with a manifest URL

VARIABLES
  hubVersion, hubUp, supersededFor, baseUrlOk, routing, sinceFetch, fetchErr,
  sinceTick, tickPending, pc, inFlight, response, outcome, heldAtSend,
                 \* as in RoutingCache
  redisUp,       \* Redis answers PING
  hasKeys,       \* JWKSCache.HasKeys
  platform,      \* c.platformCfg (and c.platformUpdatedAt)
  probe,         \* where each probe is
  gone,          \* its client has gone, which cancels its context
  report         \* what it has read, and its answer

routingVars == <<hubVersion, hubUp, supersededFor, baseUrlOk, routing, sinceFetch,
                 fetchErr, sinceTick, tickPending, pc, inFlight, response, outcome,
                 heldAtSend>>
depVars == <<redisUp, hasKeys, platform>>
probeVars == <<probe, gone, report>>
vars == <<routingVars, depVars, probeVars>>

RC == INSTANCE RoutingCache

NoEdit == -1     \* an updated_at left out

\* readyResponse, and the status of the two short answers.
Report ==
  [status : {"none", "ready", "routing_not_configured", "redis_unavailable",
             "jwks_unavailable"},
   routingConfigured : BOOLEAN, routingUpdatedAt : RC!Version \cup {NoEdit},
   manifestConfigured : BOOLEAN, manifestUpdatedAt : PlatformEdit \cup {NoEdit}]
Blank ==
  [status |-> "none", routingConfigured |-> FALSE, routingUpdatedAt |-> NoEdit,
   manifestConfigured |-> FALSE, manifestUpdatedAt |-> NoEdit]

ASSUME EditAssumption == PlatformEdit \subseteq Nat
\* What RoutingCache assumes of its constants.
ASSUME RoutingAssumption ==
  /\ Refresher \notin Handler
  /\ TTL \in Nat \ {0} /\ FetchBound \in Nat \ {0} /\ Horizon \in Nat
  /\ Horizon > TTL + FetchBound /\ Horizon >= 2 * TTL
  /\ MaxVersion \in Nat
  /\ HubEntries \in [RC!Version -> [Model -> {"absent", "incomplete", "complete"}]]

TypeOK ==
  /\ RC!TypeOK
  /\ redisUp \in BOOLEAN /\ hasKeys \in BOOLEAN
  /\ platform \in PlatformEdit \cup {NoEdit}
  /\ probe \in [Handler -> {"idle", "redis", "keys", "routing", "platform", "manifest",
                            "service", "answered"}]
  /\ \A h \in Handler : probe[h] # "routing" => pc[h] = "idle"
  /\ gone \in [Handler -> BOOLEAN]
  /\ report \in [Handler -> Report]

Init ==
  /\ RC!Init
  /\ redisUp \in BOOLEAN /\ hasKeys \in BOOLEAN
  /\ platform = NoEdit
  /\ probe = [h \in Handler |-> "idle"]
  /\ gone = [h \in Handler |-> FALSE]
  /\ report = [h \in Handler |-> Blank]

-----------------------------------------------------------------------------
(* The probe *)

GoTo(h, label) == probe' = [probe EXCEPT ![h] = label]

Begin(h) ==
  /\ probe[h] = "idle"
  /\ GoTo(h, "redis")
  /\ UNCHANGED <<routingVars, depVars, gone, report>>

\* The answer without a body but for its status.
Unavailable(h, status) ==
  /\ GoTo(h, "answered")
  /\ report' = [report EXCEPT ![h].status = status]

\* Mutant: the probe waits for Redis.
MutantPingRedis(h) ==
  /\ probe[h] = "redis"
  /\ redisUp
  /\ GoTo(h, "keys")
  /\ UNCHANGED <<routingVars, depVars, gone, report>>

\* Limiter.Ping, which fails because of Redis or because the client has gone.
PingRedis(h) ==
  /\ probe[h] = "redis"
  /\ \/ redisUp /\ GoTo(h, "keys") /\ UNCHANGED <<gone, report>>
     \/ /\ Unavailable(h, "redis_unavailable")
        /\ gone' = [gone EXCEPT ![h] = redisUp]
  /\ UNCHANGED <<routingVars, depVars>>

\* JWKS.HasKeys.
CheckKeys(h) ==
  /\ probe[h] = "keys"
  /\ \/ hasKeys /\ GoTo(h, "routing") /\ UNCHANGED report
     \/ ~hasKeys /\ Unavailable(h, "jwks_unavailable")
  /\ UNCHANGED <<routingVars, depVars, gone>>

\* Core.GetRouting begins.
GetRouting(h) ==
  /\ probe[h] = "routing"
  /\ RC!ServeCached(h) \/ RC!MissCache(h)
  /\ UNCHANGED <<depVars, probeVars>>

\* Its fetch fails, because of the Hub or because the client has gone.
FetchFails(h) ==
  /\ RC!FetchFails(h)
  /\ gone' = [gone EXCEPT ![h] = hubUp]
  /\ UNCHANGED <<depVars, probe, report>>

\* GetRouting has returned and RoutingUpdatedAt reads the cache once more.
ReadRouting(h) ==
  /\ probe[h] = "routing" /\ pc[h] = "returned"
  /\ GoTo(h, "platform")
  /\ report' = [report EXCEPT
       ![h].routingConfigured = outcome[h].err = "none" /\ RC!Usable(outcome[h].config) # {},
       ![h].routingUpdatedAt = routing]
  /\ RC!ResolveRoute(h)
  /\ UNCHANGED <<depVars, gone>>

\* PlatformConfigUpdatedAt.
ReadPlatformUpdatedAt(h) ==
  /\ probe[h] = "platform"
  /\ GoTo(h, "manifest")
  /\ report' = [report EXCEPT ![h].manifestUpdatedAt = platform]
  /\ UNCHANGED <<routingVars, depVars, gone>>

\* ManifestConfigured.
ReadManifestConfigured(h) ==
  /\ probe[h] = "manifest"
  /\ GoTo(h, "service")
  /\ report' = [report EXCEPT ![h].manifestConfigured = platform # NoEdit]
  /\ UNCHANGED <<routingVars, depVars, gone>>

\* Mutant: the service is asked for the time instead.
MutantAnswer(h) ==
  /\ probe[h] = "service"
  /\ GoTo(h, "answered")
  /\ report' = [report EXCEPT
       ![h].manifestUpdatedAt = platform,
       ![h].status = IF report[h].routingConfigured THEN "ready"
                     ELSE "routing_not_configured"]
  /\ UNCHANGED <<routingVars, depVars, gone>>

\* Mutant: a proxy without a manifest is not ready.
MutantAnswerManifest(h) ==
  /\ probe[h] = "service"
  /\ GoTo(h, "answered")
  /\ report' = [report EXCEPT
       ![h].manifestConfigured = platform # NoEdit,
       ![h].status = IF report[h].routingConfigured /\ platform # NoEdit THEN "ready"
                     ELSE "routing_not_configured"]
  /\ UNCHANGED <<routingVars, depVars, gone>>

\* YadManifest.Configured reads the same field of the client again; the answer.
Answer(h) ==
  /\ probe[h] = "service"
  /\ GoTo(h, "answered")
  /\ report' = [report EXCEPT
       ![h].manifestConfigured = report[h].manifestConfigured \/ platform # NoEdit,
       ![h].status = IF report[h].routingConfigured THEN "ready"
                     ELSE "routing_not_configured"]
  /\ UNCHANGED <<routingVars, depVars, gone>>

\* The probe's client has its answer.
Finish(h) ==
  /\ probe[h] = "answered"
  /\ GoTo(h, "idle")
  /\ gone' = [gone EXCEPT ![h] = FALSE]
  /\ report' = [report EXCEPT ![h] = Blank]
  /\ UNCHANGED <<routingVars, depVars>>

-----------------------------------------------------------------------------
(* The components it asks *)

\* The steps of RoutingCache that are no probe's own.
RoutingStep ==
  /\ \/ \E p \in RC!Proc :
          \/ RC!HubReplies(p) \/ RC!Fallback(p)
          \/ RC!ReceiveEmpty(p) \/ RC!StoreEmpty(p) \/ RC!StoreRouting(p)
     \/ RC!FetchFails(Refresher)
     \/ RC!BackgroundRefresh \/ RC!PlatformRefreshed
     \/ RC!AdminEdit \/ RC!HubFlips \/ RC!Tick
  /\ UNCHANGED <<depVars, probeVars>>

RedisFlips ==
  /\ redisUp' = ~redisUp
  /\ UNCHANGED <<routingVars, hasKeys, platform, probeVars>>

\* JwksCache: StoreKeys.
KeysArrive ==
  /\ hasKeys' = TRUE
  /\ UNCHANGED <<routingVars, redisUp, platform, probeVars>>

\* YadManifest: StoreConfig, of the background loop or a request.
PlatformStored ==
  /\ platform' \in PlatformEdit
  /\ UNCHANGED <<routingVars, redisUp, hasKeys, probeVars>>

-----------------------------------------------------------------------------
ProbeStep(h) ==
  \/ PingRedis(h) \/ CheckKeys(h) \/ GetRouting(h) \/ ReadRouting(h)
  \/ ReadPlatformUpdatedAt(h) \/ ReadManifestConfigured(h) \/ Answer(h)

Next ==
  \/ \E h \in Handler : Begin(h) \/ ProbeStep(h) \/ FetchFails(h) \/ Finish(h)
  \/ RoutingStep \/ RedisFlips \/ KeysArrive \/ PlatformStored

Spec == Init /\ [][Next]_vars

\* As in RoutingCache; and a goroutine that serves a probe runs.
Fairness ==
  /\ \A h \in Handler :
       WF_vars(ProbeStep(h)) /\ WF_vars(RC!FetchStep(h) /\ Next)
  /\ WF_vars(RC!FetchStep(Refresher) /\ RoutingStep)
  /\ WF_vars(RC!BackgroundRefresh /\ RoutingStep)
  /\ WF_vars(RC!PlatformRefreshed /\ RoutingStep)
  /\ WF_vars(RC!Tick /\ RoutingStep)

FairSpec == Spec /\ Fairness

-----------------------------------------------------------------------------
(* Properties *)

\* What a probe has pieced together out of readings of different moments is
\* never absurd: a ready proxy names the time of its routing and has keys, and
\* a manifest that has a time is configured.
ReportIsConsistent ==
  \A h \in Handler :
    probe[h] = "answered" =>
      /\ report[h].status = "ready" => hasKeys /\ report[h].routingUpdatedAt # NoEdit
      /\ report[h].manifestUpdatedAt # NoEdit => report[h].manifestConfigured

\* Every probe is answered.
ProbesEnd == \A h \in Handler : probe[h] # "idle" ~> probe[h] = "answered"

\* When the Hub and Redis stay up, the keys are there and the admin's last edit
\* is usable, every client that waits for its answer is in the end told "ready".
ProbesConverge ==
  baseUrlOk /\ <>[](hubUp /\ redisUp /\ hasKeys /\ RC!Usable(hubVersion) # {}) =>
    <>[][\A h \in Handler :
           probe[h] # "answered" /\ probe'[h] = "answered" /\ ~gone'[h]
             => report'[h].status = "ready"]_vars
=============================================================================
