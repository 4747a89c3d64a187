----------------------------- MODULE YadManifest -----------------------------
(***************************************************************************)
(* GET /v1/yad/manifest: yadmanifest.Service over the platform             *)
(* configuration of coreclient.Client (internal/yadmanifest/service.go,    *)
(* internal/handler/yad_manifest.go, internal/coreclient/client.go).       *)
(*                                                                         *)
(* Service.Get asks the client for the platform configuration, which names *)
(* the URL of the manifest, and then looks into its own cache or fetches   *)
(* from that URL.  Two caches with two mutexes, and no lock is held during *)
(* a fetch or between the two: requests and the background loop of the     *)
(* client overlap freely.  Each action is one critical section or one      *)
(* event of a fetch.                                                       *)
(*                                                                         *)
(* Data.  A platform configuration is the number of the admin edit that    *)
(* made it; its UpdatedAt tells it from all others, so the edit stands for *)
(* configKey too.  A manifest is the edit from whose URL it was fetched.   *)
(* platformFetchErr is left out: it only decides which error is returned,  *)
(* and Get takes all errors alike.                                         *)
(***************************************************************************)
EXTENDS Integers

CONSTANTS
  Handler,      \* request goroutines
  Refresher,    \* the goroutine of StartBackgroundRefresh
  MaxVersion,   \* bound: number of admin edits in a behaviour
  ManifestURL,  \* ManifestURL[v]: "none", "bad" (no request can be built) or "ok"
  ConfigTTL,    \* Client.cacheTTL
  ManifestTTL,  \* Service.cacheTTL
  HubBound,     \* longest time from asking the Hub to storing its answer
  CdnBound,     \* longest time from holding a configuration to answering
  Horizon       \* age at which supersededFor stops growing

Proc == Handler \cup {Refresher}
Version == 0..MaxVersion
NoVersion == -1     \* the zero PlatformConfig{} or Manifest{}

\* How long after its replacement an edit may still be held by a handler,
\* and a manifest of it be the answer.
ConfigStaleness == 2 * ConfigTTL + HubBound
ManifestStaleness == ConfigStaleness + CdnBound + 2 * ManifestTTL

ASSUME ProcAssumption == Refresher \notin Handler
ASSUME TimeAssumption ==
  /\ ConfigTTL \in Nat \ {0} /\ ManifestTTL \in Nat \ {0}
  /\ HubBound \in Nat \ {0} /\ CdnBound \in Nat \ {0}
  /\ Horizon \in Nat /\ Horizon > ManifestStaleness
ASSUME VersionAssumption ==
  /\ MaxVersion \in Nat
  /\ ManifestURL \in [Version -> {"none", "bad", "ok"}]

VARIABLES
  hubVersion,     \* the configuration the Hub holds now
  hubUp,          \* the Hub answers 200 within the HTTP client's timeout
  supersededFor,  \* supersededFor[v]: time since edit v was replaced
  baseUrlOk,      \* c.baseURL parses; fixed when the process starts
  cdnValid,       \* the upstream manifest passes validateManifest
  platform,       \* c.platformCfg (and c.platformUpdatedAt)
  sinceConfig,    \* age of c.platformLastFetch
  manifest,       \* s.manifest
  configKey,      \* s.configKey
  sinceManifest,  \* age of s.lastFetch; s.expiresAt = s.lastFetch + cacheTTL
  pc,             \* where each goroutine is
  clock,          \* time each goroutine has spent on its present fetch
  held,           \* the platform configuration in a handler's hands
  response,       \* the configuration in each goroutine's reply
  outcome         \* a handler's answer

hubVars == <<hubVersion, hubUp, supersededFor, baseUrlOk, cdnValid>>
configVars == <<platform, sinceConfig>>
manifestVars == <<manifest, configKey, sinceManifest>>
procVars == <<pc, clock, held, response, outcome>>
vars == <<hubVars, configVars, manifestVars, procVars>>

Nothing == [status |-> 0, manifest |-> NoVersion]
Outcome == [status : {0, 200, 502, 503}, manifest : Version \cup {NoVersion}]

\* A goroutine is busy with the Hub, or with the manifest.
AskingHub == {"sent", "replied", "fallback"}
Serving == {"check", "fetch", "got", "noConfig", "noManifest", "badManifest"}

TypeOK ==
  /\ hubVersion \in Version
  /\ hubUp \in BOOLEAN
  /\ supersededFor \in [Version -> 0..Horizon]
  /\ baseUrlOk \in BOOLEAN
  /\ cdnValid \in BOOLEAN
  /\ platform \in Version \cup {NoVersion}
  /\ sinceConfig \in 0..(2 * ConfigTTL)
  /\ manifest \in Version \cup {NoVersion}
  /\ configKey \in Version \cup {NoVersion}
  /\ sinceManifest \in 0..(2 * ManifestTTL)
  /\ pc \in [Proc -> {"idle", "returned"} \cup AskingHub \cup Serving]
  /\ pc[Refresher] \in {"idle"} \cup AskingHub
  /\ clock \in [Proc -> Nat]
  /\ \A p \in Proc : clock[p] <= (IF pc[p] \in AskingHub THEN HubBound ELSE CdnBound)
  /\ held \in [Handler -> Version \cup {NoVersion}]
  /\ response \in [Proc -> Version \cup {NoVersion}]
  /\ outcome \in [Handler -> Outcome]

Init ==
  /\ hubVersion = 0
  /\ hubUp \in BOOLEAN
  /\ supersededFor = [v \in Version |-> 0]
  /\ baseUrlOk \in BOOLEAN
  /\ cdnValid \in BOOLEAN
  /\ platform = NoVersion
  /\ sinceConfig = 2 * ConfigTTL        \* the zero time.Time
  /\ manifest = NoVersion
  /\ configKey = NoVersion
  /\ sinceManifest = 2 * ManifestTTL
  /\ pc = [p \in Proc |-> "idle"]
  /\ clock = [p \in Proc |-> 0]
  /\ held = [h \in Handler |-> NoVersion]
  /\ response = [p \in Proc |-> NoVersion]
  /\ outcome = [h \in Handler |-> Nothing]

-----------------------------------------------------------------------------
(* The platform configuration *)

\* GetPlatformConfig or refreshPlatformConfig returns: a handler goes on with
\* the configuration, or with an error (NoVersion); the Refresher drops both.
GotConfig(p, v) ==
  /\ clock' = [clock EXCEPT ![p] = 0]
  /\ response' = [response EXCEPT ![p] = NoVersion]
  /\ \/ /\ p \in Handler
        /\ pc' = [pc EXCEPT ![p] = IF v = NoVersion THEN "noConfig" ELSE "check"]
        /\ held' = [held EXCEPT ![p] = v]
     \/ /\ p = Refresher
        /\ pc' = [pc EXCEPT ![p] = "idle"]
        /\ UNCHANGED held
  /\ UNCHANGED outcome

\* GetPlatformConfig: the cached configuration is young enough.
ConfigIsFresh == platform # NoVersion /\ sinceConfig <= ConfigTTL

\* Service.Get begins and GetPlatformConfig finds a configuration.
ServeConfig(h) ==
  /\ pc[h] = "idle"
  /\ ConfigIsFresh
  /\ GotConfig(h, platform)
  /\ UNCHANGED <<hubVars, configVars, manifestVars>>

\* The head of refreshPlatformConfig: build the request and send it.
AskHub(p) ==
  /\ \/ /\ baseUrlOk
        /\ pc' = [pc EXCEPT ![p] = "sent"]
        /\ UNCHANGED <<clock, held, response, outcome>>
     \/ /\ ~baseUrlOk
        /\ GotConfig(p, NoVersion)
  /\ UNCHANGED <<hubVars, configVars, manifestVars>>

\* Service.Get begins and GetPlatformConfig finds the cache old or empty.
MissConfig(h) == pc[h] = "idle" /\ ~ConfigIsFresh /\ AskHub(h)

\* The background loop, after its refreshRouting.  Its ticker is modelled in
\* RoutingCache; here it may come round at any time.
BackgroundRefresh == pc[Refresher] = "idle" /\ AskHub(Refresher)

\* Mutant: an HTTP client without a timeout waits for a Hub that is silent.
MutantConfigFails(p) ==
  /\ pc[p] = "replied"
  /\ ~hubUp \/ p \in Handler
  /\ pc' = [pc EXCEPT ![p] = "fallback"]
  /\ UNCHANGED <<hubVars, configVars, manifestVars, clock, held, response, outcome>>

\* Transport error, status other than 200, a body that is not JSON, the
\* timeout or (for a handler) the client going away.
ConfigFails(p) ==
  /\ pc[p] \in {"sent", "replied"}
  /\ ~hubUp \/ p \in Handler
  /\ pc' = [pc EXCEPT ![p] = "fallback"]
  /\ UNCHANGED <<hubVars, configVars, manifestVars, clock, held, response, outcome>>

\* A reply without a manifest URL is an error too; the cache keeps the last
\* configuration that has one.
ConfigWithoutURL(p) ==
  /\ pc[p] = "replied"
  /\ ManifestURL[response[p]] = "none"
  /\ pc' = [pc EXCEPT ![p] = "fallback"]
  /\ UNCHANGED <<hubVars, configVars, manifestVars, clock, held, response, outcome>>

StoreConfig(p) ==
  /\ pc[p] = "replied"
  /\ ManifestURL[response[p]] # "none"
  /\ platform' = response[p]
  /\ sinceConfig' = 0
  /\ GotConfig(p, response[p])
  /\ UNCHANGED <<hubVars, manifestVars>>

\* Mutant: a configuration once fetched is good for ever.
MutantConfigIsUsable == platform # NoVersion

\* getCachedPlatformOrError: twice the TTL.
ConfigIsUsable == platform # NoVersion /\ sinceConfig < 2 * ConfigTTL

\* getCachedPlatformOrError, in a critical section of its own.
ConfigFallback(p) ==
  /\ pc[p] = "fallback"
  /\ GotConfig(p, IF ConfigIsUsable THEN platform ELSE NoVersion)
  /\ UNCHANGED <<hubVars, configVars, manifestVars>>

-----------------------------------------------------------------------------
(* The manifest *)

\* Handle writes the answer.
Answer(h, status, v) ==
  /\ pc' = [pc EXCEPT ![h] = "returned"]
  /\ clock' = [clock EXCEPT ![h] = 0]
  /\ held' = [held EXCEPT ![h] = NoVersion]
  /\ outcome' = [outcome EXCEPT ![h] = [status |-> status, manifest |-> v]]
  /\ UNCHANGED response

GoTo(h, label) ==
  /\ pc' = [pc EXCEPT ![h] = label]
  /\ UNCHANGED <<clock, held, response, outcome>>

\* Get finds a young manifest of the configuration it holds.
CacheHits(h) ==
  manifest # NoVersion /\ sinceManifest < ManifestTTL /\ configKey = held[h]

CheckCache(h) ==
  /\ pc[h] = "check"
  /\ \/ CacheHits(h) /\ Answer(h, 200, manifest)
     \/ ~CacheHits(h) /\ GoTo(h, "fetch")
  /\ UNCHANGED <<hubVars, configVars, manifestVars>>

\* fetchAndValidate: the upstream answers with a manifest, which is valid ...
CdnReplies(h) ==
  /\ pc[h] = "fetch"
  /\ ManifestURL[held[h]] = "ok"
  /\ GoTo(h, IF cdnValid THEN "got" ELSE "badManifest")
  /\ UNCHANGED <<hubVars, configVars, manifestVars>>

\* ... or fails: bad URL, transport error, status, timeout, client gone.
CdnFails(h) ==
  /\ pc[h] = "fetch"
  /\ GoTo(h, "noManifest")
  /\ UNCHANGED <<hubVars, configVars, manifestVars>>

\* Mutant: the key is taken from the configuration of the moment.
MutantStoreManifest(h) ==
  /\ pc[h] = "got"
  /\ manifest' = held[h]
  /\ configKey' = platform
  /\ sinceManifest' = 0
  /\ Answer(h, 200, held[h])
  /\ UNCHANGED <<hubVars, configVars>>

StoreManifest(h) ==
  /\ pc[h] = "got"
  /\ manifest' = held[h]
  /\ configKey' = held[h]
  /\ sinceManifest' = 0
  /\ Answer(h, 200, held[h])
  /\ UNCHANGED <<hubVars, configVars>>

\* Mutant: cachedOrError hands out whatever there is.
MutantManifestIsUsable == manifest # NoVersion

\* cachedOrError: twice the TTL, whatever configuration it belongs to.
ManifestIsUsable == manifest # NoVersion /\ sinceManifest < 2 * ManifestTTL

\* cachedOrError after an error of either fetch; Handle turns the error into a
\* status.
UseCached(h) ==
  /\ pc[h] \in {"noConfig", "noManifest", "badManifest"}
  /\ \/ ManifestIsUsable /\ Answer(h, 200, manifest)
     \/ ~ManifestIsUsable /\ Answer(h, IF pc[h] = "badManifest" THEN 502 ELSE 503,
                                    NoVersion)
  /\ UNCHANGED <<hubVars, configVars, manifestVars>>

\* The client has its answer; the goroutine can serve another request.
Finish(h) ==
  /\ pc[h] = "returned"
  /\ pc' = [pc EXCEPT ![h] = "idle"]
  /\ outcome' = [outcome EXCEPT ![h] = Nothing]
  /\ UNCHANGED <<hubVars, configVars, manifestVars, clock, held, response>>

-----------------------------------------------------------------------------
(* The Hub, the upstream and time *)

HubReplies(p) ==
  /\ pc[p] = "sent"
  /\ hubUp
  /\ response' = [response EXCEPT ![p] = hubVersion]
  /\ pc' = [pc EXCEPT ![p] = "replied"]
  /\ UNCHANGED <<hubVars, configVars, manifestVars, clock, held, outcome>>

AdminEdit ==
  /\ hubVersion < MaxVersion
  /\ hubVersion' = hubVersion + 1
  /\ UNCHANGED <<hubUp, supersededFor, baseUrlOk, cdnValid, configVars,
                 manifestVars, procVars>>

HubFlips ==
  /\ hubUp' = ~hubUp
  /\ UNCHANGED <<hubVersion, supersededFor, baseUrlOk, cdnValid, configVars,
                 manifestVars, procVars>>

CdnFlips ==
  /\ cdnValid' = ~cdnValid
  /\ UNCHANGED <<hubVersion, hubUp, supersededFor, baseUrlOk, configVars,
                 manifestVars, procVars>>

Older(age, cap) == IF age < cap THEN age + 1 ELSE cap

\* Mutant: neither HTTP client has a timeout.
MutantMayWait(p) == TRUE

\* The timeouts of the two HTTP clients bound both kinds of work.
MayWait(p) ==
  /\ pc[p] \in AskingHub => clock[p] < HubBound
  /\ pc[p] \in Serving => clock[p] < CdnBound

Tick ==
  /\ \A p \in Proc : MayWait(p)
  /\ supersededFor' = [v \in Version |->
                         IF v < hubVersion THEN Older(supersededFor[v], Horizon)
                         ELSE 0]
  /\ sinceConfig' = Older(sinceConfig, 2 * ConfigTTL)
  /\ sinceManifest' = Older(sinceManifest, 2 * ManifestTTL)
  /\ clock' = [p \in Proc |-> IF pc[p] \in AskingHub \cup Serving
                              THEN clock[p] + 1 ELSE 0]
  /\ UNCHANGED <<hubVersion, hubUp, baseUrlOk, cdnValid, platform, manifest,
                 configKey, pc, held, response, outcome>>

-----------------------------------------------------------------------------
ConfigStep(p) ==
  \/ HubReplies(p) \/ ConfigFails(p) \/ ConfigWithoutURL(p) \/ StoreConfig(p)
  \/ ConfigFallback(p)

ManifestStep(h) ==
  \/ CheckCache(h) \/ CdnReplies(h) \/ CdnFails(h) \/ StoreManifest(h) \/ UseCached(h)

Next ==
  \/ \E h \in Handler : ServeConfig(h) \/ MissConfig(h) \/ ManifestStep(h) \/ Finish(h)
  \/ \E p \in Proc : ConfigStep(p)
  \/ BackgroundRefresh
  \/ AdminEdit \/ HubFlips \/ CdnFlips \/ Tick

Spec == Init /\ [][Next]_vars

\* Goroutines run, both HTTP clients time out, the ticker fires and time goes
\* on.  Nothing obliges the admin, the Hub, the upstream or the clients.
Fairness ==
  /\ \A p \in Proc : WF_vars(ConfigStep(p))
  /\ \A h \in Handler : WF_vars(ManifestStep(h))
  /\ WF_vars(BackgroundRefresh)
  /\ WF_vars(Tick)

FairSpec == Spec /\ Fairness

-----------------------------------------------------------------------------
(* Properties *)

\* Service.Get: unless a fetch failed, the answer is the manifest of the very
\* configuration the request was given, whatever configurations and manifests
\* other requests store meanwhile.
AnswerMatchesConfig ==
  [][\A h \in Handler :
       pc[h] \in {"check", "got"} /\ pc'[h] = "returned"
         => outcome'[h].manifest = held[h]]_vars

ConfigRegister == INSTANCE StaleRegister
  WITH Reader <- Handler, Bound <- ConfigStaleness, current <- hubVersion,
       handed <- held

ManifestRegister == INSTANCE StaleRegister
  WITH Reader <- Handler, Bound <- ManifestStaleness, current <- hubVersion,
       handed <- [h \in Handler |-> outcome[h].manifest]

\* GetPlatformConfig, with its fallback to a cache of up to twice its TTL, is
\* a register whose readers are never more than ConfigStaleness behind.
ImplementsConfigRegister == ConfigRegister!Spec

\* The whole of GET /v1/yad/manifest is a register too: what two caches, two
\* fallbacks and two fetches add to each other stays below ManifestStaleness,
\* and no manifest is handed out of a configuration the admin never made.
ImplementsManifestRegister == ManifestRegister!Spec

\* Every request is answered, whatever the Hub and the upstream do.
RequestsEnd ==
  \A h \in Handler : pc[h] \in AskingHub \cup Serving ~> pc[h] = "returned"

\* Once the Hub stays reachable, all manifests that are handed out are those
\* of the admin's last edit, if that edit names a URL: a slow request that
\* stores the manifest of an older edit over a newer one does no lasting harm.
ManifestConverges ==
  (baseUrlOk /\ <>[]hubUp) =>
    <>[][\A h \in Handler :
           /\ pc[h] # "returned" /\ pc'[h] = "returned"
           /\ ManifestURL[hubVersion] # "none"
           => outcome'[h].manifest \in {NoVersion, hubVersion}]_vars
=============================================================================
