----------------------------- MODULE ReadyProofs -----------------------------
(***************************************************************************)
(* Proofs about Ready.                                                     *)
(*                                                                         *)
(* Every step of Ready is by its definition a step of RoutingCache or      *)
(* leaves its variables alone (Composes), so what RoutingCacheProofs       *)
(* proves of the cache by itself holds of it under any number of probes:   *)
(* its theorems are used here through RP and not proved again.             *)
(***************************************************************************)
EXTENDS Ready, TLAPS

RP == INSTANCE RoutingCacheProofs

\* Ready is built out of the actions of RoutingCache.
LEMMA Composes == Spec => RC!Spec
<1>1. Init => RC!Init
  BY DEF Init
<1>2. [Next]_vars => [RC!Next]_RC!vars
  BY DEF Next, Begin, ProbeStep, PingRedis, CheckKeys, GetRouting, ReadRouting,
     FetchFails, Finish, Answer, Unavailable, ReadPlatformUpdatedAt,
     ReadManifestConfigured, RoutingStep, RedisFlips, KeysArrive, PlatformStored, vars,
     routingVars, RC!Next, RC!HandlerStep, RC!FetchStep, RC!vars, RC!hubVars,
     RC!cacheVars, RC!tickerVars, RC!procVars, RC!Proc
<1> QED
  BY <1>1, <1>2, PTL DEF Spec, RC!Spec

-----------------------------------------------------------------------------
(* The invariants of RoutingCache, in the composition *)

LEMMA RoutingConstants ==
  RP!ProcAssumption /\ RP!TimeAssumption /\ RP!VersionAssumption
BY RoutingAssumption DEF RP!ProcAssumption, RP!TimeAssumption, RP!VersionAssumption,
   RC!Version, RP!Version

\* RC and RP are two instances of one module.
LEMMA SameNext == [RC!Next]_RC!vars <=> [RP!Next]_RP!vars
BY DEF RC!Proc, RP!Proc, RC!Version, RP!Version, RC!NoVersion, RP!NoVersion,
     RC!Error, RP!Error, RC!Nothing, RP!Nothing, RC!Outcome, RP!Outcome,
     RC!Usable, RP!Usable, RC!Older, RP!Older, RC!Stale, RP!Stale, RC!Return, RP!Return,
     RC!BeginRefresh, RP!BeginRefresh, RC!ServeCached, RP!ServeCached,
     RC!MissCache, RP!MissCache, RC!BackgroundRefresh, RP!BackgroundRefresh,
     RC!FetchFails, RP!FetchFails, RC!Fallback, RP!Fallback,
     RC!ReceiveEmpty, RP!ReceiveEmpty, RC!StoreEmpty, RP!StoreEmpty,
     RC!StoreRouting, RP!StoreRouting, RC!ResolveRoute, RP!ResolveRoute,
     RC!PlatformRefreshed, RP!PlatformRefreshed, RC!HubReplies, RP!HubReplies,
     RC!AdminEdit, RP!AdminEdit, RC!HubFlips, RP!HubFlips, RC!Tick, RP!Tick,
     RC!HandlerStep, RP!HandlerStep, RC!FetchStep, RP!FetchStep, RC!Next, RP!Next,
     RC!hubVars, RP!hubVars, RC!cacheVars, RP!cacheVars, RC!tickerVars, RP!tickerVars,
     RC!procVars, RP!procVars, RC!vars, RP!vars

LEMMA SameInit == RC!Init <=> RP!Init
BY DEF RC!Init, RP!Init, RC!Proc, RP!Proc, RC!Version, RP!Version, RC!Age, RP!Age,
     RC!NoVersion, RP!NoVersion, RC!Error, RP!Error, RC!Nothing, RP!Nothing,
     RC!Outcome, RP!Outcome, RC!Usable, RP!Usable

LEMMA SameType == RC!TypeOK <=> RP!TypeOK
BY DEF RC!TypeOK, RP!TypeOK, RC!Proc, RP!Proc, RC!Version, RP!Version, RC!Age, RP!Age,
     RC!NoVersion, RP!NoVersion, RC!Error, RP!Error, RC!Nothing, RP!Nothing,
     RC!Outcome, RP!Outcome, RC!Usable, RP!Usable

LEMMA RoutingInvariance == Spec => [](RP!Inv /\ RP!CacheFilled)
<1>1. RC!Spec => RP!Spec
  BY SameNext, SameInit, PTL DEF RC!Spec, RP!Spec
<1>2. RP!Spec => [](RP!Inv /\ RP!CacheFilled)
  BY RoutingConstants, RP!FilledInvariance
<1> QED
  BY <1>1, <1>2, Composes, PTL

-----------------------------------------------------------------------------
(* The properties of RoutingCache, in the composition *)

LEMMA CacheUnderProbes == Spec => RP!Spec
<1>1. RC!Spec => RP!Spec
  BY SameNext, SameInit, PTL DEF RC!Spec, RP!Spec
<1> QED
  BY <1>1, Composes, PTL

LEMMA SameStaleness == RC!StalenessBounded <=> RP!StalenessBounded
<1>1. [\A h \in Handler : RC!Returns(h) /\ outcome'[h].config # RC!NoVersion
         => supersededFor[outcome'[h].config] <= TTL + FetchBound]_RC!vars
      <=> [\A h \in Handler : RP!Returns(h) /\ outcome'[h].config # RP!NoVersion
             => supersededFor[outcome'[h].config] <= TTL + FetchBound]_RP!vars
  BY DEF RC!Returns, RP!Returns, RC!NoVersion, RP!NoVersion, RC!vars, RP!vars,
     RC!hubVars, RP!hubVars, RC!cacheVars, RP!cacheVars, RC!tickerVars, RP!tickerVars,
     RC!procVars, RP!procVars
<1> QED
  BY <1>1, PTL DEF RC!StalenessBounded, RP!StalenessBounded

LEMMA SameRegression == RC!RegressionNeedsOverlap <=> RP!RegressionNeedsOverlap
<1>1. [routing' < routing =>
         \E p \in RC!Proc : /\ pc[p] \in {"replied", "storeEmpty"}
                            /\ routing' = response[p]
                            /\ heldAtSend[p] <= routing']_RC!vars
      <=> [routing' < routing =>
             \E p \in RP!Proc : /\ pc[p] \in {"replied", "storeEmpty"}
                                /\ routing' = response[p]
                                /\ heldAtSend[p] <= routing']_RP!vars
  BY DEF RC!Proc, RP!Proc, RC!vars, RP!vars,
     RC!hubVars, RP!hubVars, RC!cacheVars, RP!cacheVars, RC!tickerVars, RP!tickerVars,
     RC!procVars, RP!procVars
<1> QED
  BY <1>1, PTL DEF RC!RegressionNeedsOverlap, RP!RegressionNeedsOverlap

LEMMA SameEmptyCache == RC!EmptyCacheHasError <=> RP!EmptyCacheHasError
BY DEF RC!EmptyCacheHasError, RP!EmptyCacheHasError, RC!NoVersion, RP!NoVersion,
   RC!Usable, RP!Usable

\* StalenessBounded, RegressionNeedsOverlap and EmptyCacheHasError of
\* RoutingCache, of the cache that any number of probes use as well: a probe
\* neither ages the routing, nor rolls it back, nor leaves a cache that cannot
\* serve without its error.
THEOREM ProbesAreHarmless ==
  Spec => RC!StalenessBounded /\ RC!RegressionNeedsOverlap /\ []RC!EmptyCacheHasError
<1>1. RP!Spec => RP!StalenessBounded
  BY RoutingConstants, RP!StalenessIsBounded
<1>2. RP!Spec => RP!RegressionNeedsOverlap
  BY RoutingConstants, RP!RegressionOnlyByOverlap
<1>3. RP!Spec => []RP!EmptyCacheHasError
  BY RoutingConstants, RP!EmptyCacheAlwaysHasError
<1> QED
  BY <1>1, <1>2, <1>3, CacheUnderProbes, SameStaleness, SameRegression,
     SameEmptyCache, PTL

LEMMA SameRegister == RC!ImplementsRoutingRegister <=> RP!ImplementsRoutingRegister
<1>1. RC!RoutingRegister!Init <=> RP!RoutingRegister!Init
  BY DEF RC!RoutingRegister!Init, RP!RoutingRegister!Init,
     RC!RoutingRegister!Version, RP!RoutingRegister!Version,
     RC!RoutingRegister!Nothing, RP!RoutingRegister!Nothing
<1>2. [RC!RoutingRegister!Next]_RC!RoutingRegister!vars
        <=> [RP!RoutingRegister!Next]_RP!RoutingRegister!vars
  BY DEF RC!RoutingRegister!Next, RP!RoutingRegister!Next,
     RC!RoutingRegister!Edit, RP!RoutingRegister!Edit,
     RC!RoutingRegister!TimePasses, RP!RoutingRegister!TimePasses,
     RC!RoutingRegister!Serve, RP!RoutingRegister!Serve,
     RC!RoutingRegister!Release, RP!RoutingRegister!Release,
     RC!RoutingRegister!Older, RP!RoutingRegister!Older,
     RC!RoutingRegister!Version, RP!RoutingRegister!Version,
     RC!RoutingRegister!Nothing, RP!RoutingRegister!Nothing,
     RC!RoutingRegister!vars, RP!RoutingRegister!vars
<1> QED
  BY <1>1, <1>2, PTL DEF RC!ImplementsRoutingRegister, RP!ImplementsRoutingRegister,
     RC!RoutingRegister!Spec, RP!RoutingRegister!Spec

\* ImplementsRoutingRegister of RoutingCache, likewise: Ready implements
\* RoutingCache, which implements StaleRegister.
THEOREM ProbedCacheIsRegister == Spec => RC!ImplementsRoutingRegister
<1>1. RP!Spec => RP!ImplementsRoutingRegister
  BY RoutingConstants, RP!RoutingCacheIsRegister
<1> QED
  BY <1>1, CacheUnderProbes, SameRegister, PTL

-----------------------------------------------------------------------------
(* Reports *)

\* What a probe has read so far fits together, and fits what it will read next:
\* keys and configurations, once there, stay.
Consistent(h) ==
  /\ probe[h] \in {"idle", "redis", "keys"} => report[h] = Blank
  /\ probe[h] \in {"routing", "platform", "manifest", "service"} => hasKeys
  /\ report[h].routingConfigured => report[h].routingUpdatedAt # NoEdit
  /\ report[h].status = "ready" =>
       probe[h] = "answered" /\ report[h].routingConfigured /\ hasKeys
  /\ report[h].manifestUpdatedAt # NoEdit =>
       /\ platform # NoEdit
       /\ probe[h] = "answered" => report[h].manifestConfigured

\* The part of TypeOK that is not of RoutingCache.
ProbeType ==
  /\ redisUp \in BOOLEAN /\ hasKeys \in BOOLEAN
  /\ platform \in PlatformEdit \cup {NoEdit}
  /\ probe \in [Handler -> {"idle", "redis", "keys", "routing", "platform", "manifest",
                            "service", "answered"}]
  /\ \A h \in Handler : probe[h] # "routing" => pc[h] = "idle"
  /\ gone \in [Handler -> BOOLEAN]
  /\ report \in [Handler -> Report]

ReadyInv == ProbeType /\ \A h \in Handler : Consistent(h)

LEMMA BlankType == Blank \in Report
BY DEF Blank, Report

\* A step of one probe that leaves the rest of the proxy alone.
OneProbe(h) ==
  /\ UNCHANGED <<redisUp, hasKeys, platform>>
  /\ \A g \in Handler \ {h} :
       probe'[g] = probe[g] /\ report'[g] = report[g] /\ pc'[g] = pc[g]

LEMMA OneProbeKeeps ==
  ASSUME ReadyInv, NEW h \in Handler, OneProbe(h),
         probe' \in [Handler -> {"idle", "redis", "keys", "routing", "platform",
                                 "manifest", "service", "answered"}],
         gone' \in [Handler -> BOOLEAN], report' \in [Handler -> Report],
         probe'[h] # "routing" => pc'[h] = "idle",
         Consistent(h)'
  PROVE  ReadyInv'
<1>1. ProbeType'
  BY DEF ReadyInv, ProbeType, OneProbe
<1>2. ASSUME NEW g \in Handler \ {h} PROVE Consistent(g)'
  <2>1. Consistent(g)
    BY DEF ReadyInv
  <2> QED
    BY <2>1 DEF Consistent, OneProbe
<1> QED
  BY <1>1, <1>2 DEF ReadyInv

\* A step that is no probe's and only adds keys or a platform configuration.
LEMMA QuietKeeps ==
  ASSUME ReadyInv, UNCHANGED <<probe, gone, report>>,
         redisUp' \in BOOLEAN, hasKeys' \in BOOLEAN, hasKeys => hasKeys',
         platform' \in PlatformEdit \cup {NoEdit},
         platform # NoEdit => platform' # NoEdit,
         \A h \in Handler : probe[h] # "routing" => pc'[h] = "idle"
  PROVE  ReadyInv'
<1>1. ProbeType'
  BY DEF ReadyInv, ProbeType
<1>2. ASSUME NEW h \in Handler PROVE Consistent(h)'
  BY DEF ReadyInv, Consistent
<1> QED
  BY <1>1, <1>2 DEF ReadyInv

\* A fetch belongs to a goroutine that is not idle.
LEMMA RoutingStepKeepsIdle ==
  ASSUME RC!TypeOK, ReadyInv, RoutingStep, NEW h \in Handler, pc[h] = "idle"
  PROVE  pc'[h] = "idle"
<1>1. h # Refresher /\ h \in RC!Proc
  BY RoutingAssumption DEF RC!Proc
<1>2. ASSUME NEW p \in RC!Proc, RC!HubReplies(p) PROVE pc'[h] = "idle"
  BY <1>1, <1>2 DEF RC!HubReplies, RC!TypeOK
<1>3. ASSUME NEW p \in RC!Proc, NEW c, NEW e, RC!Return(p, c, e), pc[p] # "idle"
      PROVE  pc'[h] = "idle"
  BY <1>1, <1>3 DEF RC!Return, RC!TypeOK
<1>4. ASSUME NEW p \in RC!Proc,
             RC!Fallback(p) \/ RC!StoreEmpty(p) \/ RC!StoreRouting(p)
      PROVE  pc'[h] = "idle"
  BY <1>3, <1>4 DEF RC!Fallback, RC!StoreEmpty, RC!StoreRouting
<1>5. ASSUME NEW p \in RC!Proc, RC!ReceiveEmpty(p) \/ RC!FetchFails(p)
      PROVE  pc'[h] = "idle"
  BY <1>1, <1>5 DEF RC!ReceiveEmpty, RC!FetchFails, RC!TypeOK
<1>6. CASE RC!BackgroundRefresh
  BY <1>1, <1>6 DEF RC!BackgroundRefresh, RC!BeginRefresh, RC!Return, RC!TypeOK
<1>7. CASE RC!PlatformRefreshed
  BY <1>1, <1>7 DEF RC!PlatformRefreshed, RC!TypeOK
<1>8. CASE RC!AdminEdit \/ RC!HubFlips \/ RC!Tick
  BY <1>8 DEF RC!AdminEdit, RC!HubFlips, RC!Tick, RC!procVars
<1> QED
  BY <1>2, <1>4, <1>5, <1>6, <1>7, <1>8 DEF RoutingStep, RC!Proc

\* The client's steps keep the rest of pc.
LEMMA CallerSteps ==
  ASSUME RC!TypeOK, NEW h \in Handler,
         RC!ServeCached(h) \/ RC!MissCache(h) \/ RC!FetchFails(h) \/ RC!ResolveRoute(h)
  PROVE  /\ \A g \in Handler \ {h} : pc'[g] = pc[g]
         /\ RC!ResolveRoute(h) => pc'[h] = "idle"
<1>1. h \in RC!Proc
  BY DEF RC!Proc
<1> QED
  BY <1>1 DEF RC!ServeCached, RC!MissCache, RC!BeginRefresh, RC!Return, RC!FetchFails,
     RC!ResolveRoute, RC!TypeOK, RC!Proc

\* GetRouting's result names a configuration only if the cache has one.
LEMMA ReadRoutingReport ==
  ASSUME RC!TypeOK, RP!CacheFilled, ReadyInv, NEW h \in Handler, ReadRouting(h)
  PROVE  /\ report' \in [Handler -> Report]
         /\ report'[h].routingConfigured => report'[h].routingUpdatedAt # NoEdit
         /\ report'[h].status = report[h].status
         /\ report'[h].manifestConfigured = report[h].manifestConfigured
         /\ report'[h].manifestUpdatedAt = report[h].manifestUpdatedAt
         /\ \A g \in Handler \ {h} : report'[g] = report[g]
<1> DEFINE configured ==
      outcome[h].err = "none" /\ RC!Usable(outcome[h].config) # {}
<1>1. configured \in BOOLEAN
  OBVIOUS
<1>2. routing \in RC!Version \cup {NoEdit}
  BY DEF RC!TypeOK, RC!NoVersion, NoEdit
<1>3. configured => routing # NoEdit
  <2>1. RC!Usable(RC!NoVersion) = {}
    BY DEF RC!Usable
  <2>2. configured => outcome[h].config # RC!NoVersion
    BY <2>1
  <2> QED
    BY <2>2 DEF RP!CacheFilled, RP!NoVersion, RC!NoVersion, NoEdit
<1>4. report' = [report EXCEPT ![h].routingConfigured = configured,
                               ![h].routingUpdatedAt = routing]
  BY DEF ReadRouting
<1>5. report \in [Handler -> Report]
  BY DEF ReadyInv, ProbeType
<1> HIDE DEF configured
<1> QED
  BY <1>1, <1>2, <1>3, <1>4, <1>5 DEF Report

LEMMA ReadyInvStep ==
  RC!TypeOK /\ RP!CacheFilled /\ ReadyInv /\ [Next]_vars => ReadyInv'
<1> SUFFICES ASSUME RC!TypeOK, RP!CacheFilled, ReadyInv, [Next]_vars PROVE ReadyInv'
  OBVIOUS
<1> USE DEF NoEdit
<1>0. /\ report \in [Handler -> Report] /\ gone \in [Handler -> BOOLEAN]
      /\ probe \in [Handler -> {"idle", "redis", "keys", "routing", "platform",
                                "manifest", "service", "answered"}]
      /\ \A h \in Handler : Consistent(h) /\ (probe[h] # "routing" => pc[h] = "idle")
  BY DEF ReadyInv, ProbeType
<1>1. ASSUME NEW h \in Handler, Begin(h) PROVE ReadyInv'
  <2>1. OneProbe(h) /\ pc'[h] = "idle"
    BY <1>0, <1>1 DEF Begin, GoTo, OneProbe, depVars, routingVars
  <2>2. Consistent(h)'
    BY <1>0, <1>1 DEF Begin, GoTo, Consistent, Blank
  <2> QED
    BY <1>0, <1>1, <2>1, <2>2, OneProbeKeeps DEF Begin, GoTo
<1>2. ASSUME NEW h \in Handler, NEW status \in {"redis_unavailable", "jwks_unavailable"},
             probe[h] \in {"redis", "keys"}, Unavailable(h, status),
             gone' \in [Handler -> BOOLEAN], UNCHANGED <<routingVars, depVars>>
      PROVE  ReadyInv'
  <2>1. OneProbe(h) /\ pc'[h] = "idle"
    BY <1>0, <1>2 DEF Unavailable, GoTo, OneProbe, depVars, routingVars
  <2>a. report[h] = Blank
    BY <1>0, <1>2 DEF Consistent
  <2>b. report' = [report EXCEPT ![h].status = status] /\ probe'[h] = "answered"
    BY <1>0, <1>2 DEF Unavailable, GoTo
  <2>2. /\ report'[h].status = status
        /\ report'[h].routingConfigured = report[h].routingConfigured
        /\ report'[h].manifestUpdatedAt = report[h].manifestUpdatedAt
        /\ probe'[h] = "answered" /\ report' \in [Handler -> Report]
    BY <1>0, <2>b, status \in {"redis_unavailable", "jwks_unavailable"} DEF Report
  <2>3. Consistent(h)'
    BY <2>a, <2>2, <1>2 DEF Consistent, Blank
  <2> QED
    BY <1>0, <1>2, <2>1, <2>2, <2>3, OneProbeKeeps DEF Unavailable, GoTo
<1>3. ASSUME NEW h \in Handler, probe[h] \in {"redis", "keys"}, UNCHANGED report,
             GoTo(h, "keys") \/ (GoTo(h, "routing") /\ hasKeys),
             UNCHANGED gone, UNCHANGED <<routingVars, depVars>>
      PROVE  ReadyInv'
  <2>1. OneProbe(h) /\ pc'[h] = "idle"
    BY <1>0, <1>3 DEF GoTo, OneProbe, depVars, routingVars
  <2>2. Consistent(h)'
    BY <1>0, <1>3 DEF GoTo, Consistent, Blank, depVars
  <2> QED
    BY <1>0, <1>3, <2>1, <2>2, OneProbeKeeps DEF GoTo
<1>4. ASSUME NEW h \in Handler, PingRedis(h) PROVE ReadyInv'
  <2>1. redisUp \in BOOLEAN
    BY DEF ReadyInv, ProbeType
  <2> QED
    BY <1>0, <1>2, <1>3, <1>4, <2>1 DEF PingRedis
<1>5. ASSUME NEW h \in Handler, CheckKeys(h) PROVE ReadyInv'
  BY <1>0, <1>2, <1>3, <1>5 DEF CheckKeys
<1>6. ASSUME NEW h \in Handler, probe[h] = "routing", UNCHANGED <<probe, report>>,
             RC!ServeCached(h) \/ RC!MissCache(h) \/ RC!FetchFails(h),
             gone' \in [Handler -> BOOLEAN], UNCHANGED depVars
      PROVE  ReadyInv'
  <2>1. OneProbe(h)
    BY <1>6, CallerSteps DEF OneProbe, depVars
  <2>2. Consistent(h)'
    BY <1>0, <1>6 DEF Consistent, depVars
  <2> QED
    BY <1>0, <1>6, <2>1, <2>2, OneProbeKeeps
<1>7. ASSUME NEW h \in Handler, GetRouting(h) PROVE ReadyInv'
  BY <1>0, <1>6, <1>7 DEF GetRouting, probeVars
<1>8. ASSUME NEW h \in Handler, FetchFails(h) PROVE ReadyInv'
  <2>1. probe[h] = "routing"
    BY <1>0, <1>8 DEF FetchFails, RC!FetchFails
  <2>2. hubUp \in BOOLEAN
    BY DEF RC!TypeOK
  <2> QED
    BY <1>0, <1>6, <1>8, <2>1, <2>2 DEF FetchFails
<1>9. ASSUME NEW h \in Handler, ReadRouting(h) PROVE ReadyInv'
  <2>1. OneProbe(h) /\ pc'[h] = "idle"
    BY <1>0, <1>9, CallerSteps, ReadRoutingReport
       DEF ReadRouting, GoTo, OneProbe, depVars
  <2>a. /\ report'[h].routingConfigured => report'[h].routingUpdatedAt # NoEdit
        /\ report'[h].status = report[h].status
        /\ report'[h].manifestUpdatedAt = report[h].manifestUpdatedAt
    BY <1>9, ReadRoutingReport
  <2>b. report[h].status # "ready"
    BY <1>0, <1>9 DEF ReadRouting, Consistent
  <2>2. Consistent(h)'
    BY <1>0, <1>9, <2>a, <2>b DEF ReadRouting, GoTo, Consistent, depVars
  <2> QED
    BY <1>0, <1>9, <2>1, <2>2, ReadRoutingReport, OneProbeKeeps DEF ReadRouting, GoTo
<1>10. ASSUME NEW h \in Handler, ReadPlatformUpdatedAt(h) PROVE ReadyInv'
  <2>1. OneProbe(h) /\ pc'[h] = "idle"
    BY <1>0, <1>10 DEF ReadPlatformUpdatedAt, GoTo, OneProbe, depVars, routingVars
  <2>2. platform \in PlatformEdit \cup {NoEdit}
    BY DEF ReadyInv, ProbeType
  <2>3. /\ report' \in [Handler -> Report]
        /\ report'[h].routingConfigured = report[h].routingConfigured
        /\ report'[h].routingUpdatedAt = report[h].routingUpdatedAt
        /\ report'[h].status = report[h].status
        /\ report'[h].manifestUpdatedAt = platform
    BY <1>0, <1>10, <2>2 DEF ReadPlatformUpdatedAt, Report
  <2>4. Consistent(h)'
    BY <1>0, <1>10, <2>3 DEF ReadPlatformUpdatedAt, GoTo, Consistent, depVars
  <2> QED
    BY <1>0, <1>10, <2>1, <2>3, <2>4, OneProbeKeeps DEF ReadPlatformUpdatedAt, GoTo
<1>11. ASSUME NEW h \in Handler, ReadManifestConfigured(h) PROVE ReadyInv'
  <2>1. OneProbe(h) /\ pc'[h] = "idle"
    BY <1>0, <1>11 DEF ReadManifestConfigured, GoTo, OneProbe, depVars, routingVars
  <2> DEFINE configured == platform # NoEdit
  <2>a. report' = [report EXCEPT ![h].manifestConfigured = configured]
    BY <1>11 DEF ReadManifestConfigured
  <2>b. configured \in BOOLEAN
    OBVIOUS
  <2> HIDE DEF configured
  <2>2. /\ report' \in [Handler -> Report]
        /\ report'[h].routingConfigured = report[h].routingConfigured
        /\ report'[h].routingUpdatedAt = report[h].routingUpdatedAt
        /\ report'[h].status = report[h].status
        /\ report'[h].manifestUpdatedAt = report[h].manifestUpdatedAt
    BY <1>0, <2>a, <2>b DEF Report
  <2>3. Consistent(h)'
    BY <1>0, <1>11, <2>2 DEF ReadManifestConfigured, GoTo, Consistent, depVars
  <2> QED
    BY <1>0, <1>11, <2>1, <2>2, <2>3, OneProbeKeeps DEF ReadManifestConfigured, GoTo
<1>12. ASSUME NEW h \in Handler, Answer(h) PROVE ReadyInv'
  <2>1. OneProbe(h) /\ pc'[h] = "idle"
    BY <1>0, <1>12 DEF Answer, GoTo, OneProbe, depVars, routingVars
  <2> DEFINE status == IF report[h].routingConfigured THEN "ready"
                       ELSE "routing_not_configured"
             manifest == report[h].manifestConfigured \/ platform # NoEdit
  <2>2. /\ status \in {"ready", "routing_not_configured"} /\ manifest \in BOOLEAN
        /\ status = "ready" => report[h].routingConfigured
        /\ platform # NoEdit => manifest
    OBVIOUS
  <2>3. report' = [report EXCEPT ![h].manifestConfigured = manifest,
                                 ![h].status = status]
    BY <1>12 DEF Answer
  <2> HIDE DEF status, manifest
  <2>4. /\ report' \in [Handler -> Report]
        /\ report'[h].routingConfigured = report[h].routingConfigured
        /\ report'[h].routingUpdatedAt = report[h].routingUpdatedAt
        /\ report'[h].status = status
        /\ report'[h].manifestConfigured = manifest
        /\ report'[h].manifestUpdatedAt = report[h].manifestUpdatedAt
    BY <1>0, <2>2, <2>3 DEF Report
  <2>5. Consistent(h)'
    BY <1>0, <1>12, <2>2, <2>4 DEF Answer, GoTo, Consistent, depVars
  <2> QED
    BY <1>0, <1>12, <2>1, <2>4, <2>5, OneProbeKeeps DEF Answer, GoTo
<1>13. ASSUME NEW h \in Handler, Finish(h) PROVE ReadyInv'
  <2>1. OneProbe(h) /\ pc'[h] = "idle"
    BY <1>0, <1>13 DEF Finish, GoTo, OneProbe, depVars, routingVars
  <2>2. Consistent(h)'
    BY <1>0, <1>13 DEF Finish, GoTo, Consistent, Blank
  <2> QED
    BY <1>0, <1>13, <2>1, <2>2, BlankType, OneProbeKeeps DEF Finish, GoTo
<1>14. CASE RoutingStep
  <2>1. \A h \in Handler : probe[h] # "routing" => pc'[h] = "idle"
    BY <1>0, <1>14, RoutingStepKeepsIdle
  <2>2. UNCHANGED <<probe, gone, report>> /\ UNCHANGED <<redisUp, hasKeys, platform>>
    BY <1>14 DEF RoutingStep, depVars, probeVars
  <2> QED
    BY <2>1, <2>2, QuietKeeps DEF ReadyInv, ProbeType
<1>15. CASE RedisFlips \/ KeysArrive \/ PlatformStored \/ UNCHANGED vars
  <2>1. UNCHANGED <<probe, gone, report>> /\ UNCHANGED pc
    BY <1>15 DEF RedisFlips, KeysArrive, PlatformStored, vars, probeVars, routingVars
  <2>2. /\ redisUp \in BOOLEAN /\ hasKeys \in BOOLEAN
        /\ platform \in PlatformEdit \cup {NoEdit}
    BY DEF ReadyInv, ProbeType
  <2>3. redisUp' = ~redisUp \/ redisUp' = redisUp
    BY <1>15 DEF RedisFlips, KeysArrive, PlatformStored, vars, depVars
  <2>4. redisUp' \in BOOLEAN
    BY <2>2, <2>3
  <2>5. hasKeys' = TRUE \/ hasKeys' = hasKeys
    BY <1>15 DEF RedisFlips, KeysArrive, PlatformStored, vars, depVars
  <2>6. hasKeys' \in BOOLEAN /\ (hasKeys => hasKeys')
    BY <2>2, <2>5
  <2>7. platform' = platform \/ platform' \in PlatformEdit
    BY <1>15 DEF RedisFlips, KeysArrive, PlatformStored, vars, depVars
  <2>8. /\ platform' \in PlatformEdit \cup {NoEdit}
        /\ platform # NoEdit => platform' # NoEdit
    BY <2>2, <2>7, EditAssumption
  <2> QED
    BY <1>0, <2>1, <2>4, <2>6, <2>8, QuietKeeps
<1> QED
  BY <1>1, <1>4, <1>5, <1>7, <1>8, <1>9, <1>10, <1>11, <1>12, <1>13, <1>14, <1>15
     DEF Next, ProbeStep

LEMMA ReadyInvariance == Spec => [](RC!TypeOK /\ ReadyInv)
<1>1. Init => ReadyInv
  <2>1. ASSUME Init PROVE ProbeType
    BY <2>1, BlankType DEF Init, ProbeType, RC!Init, RC!Proc
  <2>2. ASSUME Init, NEW h \in Handler PROVE Consistent(h)
    BY <2>2 DEF Init, Consistent, Blank
  <2> QED
    BY <2>1, <2>2 DEF ReadyInv
<1>2. RP!Inv => RC!TypeOK
  BY SameType DEF RP!Inv
<1> QED
  BY <1>1, <1>2, ReadyInvStep, RoutingInvariance, PTL DEF Spec

\* TypeOK of Ready, which holds RoutingCache's own.
THEOREM TypeCorrect == Spec => []TypeOK
<1>1. RC!TypeOK /\ ReadyInv => TypeOK
  BY DEF TypeOK, ReadyInv, ProbeType
<1> QED
  BY <1>1, ReadyInvariance, PTL

\* ReportIsConsistent of Ready: six readings of a proxy in motion never make an
\* absurd report, for any number of probes and any configurations.
THEOREM ReportsAreConsistent == Spec => []ReportIsConsistent
<1>1. ReadyInv => ReportIsConsistent
  BY DEF ReadyInv, Consistent, ReportIsConsistent
<1> QED
  BY <1>1, ReadyInvariance, PTL
=============================================================================
