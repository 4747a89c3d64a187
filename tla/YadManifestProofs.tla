------------------------- MODULE YadManifestProofs -------------------------
(***************************************************************************)
(* Proofs about YadManifest, for any number of requests and any TTLs and   *)
(* bounds on the fetches.                                                  *)
(*                                                                         *)
(* Inv follows a configuration on its way through the two caches: Reply    *)
(* and Platform bound its age before it reaches a handler, HandlerOK while *)
(* the handler holds it, Stored once its manifest is cached.               *)
(***************************************************************************)
EXTENDS YadManifest, TLAPS

USE ProcAssumption, TimeAssumption
    DEF ProcAssumption, TimeAssumption

\* Ages of edits, none of which comes from the future.
Hub == \A v \in Version : v >= hubVersion => supersededFor[v] = 0

\* The cached platform configuration, as long as it is handed out.
Platform ==
  /\ platform <= hubVersion
  /\ platform \in Version /\ sinceConfig < 2 * ConfigTTL
       => supersededFor[platform] <= sinceConfig + HubBound

\* The cached manifest always belongs to its key.
Stored ==
  /\ configKey = manifest
  /\ manifest <= hubVersion
  /\ manifest \in Version /\ sinceManifest < 2 * ManifestTTL
       => supersededFor[manifest] <= sinceManifest + ConfigStaleness + CdnBound

\* The reply in a goroutine's hands.
ProcOK(p) ==
  /\ pc[p] \in {"idle", "returned"} => clock[p] = 0
  /\ response[p] <= hubVersion
  /\ pc[p] = "replied" => /\ response[p] \in Version
                          /\ supersededFor[response[p]] <= clock[p]

\* The configuration in a handler's hands, and its answer.
Holding == Serving \ {"noConfig"}
HandlerOK(h) ==
  /\ held[h] <= hubVersion
  /\ pc[h] \in Holding
       => held[h] \in Version /\ supersededFor[held[h]] <= ConfigStaleness + clock[h]
  /\ pc[h] \notin Holding => held[h] = NoVersion
  /\ pc[h] # "returned" => outcome[h] = Nothing

Inv ==
  /\ TypeOK
  /\ Hub /\ Platform /\ Stored
  /\ \A p \in Proc : ProcOK(p)
  /\ \A h \in Handler : HandlerOK(h)

-----------------------------------------------------------------------------
(* What the helpers of YadManifest do *)

LEMMA Bounds ==
  /\ ConfigStaleness \in Nat /\ ManifestStaleness \in Nat
  /\ ConfigStaleness = 2 * ConfigTTL + HubBound
  /\ ManifestStaleness = ConfigStaleness + CdnBound + 2 * ManifestTTL
BY DEF ConfigStaleness, ManifestStaleness

LEMMA Versions == /\ \A v \in Version : v \in Nat
                  /\ NoVersion \notin Version
                  /\ NoVersion \in Int
                  /\ NoVersion = -1
BY VersionAssumption DEF VersionAssumption, Version, NoVersion

\* The labels are pairwise distinct where it matters.
LEMMA Labels ==
  /\ AskingHub \cap Serving = {}
  /\ "idle" \notin AskingHub \cup Serving /\ "returned" \notin AskingHub \cup Serving
  /\ {"sent", "replied", "fallback"} = AskingHub
  /\ Holding \subseteq Serving
BY DEF AskingHub, Serving, Holding

LEMMA GotConfigEffect ==
  ASSUME TypeOK, NEW p \in Proc, NEW v, GotConfig(p, v)
  PROVE  /\ \A q \in Proc \ {p} : /\ pc'[q] = pc[q] /\ clock'[q] = clock[q]
                                 /\ response'[q] = response[q]
         /\ \A h \in Handler \ {p} : held'[h] = held[h]
         /\ clock'[p] = 0 /\ response'[p] = NoVersion
         /\ outcome' = outcome
         /\ p \in Handler => held'[p] = v
         /\ p \in Handler /\ v = NoVersion => pc'[p] = "noConfig"
         /\ p \in Handler /\ v # NoVersion => pc'[p] = "check"
         /\ p \notin Handler => pc'[p] = "idle"
BY DEF TypeOK, GotConfig, Proc

LEMMA AnswerEffect ==
  ASSUME TypeOK, NEW h \in Handler, NEW status, NEW v, Answer(h, status, v)
  PROVE  /\ \A q \in Proc \ {h} : /\ pc'[q] = pc[q] /\ clock'[q] = clock[q]
         /\ \A g \in Handler \ {h} : held'[g] = held[g] /\ outcome'[g] = outcome[g]
         /\ response' = response
         /\ clock'[h] = 0 /\ held'[h] = NoVersion /\ pc'[h] = "returned"
         /\ outcome'[h] = [status |-> status, manifest |-> v]
BY DEF TypeOK, Answer, Proc

LEMMA GoToEffect ==
  ASSUME TypeOK, NEW h \in Handler, NEW label, GoTo(h, label)
  PROVE  /\ \A q \in Proc \ {h} : pc'[q] = pc[q]
         /\ UNCHANGED <<clock, held, response, outcome>>
         /\ pc'[h] = label
BY DEF TypeOK, GoTo, Proc

-----------------------------------------------------------------------------
(* Types *)

\* The goroutines' part of TypeOK.
ProcType ==
  /\ pc \in [Proc -> {"idle", "returned"} \cup AskingHub \cup Serving]
  /\ pc[Refresher] \in {"idle"} \cup AskingHub
  /\ clock \in [Proc -> Nat]
  /\ \A p \in Proc : clock[p] <= (IF pc[p] \in AskingHub THEN HubBound ELSE CdnBound)
  /\ held \in [Handler -> Version \cup {NoVersion}]
  /\ response \in [Proc -> Version \cup {NoVersion}]
  /\ outcome \in [Handler -> Outcome]

LEMMA GotConfigType ==
  ASSUME TypeOK, NEW p \in Proc, NEW v \in Version \cup {NoVersion}, GotConfig(p, v)
  PROVE  ProcType'
<1>1. /\ pc' \in [Proc -> {"idle", "returned"} \cup AskingHub \cup Serving]
      /\ pc'[Refresher] \in {"idle"} \cup AskingHub
  <2>1. CASE p \in Handler
    BY <2>1 DEF GotConfig, TypeOK, Serving, Proc
  <2>2. CASE p \notin Handler
    BY <2>2 DEF GotConfig, TypeOK, Proc
  <2> QED
    BY <2>1, <2>2
<1>2. /\ clock' \in [Proc -> Nat]
      /\ response' \in [Proc -> Version \cup {NoVersion}]
      /\ held' \in [Handler -> Version \cup {NoVersion}]
      /\ outcome' \in [Handler -> Outcome]
  BY DEF GotConfig, TypeOK
<1>3. \A q \in Proc : clock'[q] <= (IF pc'[q] \in AskingHub THEN HubBound ELSE CdnBound)
  <2>1. /\ \A q \in Proc \ {p} : pc'[q] = pc[q] /\ clock'[q] = clock[q]
        /\ clock'[p] = 0
    BY GotConfigEffect
  <2> QED
    BY <2>1 DEF TypeOK
<1> QED
  BY <1>1, <1>2, <1>3 DEF ProcType

LEMMA AnswerType ==
  ASSUME TypeOK, NEW h \in Handler, NEW status \in {200, 502, 503},
         NEW v \in Version \cup {NoVersion}, Answer(h, status, v)
  PROVE  ProcType'
<1>1. /\ pc' \in [Proc -> {"idle", "returned"} \cup AskingHub \cup Serving]
      /\ pc'[Refresher] \in {"idle"} \cup AskingHub
  BY DEF Answer, TypeOK, Proc
<1>2. /\ clock' \in [Proc -> Nat]
      /\ response' \in [Proc -> Version \cup {NoVersion}]
      /\ held' \in [Handler -> Version \cup {NoVersion}]
  BY DEF Answer, TypeOK
<1>3. outcome' \in [Handler -> Outcome]
  BY DEF Answer, TypeOK, Outcome
<1>4. \A q \in Proc : clock'[q] <= (IF pc'[q] \in AskingHub THEN HubBound ELSE CdnBound)
  <2>1. /\ \A q \in Proc \ {h} : pc'[q] = pc[q] /\ clock'[q] = clock[q]
        /\ clock'[h] = 0
    BY DEF Answer, TypeOK, Proc
  <2>2. \A q \in Proc : clock[q] <= (IF pc[q] \in AskingHub THEN HubBound ELSE CdnBound)
    BY DEF TypeOK
  <2>3. clock'[h] <= (IF pc'[h] \in AskingHub THEN HubBound ELSE CdnBound)
    BY <2>1
  <2> QED
    BY <2>1, <2>2, <2>3
<1> QED
  BY <1>1, <1>2, <1>3, <1>4 DEF ProcType

LEMMA GoToType ==
  ASSUME TypeOK, NEW h \in Handler, NEW label \in Serving, pc[h] \in Serving, GoTo(h, label)
  PROVE  ProcType'
<1>1. /\ pc' \in [Proc -> {"idle", "returned"} \cup AskingHub \cup Serving]
      /\ pc'[Refresher] \in {"idle"} \cup AskingHub
  BY DEF GoTo, TypeOK, Proc
<1>2. /\ \A q \in Proc \ {h} : pc'[q] = pc[q]
      /\ UNCHANGED <<clock, held, response, outcome>>
      /\ pc'[h] \notin AskingHub /\ pc[h] \notin AskingHub
  BY GoToEffect, Labels
<1>3. \A q \in Proc : clock'[q] <= (IF pc'[q] \in AskingHub THEN HubBound ELSE CdnBound)
  <2>1. clock[h] <= CdnBound /\ h \in Proc
    BY <1>2 DEF TypeOK, Proc
  <2>2. clock'[h] <= (IF pc'[h] \in AskingHub THEN HubBound ELSE CdnBound)
    BY <1>2, <2>1
  <2> QED
    BY <1>2, <2>2 DEF TypeOK
<1> QED
  BY <1>1, <1>2, <1>3 DEF ProcType, TypeOK

\* A goroutine moves on among the steps of its question to the Hub.
LEMMA AskingType ==
  ASSUME TypeOK, NEW p \in Proc, NEW label \in AskingHub,
         pc[p] \in AskingHub \/ clock[p] = 0,
         pc' = [pc EXCEPT ![p] = label], UNCHANGED <<clock, held, outcome>>,
         response' \in [Proc -> Version \cup {NoVersion}]
  PROVE  ProcType'
<1>1. /\ pc' \in [Proc -> {"idle", "returned"} \cup AskingHub \cup Serving]
      /\ pc'[Refresher] \in {"idle"} \cup AskingHub
  BY DEF TypeOK, Proc
<1>2. \A q \in Proc : clock'[q] <= (IF pc'[q] \in AskingHub THEN HubBound ELSE CdnBound)
  <2>1. /\ \A q \in Proc \ {p} : pc'[q] = pc[q]
        /\ pc'[p] \in AskingHub
        /\ clock[p] <= HubBound
    BY DEF TypeOK
  <2> QED
    BY <2>1 DEF TypeOK
<1> QED
  BY <1>1, <1>2 DEF ProcType, TypeOK

\* The head of refreshPlatformConfig.
LEMMA AskHubType ==
  ASSUME Inv, NEW p \in Proc, pc[p] = "idle", AskHub(p)
  PROVE  ProcType'
<1>1. CASE baseUrlOk
  <2>1. /\ pc' = [pc EXCEPT ![p] = "sent"] /\ "sent" \in AskingHub
        /\ UNCHANGED <<clock, held, response, outcome>>
    BY <1>1 DEF AskHub, AskingHub
  <2>2. clock[p] = 0
    BY DEF Inv, ProcOK
  <2> QED
    BY <2>1, <2>2, AskingType DEF Inv, TypeOK
<1>2. CASE ~baseUrlOk
  BY <1>2, GotConfigType DEF AskHub, Inv
<1> QED
  BY <1>1, <1>2

\* Every step keeps the types; that a goroutine's clock stands at zero while
\* it is idle makes the clocks' bounds inductive.
LEMMA TypeStep == Inv /\ [Next]_vars => TypeOK'
<1> SUFFICES ASSUME Inv, [Next]_vars PROVE TypeOK'
  OBVIOUS
<1>0. TypeOK
  BY DEF Inv
<1>a. ASSUME ProcType', UNCHANGED <<hubVars, configVars, manifestVars>> PROVE TypeOK'
  BY <1>0, <1>a DEF TypeOK, ProcType, hubVars, configVars, manifestVars
<1>1. ASSUME NEW h \in Handler, ServeConfig(h) PROVE TypeOK'
  BY <1>0, <1>1, <1>a, GotConfigType DEF ServeConfig, Proc, TypeOK
<1>2. ASSUME NEW p \in Proc, pc[p] = "idle", AskHub(p) PROVE TypeOK'
  BY <1>2, <1>a, AskHubType DEF AskHub
<1>3. ASSUME NEW p \in Proc, ConfigFails(p) \/ ConfigWithoutURL(p) PROVE TypeOK'
  <2>1. /\ pc[p] \in AskingHub /\ "fallback" \in AskingHub
        /\ pc' = [pc EXCEPT ![p] = "fallback"]
        /\ UNCHANGED <<hubVars, configVars, manifestVars, clock, held, response, outcome>>
    BY <1>3 DEF ConfigFails, ConfigWithoutURL, AskingHub
  <2> QED
    BY <1>0, <2>1, <1>a, AskingType DEF TypeOK
<1>4. ASSUME NEW p \in Proc, StoreConfig(p) PROVE TypeOK'
  <2>1. response[p] \in Version \cup {NoVersion} /\ GotConfig(p, response[p])
    BY <1>0, <1>4 DEF StoreConfig, TypeOK
  <2>2. ProcType'
    BY <1>0, <2>1, GotConfigType
  <2>3. /\ platform' \in Version \cup {NoVersion} /\ sinceConfig' \in 0..(2 * ConfigTTL)
        /\ UNCHANGED <<hubVars, manifestVars>>
    BY <1>4, <2>1 DEF StoreConfig
  <2> QED
    BY <1>0, <2>2, <2>3 DEF TypeOK, ProcType, hubVars, manifestVars
<1>5. ASSUME NEW p \in Proc, ConfigFallback(p) PROVE TypeOK'
  <2>1. /\ UNCHANGED <<hubVars, configVars, manifestVars>>
        /\ \E v \in Version \cup {NoVersion} : GotConfig(p, v)
    <3>1. CASE ConfigIsUsable
      BY <1>0, <1>5, <3>1 DEF ConfigFallback, TypeOK
    <3>2. CASE ~ConfigIsUsable
      BY <1>5, <3>2 DEF ConfigFallback
    <3> QED
      BY <3>1, <3>2
  <2> QED
    BY <1>0, <1>a, <2>1, GotConfigType
<1>6. ASSUME NEW h \in Handler, CheckCache(h) PROVE TypeOK'
  <2>1. CASE Answer(h, 200, manifest)
    BY <1>0, <1>6, <1>a, <2>1, AnswerType DEF CheckCache, TypeOK
  <2>2. CASE GoTo(h, "fetch")
    BY <1>0, <1>6, <1>a, <2>2, GoToType DEF CheckCache, Serving
  <2> QED
    BY <1>6, <2>1, <2>2 DEF CheckCache
<1>7. ASSUME NEW h \in Handler, CdnReplies(h) PROVE TypeOK'
  <2>1. CASE cdnValid
    BY <1>0, <1>7, <1>a, <2>1, GoToType DEF CdnReplies, Serving
  <2>2. CASE ~cdnValid
    BY <1>0, <1>7, <1>a, <2>2, GoToType DEF CdnReplies, Serving
  <2> QED
    BY <2>1, <2>2
<1>8. ASSUME NEW h \in Handler, CdnFails(h) PROVE TypeOK'
  BY <1>0, <1>8, <1>a, GoToType DEF CdnFails, Serving
<1>9. ASSUME NEW h \in Handler, StoreManifest(h) PROVE TypeOK'
  <2>1. held[h] \in Version \cup {NoVersion} /\ Answer(h, 200, held[h])
    BY <1>0, <1>9 DEF StoreManifest, TypeOK
  <2>2. ProcType'
    BY <1>0, <2>1, AnswerType
  <2>3. /\ manifest' = held[h] /\ configKey' = held[h] /\ sinceManifest' = 0
        /\ UNCHANGED <<hubVars, configVars>>
    BY <1>9 DEF StoreManifest
  <2> QED
    BY <1>0, <2>1, <2>2, <2>3 DEF TypeOK, ProcType, hubVars, configVars
<1>10. ASSUME NEW h \in Handler, UseCached(h) PROVE TypeOK'
  <2>1. CASE Answer(h, 200, manifest)
    BY <1>0, <1>10, <1>a, <2>1, AnswerType DEF UseCached, TypeOK
  <2>2. CASE \E s \in {502, 503} : Answer(h, s, NoVersion)
    BY <1>0, <1>10, <1>a, <2>2, AnswerType DEF UseCached
  <2>3. Answer(h, 200, manifest) \/ \E s \in {502, 503} : Answer(h, s, NoVersion)
    <3>1. CASE ManifestIsUsable
      BY <1>10, <3>1, Zenon DEF UseCached
    <3>2. CASE ~ManifestIsUsable /\ pc[h] = "badManifest"
      <4>1. Answer(h, 502, NoVersion)
        BY <1>10, <3>2 DEF UseCached
      <4> QED
        BY <4>1
    <3>3. CASE ~ManifestIsUsable /\ pc[h] # "badManifest"
      <4>1. Answer(h, 503, NoVersion)
        BY <1>10, <3>3 DEF UseCached
      <4> QED
        BY <4>1
    <3> QED
      BY <3>1, <3>2, <3>3
  <2> QED
    BY <2>1, <2>2, <2>3
<1>11. ASSUME NEW h \in Handler, Finish(h) PROVE TypeOK'
  <2>1. /\ pc' = [pc EXCEPT ![h] = "idle"] /\ outcome' = [outcome EXCEPT ![h] = Nothing]
        /\ UNCHANGED <<hubVars, configVars, manifestVars, clock, held, response>>
    BY <1>11 DEF Finish
  <2>2. clock[h] = 0 /\ h \in Proc
    BY <1>11 DEF Finish, Inv, ProcOK, Proc
  <2>3. \A q \in Proc : clock'[q] <= (IF pc'[q] \in AskingHub THEN HubBound ELSE CdnBound)
    BY <1>0, <2>1, <2>2 DEF TypeOK
  <2>4. outcome' \in [Handler -> Outcome]
    BY <1>0, <2>1 DEF TypeOK, Nothing, Outcome
  <2>5. /\ pc' \in [Proc -> {"idle", "returned"} \cup AskingHub \cup Serving]
        /\ pc'[Refresher] \in {"idle"} \cup AskingHub
    BY <1>0, <2>1, <2>2 DEF TypeOK
  <2>6. ProcType'
    BY <1>0, <2>1, <2>3, <2>4, <2>5 DEF TypeOK, ProcType
  <2> QED
    BY <1>a, <2>1, <2>6
<1>12. ASSUME NEW p \in Proc, HubReplies(p) PROVE TypeOK'
  <2>1. /\ pc[p] \in AskingHub /\ "replied" \in AskingHub
        /\ pc' = [pc EXCEPT ![p] = "replied"]
        /\ UNCHANGED <<hubVars, configVars, manifestVars, clock, held, outcome>>
        /\ response' = [response EXCEPT ![p] = hubVersion]
    BY <1>12 DEF HubReplies, AskingHub
  <2>2. response' \in [Proc -> Version \cup {NoVersion}]
    BY <1>0, <2>1 DEF TypeOK
  <2> QED
    BY <1>0, <2>1, <2>2, <1>a, AskingType
<1>13. CASE AdminEdit
  <2>1. hubVersion' \in Version
    BY <1>0, <1>13, VersionAssumption DEF VersionAssumption, AdminEdit, TypeOK, Version
  <2> QED
    BY <1>0, <1>13, <2>1 DEF AdminEdit, TypeOK, configVars, manifestVars, procVars
<1>14. CASE HubFlips \/ CdnFlips
  BY <1>0, <1>14 DEF HubFlips, CdnFlips, TypeOK, configVars, manifestVars, procVars
<1>15. CASE Tick
  <2>1. supersededFor' \in [Version -> 0..Horizon]
    BY <1>0, <1>15 DEF Tick, TypeOK, Older
  <2>2. sinceConfig' \in 0..(2 * ConfigTTL) /\ sinceManifest' \in 0..(2 * ManifestTTL)
    BY <1>0, <1>15 DEF Tick, TypeOK, Older
  <2>3. /\ UNCHANGED <<hubVersion, hubUp, baseUrlOk, cdnValid, platform, manifest,
                       configKey, pc, held, response, outcome>>
        /\ \A p \in Proc : MayWait(p)
        /\ clock' = [p \in Proc |-> IF pc[p] \in AskingHub \cup Serving
                                    THEN clock[p] + 1 ELSE 0]
    BY <1>15 DEF Tick
  <2>4. clock' \in [Proc -> Nat]
    BY <1>0, <2>3 DEF TypeOK
  <2>5. \A p \in Proc : clock'[p] <= (IF pc'[p] \in AskingHub THEN HubBound ELSE CdnBound)
    BY <1>0, <2>3, Labels DEF TypeOK, MayWait
  <2> QED
    BY <1>0, <2>1, <2>2, <2>3, <2>4, <2>5 DEF TypeOK
<1>16. CASE UNCHANGED vars
  BY <1>0, <1>16 DEF vars, TypeOK, hubVars, configVars, manifestVars, procVars
<1> QED
  BY <1>1, <1>2, <1>3, <1>4, <1>5, <1>6, <1>7, <1>8, <1>9, <1>10, <1>11, <1>12,
     <1>13, <1>14, <1>15, <1>16
     DEF Next, ConfigStep, ManifestStep, MissConfig, BackgroundRefresh, Proc

-----------------------------------------------------------------------------
(* The inductive invariant *)

LEMMA InvInit == Init => Inv
<1> SUFFICES ASSUME Init PROVE Inv
  OBVIOUS
<1>1. TypeOK
  <2>1. hubVersion \in Version /\ Nothing \in Outcome
    BY VersionAssumption DEF VersionAssumption, Init, Version, Nothing, Outcome
  <2>2. /\ supersededFor \in [Version -> 0..Horizon]
        /\ sinceConfig \in 0..(2 * ConfigTTL) /\ sinceManifest \in 0..(2 * ManifestTTL)
    BY DEF Init
  <2>3. ProcType
    <3>1. /\ pc \in [Proc -> {"idle", "returned"} \cup AskingHub \cup Serving]
          /\ pc[Refresher] \in {"idle"} \cup AskingHub
      BY DEF Init, Proc
    <3>2. /\ clock \in [Proc -> Nat]
          /\ \A p \in Proc : clock[p] <= (IF pc[p] \in AskingHub THEN HubBound ELSE CdnBound)
      BY DEF Init
    <3> QED
      BY <2>1, <3>1, <3>2 DEF Init, ProcType
  <2>4. hubUp \in BOOLEAN /\ baseUrlOk \in BOOLEAN /\ cdnValid \in BOOLEAN
    BY Zenon DEF Init
  <2> QED
    BY <2>1, <2>2, <2>3, <2>4 DEF Init, ProcType, TypeOK
<1>2. Hub /\ Platform /\ Stored
  BY Versions DEF Init, Hub, Platform, Stored
<1>3. \A p \in Proc : ProcOK(p)
  BY Versions DEF Init, ProcOK
<1>4. ASSUME NEW h \in Handler PROVE HandlerOK(h)
  <2>1. /\ pc[h] = "idle" /\ held[h] = NoVersion /\ outcome[h] = Nothing
        /\ hubVersion = 0
    BY DEF Init, Proc
  <2>2. "idle" \notin Holding
    BY DEF Holding, Serving
  <2> QED
    BY <2>1, <2>2, Versions DEF HandlerOK
<1> QED
  BY <1>1, <1>2, <1>3, <1>4 DEF Inv

\* A step of goroutine p, with the Hub as it was: what it does not touch keeps
\* its part of Inv.
LEMMA LocalStep ==
  ASSUME Inv, TypeOK', NEW p \in Proc, UNCHANGED <<hubVersion, supersededFor>>,
         \A q \in Proc \ {p} : /\ pc'[q] = pc[q] /\ clock'[q] = clock[q]
                               /\ response'[q] = response[q],
         \A g \in Handler \ {p} : held'[g] = held[g] /\ outcome'[g] = outcome[g],
         Platform', Stored', ProcOK(p)', p \in Handler => HandlerOK(p)'
  PROVE  Inv'
<1>1. \A q \in Proc \ {p} : ProcOK(q)'
  BY DEF Inv, ProcOK
<1>2. \A g \in Handler \ {p} : HandlerOK(g)'
  BY DEF Inv, HandlerOK, Proc
<1>3. Hub'
  BY DEF Inv, Hub
<1> QED
  BY <1>1, <1>2, <1>3 DEF Inv

\* The caches stay what they are when nothing is stored.
LEMMA CachesKept ==
  ASSUME Inv, UNCHANGED <<hubVersion, supersededFor, configVars, manifestVars>>
  PROVE  Platform' /\ Stored'
BY DEF Inv, Platform, Stored, configVars, manifestVars

\* A goroutine is given a configuration young enough.
LEMMA GotConfigKeeps ==
  ASSUME Inv, TypeOK', NEW p \in Proc, NEW v, GotConfig(p, v),
         UNCHANGED <<hubVersion, supersededFor>>, Platform', Stored',
         p \in Handler =>
           v = NoVersion \/ (v \in 0..hubVersion /\ supersededFor[v] <= ConfigStaleness),
         p \in Handler => pc[p] # "returned"
  PROVE  Inv'
<1>1. /\ \A q \in Proc \ {p} : /\ pc'[q] = pc[q] /\ clock'[q] = clock[q]
                              /\ response'[q] = response[q]
      /\ \A h \in Handler \ {p} : held'[h] = held[h]
      /\ clock'[p] = 0 /\ response'[p] = NoVersion
      /\ outcome' = outcome
      /\ p \in Handler => held'[p] = v
      /\ p \in Handler /\ v = NoVersion => pc'[p] = "noConfig"
      /\ p \in Handler /\ v # NoVersion => pc'[p] = "check"
      /\ p \notin Handler => pc'[p] = "idle"
  BY GotConfigEffect DEF Inv
<1>2. hubVersion \in Version /\ hubVersion \in Nat
  BY Versions DEF Inv, TypeOK
<1>3. ProcOK(p)'
  <2>1. pc'[p] # "replied"
    BY <1>1
  <2> QED
    BY <1>1, <1>2, <2>1, Versions DEF ProcOK
<1>4. ASSUME p \in Handler PROVE HandlerOK(p)'
  <2>1. outcome'[p] = Nothing
    BY <1>1, <1>4 DEF Inv, HandlerOK
  <2>2. CASE v = NoVersion
    BY <1>1, <1>2, <1>4, <2>1, <2>2, Versions DEF HandlerOK, Holding
  <2>3. CASE v # NoVersion
    <3>1. v \in 0..hubVersion /\ supersededFor[v] <= ConfigStaleness /\ v \in Version
      BY <1>2, <1>4, <2>3, VersionAssumption DEF Version, VersionAssumption
    <3>2. pc'[p] \in Holding
      BY <1>1, <1>4, <2>3 DEF Holding, Serving
    <3> QED
      BY <1>1, <1>2, <1>4, <2>1, <3>1, <3>2, Bounds DEF HandlerOK
  <2> QED
    BY <2>2, <2>3
<1> QED
  BY <1>1, <1>3, <1>4, LocalStep

\* A handler answers.
LEMMA AnswerKeeps ==
  ASSUME Inv, TypeOK', NEW h \in Handler, NEW status, NEW v, Answer(h, status, v),
         UNCHANGED <<hubVersion, supersededFor>>, Platform', Stored'
  PROVE  Inv'
<1>1. /\ \A q \in Proc \ {h} : /\ pc'[q] = pc[q] /\ clock'[q] = clock[q]
      /\ \A g \in Handler \ {h} : held'[g] = held[g] /\ outcome'[g] = outcome[g]
      /\ response' = response
      /\ clock'[h] = 0 /\ held'[h] = NoVersion /\ pc'[h] = "returned"
  BY AnswerEffect DEF Inv
<1>2. hubVersion \in Nat /\ h \in Proc
  BY Versions DEF Inv, TypeOK, Proc
<1>3. ProcOK(h)'
  BY <1>1, <1>2 DEF Inv, ProcOK
<1>4. HandlerOK(h)'
  BY <1>1, <1>2, Versions, Labels DEF HandlerOK
<1> QED
  BY <1>1, <1>2, <1>3, <1>4, LocalStep

\* A handler that holds a configuration goes on with it.
LEMMA GoToKeeps ==
  ASSUME Inv, TypeOK', NEW h \in Handler, NEW label \in Holding, pc[h] \in Holding,
         GoTo(h, label), UNCHANGED <<hubVersion, supersededFor, configVars, manifestVars>>
  PROVE  Inv'
<1>1. /\ \A q \in Proc \ {h} : pc'[q] = pc[q]
      /\ UNCHANGED <<clock, held, response, outcome>>
      /\ pc'[h] = label
  BY GoToEffect DEF Inv
<1>2. h \in Proc /\ label \notin {"idle", "returned", "replied"}
      /\ pc[h] # "returned"
  BY Labels DEF Proc, Holding, AskingHub
<1>3. ProcOK(h)'
  BY <1>1, <1>2 DEF Inv, ProcOK
<1>4. HandlerOK(h)'
  BY <1>1, <1>2 DEF Inv, HandlerOK
<1> QED
  BY <1>1, <1>2, <1>3, <1>4, LocalStep, CachesKept

\* A goroutine goes on with its question to the Hub.
LEMMA AskingKeeps ==
  ASSUME Inv, TypeOK', NEW p \in Proc, NEW label \in {"sent", "fallback"},
         pc[p] \in {"idle"} \cup AskingHub, pc' = [pc EXCEPT ![p] = label],
         UNCHANGED <<hubVersion, supersededFor, configVars, manifestVars, clock, held,
                     response, outcome>>
  PROVE  Inv'
<1>1. /\ \A q \in Proc \ {p} : pc'[q] = pc[q]
      /\ pc'[p] = label /\ label \notin Holding /\ pc[p] \notin Holding
      /\ pc[p] # "returned"
  BY Labels DEF Inv, TypeOK, AskingHub, Holding, Serving
<1>2. ProcOK(p)'
  BY <1>1 DEF Inv, ProcOK
<1>3. ASSUME p \in Handler PROVE HandlerOK(p)'
  BY <1>1, <1>3 DEF Inv, HandlerOK
<1> QED
  BY <1>1, <1>2, <1>3, LocalStep, CachesKept

\* What is served from the platform cache is young enough.
LEMMA PlatformIsYoung ==
  ASSUME Inv, platform # NoVersion, sinceConfig < 2 * ConfigTTL
  PROVE  platform \in 0..hubVersion /\ supersededFor[platform] <= ConfigStaleness
<1>1. platform \in Version /\ supersededFor[platform] \in Int
  BY DEF Inv, TypeOK
<1>2. supersededFor[platform] <= sinceConfig + HubBound /\ sinceConfig \in Int
  BY <1>1 DEF Inv, Platform, TypeOK
<1>3. platform \in 0..hubVersion
  BY <1>1, Versions DEF Inv, Platform, TypeOK
<1> QED
  BY <1>1, <1>2, <1>3, Bounds

\* Steps that only pass the platform configuration on.
LEMMA ServeKeeps ==
  ASSUME Inv, TypeOK', NEW p \in Proc, NEW v, GotConfig(p, v),
         UNCHANGED <<hubVersion, supersededFor, configVars, manifestVars>>,
         v = NoVersion \/ (v = platform /\ ConfigIsUsable),
         p \in Handler => pc[p] # "returned"
  PROVE  Inv'
<1>1. Platform' /\ Stored' /\ UNCHANGED <<hubVersion, supersededFor>>
  BY CachesKept
<1>2. v = NoVersion \/ (v \in 0..hubVersion /\ supersededFor[v] <= ConfigStaleness)
  <2>1. CASE v = NoVersion
    BY <2>1
  <2>2. CASE v = platform /\ v # NoVersion /\ ConfigIsUsable
    <3>1. platform # NoVersion /\ sinceConfig < 2 * ConfigTTL
      BY <2>2 DEF ConfigIsUsable
    <3>2. platform \in 0..hubVersion /\ supersededFor[platform] <= ConfigStaleness
      BY <3>1, PlatformIsYoung
    <3> QED
      BY <2>2, <3>2
  <2> QED
    BY <2>1, <2>2
<1>3. p \in Handler =>
        v = NoVersion \/ (v \in 0..hubVersion /\ supersededFor[v] <= ConfigStaleness)
  BY <1>2
<1> QED
  BY <1>1, <1>3, GotConfigKeeps, Zenon

\* A new configuration is cached and handed out.
LEMMA StoreConfigKeeps ==
  ASSUME Inv, TypeOK', NEW p \in Proc, StoreConfig(p)
  PROVE  Inv'
<1>1. /\ pc[p] = "replied" /\ GotConfig(p, response[p])
      /\ platform' = response[p] /\ sinceConfig' = 0
      /\ UNCHANGED <<hubVersion, supersededFor, manifestVars>>
  BY DEF StoreConfig, hubVars
<1>2. /\ response[p] \in Version /\ response[p] <= hubVersion
      /\ supersededFor[response[p]] <= HubBound
      /\ supersededFor[response[p]] \in Int
  <2>1. response[p] \in Version /\ response[p] <= hubVersion
        /\ supersededFor[response[p]] <= clock[p]
    BY <1>1 DEF Inv, ProcOK
  <2>2. clock[p] <= HubBound /\ clock[p] \in Int
    BY <1>1 DEF Inv, TypeOK, AskingHub
  <2>3. supersededFor[response[p]] \in Int
    BY <2>1 DEF Inv, TypeOK
  <2> QED
    BY <2>1, <2>2, <2>3
<1>3. Platform' /\ Stored'
  BY <1>1, <1>2 DEF Inv, Platform, Stored, manifestVars
<1>4. response[p] \in 0..hubVersion /\ supersededFor[response[p]] <= ConfigStaleness
  BY <1>2, Versions, Bounds DEF Inv, TypeOK
<1>5. pc[p] # "returned"
  BY <1>1
<1> QED
  BY <1>1, <1>3, <1>4, <1>5, GotConfigKeeps

\* A new manifest is cached and handed out.
LEMMA StoreManifestKeeps ==
  ASSUME Inv, TypeOK', NEW h \in Handler, StoreManifest(h)
  PROVE  Inv'
<1>1. /\ pc[h] \in Holding /\ Answer(h, 200, held[h])
      /\ manifest' = held[h] /\ configKey' = held[h] /\ sinceManifest' = 0
      /\ UNCHANGED <<hubVersion, supersededFor, configVars>>
  BY DEF StoreManifest, hubVars, Holding, Serving
<1>2. /\ held[h] <= hubVersion /\ held[h] \in Version
      /\ supersededFor[held[h]] <= ConfigStaleness + CdnBound
  <2>1. /\ held[h] <= hubVersion /\ held[h] \in Version
        /\ supersededFor[held[h]] <= ConfigStaleness + clock[h]
    BY <1>1 DEF Inv, HandlerOK
  <2>2. clock[h] <= CdnBound /\ clock[h] \in Int
    BY <1>1, Labels DEF Inv, TypeOK, Proc
  <2>3. supersededFor[held[h]] \in Int
    BY <2>1 DEF Inv, TypeOK
  <2> QED
    BY <2>1, <2>2, <2>3, Bounds
<1>3. Platform' /\ Stored'
  BY <1>1, <1>2, Bounds DEF Inv, Platform, Stored, configVars
<1> QED
  BY <1>1, <1>3, AnswerKeeps

\* Time keeps Inv.
LEMMA TickKeeps ==
  ASSUME Inv, Tick, TypeOK'
  PROVE  Inv'
<1>1. /\ UNCHANGED <<hubVersion, platform, manifest, configKey, pc, held, response, outcome>>
      /\ sinceConfig' = Older(sinceConfig, 2 * ConfigTTL)
      /\ sinceManifest' = Older(sinceManifest, 2 * ManifestTTL)
      /\ \A p \in Proc : clock'[p] = IF pc[p] \in AskingHub \cup Serving
                                     THEN clock[p] + 1 ELSE 0
  BY DEF Tick
<1>2. \A v \in Version : /\ supersededFor[v] \in Nat
                         /\ supersededFor'[v] \in Nat
                         /\ supersededFor'[v] <= supersededFor[v] + 1
                         /\ v >= hubVersion => supersededFor'[v] = 0
  <2>1. \A v \in Version : supersededFor[v] \in Nat /\ v \in Int
    BY Versions DEF Inv, TypeOK
  <2>2. hubVersion \in Int
    BY Versions DEF Inv, TypeOK
  <2>3. \A v \in Version : supersededFor'[v] =
                             IF v < hubVersion THEN Older(supersededFor[v], Horizon) ELSE 0
    BY DEF Tick
  <2> QED
    BY <2>1, <2>2, <2>3 DEF Older
<1>3. Hub'
  BY <1>1, <1>2 DEF Hub
<1>4. Platform'
  <2> SUFFICES ASSUME platform \in Version, sinceConfig' < 2 * ConfigTTL
               PROVE  supersededFor'[platform] <= sinceConfig' + HubBound
    BY <1>1 DEF Inv, Platform
  <2>1. sinceConfig' = sinceConfig + 1 /\ sinceConfig < 2 * ConfigTTL
        /\ sinceConfig \in Int
    BY <1>1 DEF Older, Inv, TypeOK
  <2> QED
    BY <1>2, <2>1 DEF Inv, Platform
<1>5. Stored'
  <2> SUFFICES ASSUME manifest \in Version, sinceManifest' < 2 * ManifestTTL
               PROVE  supersededFor'[manifest] <= sinceManifest' + ConfigStaleness + CdnBound
    BY <1>1 DEF Inv, Stored
  <2>1. sinceManifest' = sinceManifest + 1 /\ sinceManifest < 2 * ManifestTTL
        /\ sinceManifest \in Int
    BY <1>1 DEF Older, Inv, TypeOK
  <2> QED
    BY <1>2, <2>1, Bounds DEF Inv, Stored
<1>6. ASSUME NEW p \in Proc PROVE ProcOK(p)'
  <2>1. ProcOK(p) /\ clock[p] \in Int
    BY DEF Inv, TypeOK
  <2>2. pc[p] \in {"idle", "returned"} => clock'[p] = 0
    BY <1>1, Labels
  <2>3. pc[p] = "replied" => clock'[p] = clock[p] + 1
    BY <1>1, Labels
  <2> QED
    BY <1>1, <1>2, <2>1, <2>2, <2>3 DEF ProcOK
<1>7. ASSUME NEW h \in Handler PROVE HandlerOK(h)'
  <2>1. HandlerOK(h) /\ h \in Proc /\ clock[h] \in Int
    BY DEF Inv, TypeOK, Proc
  <2>2. pc[h] \in Holding => clock'[h] = clock[h] + 1
    BY <1>1, <2>1, Labels
  <2> QED
    BY <1>1, <1>2, <2>1, <2>2, Bounds DEF HandlerOK
<1> QED
  BY <1>3, <1>4, <1>5, <1>6, <1>7 DEF Inv

\* Inv is inductive.
LEMMA InvStep == Inv /\ [Next]_vars => Inv'
<1> SUFFICES ASSUME Inv, [Next]_vars PROVE Inv'
  OBVIOUS
<1>0. TypeOK'
  BY TypeStep
<1>1. ASSUME NEW h \in Handler, ServeConfig(h) PROVE Inv'
  <2>1. /\ GotConfig(h, platform) /\ ConfigIsUsable /\ h \in Proc /\ pc[h] # "returned"
        /\ UNCHANGED <<hubVersion, supersededFor, configVars, manifestVars>>
    BY <1>1 DEF ServeConfig, ConfigIsFresh, ConfigIsUsable, Proc, hubVars, Inv, TypeOK
  <2> QED
    BY <1>0, <2>1, ServeKeeps, Zenon
<1>2. ASSUME NEW p \in Proc, pc[p] = "idle", AskHub(p) PROVE Inv'
  <2>1. CASE baseUrlOk
    BY <1>0, <1>2, <2>1, AskingKeeps DEF AskHub, hubVars
  <2>2. CASE ~baseUrlOk
    <3>1. /\ GotConfig(p, NoVersion) /\ pc[p] # "returned"
          /\ UNCHANGED <<hubVersion, supersededFor, configVars, manifestVars>>
      BY <1>2, <2>2 DEF AskHub, hubVars
    <3> QED
      BY <1>0, <3>1, ServeKeeps, Zenon
  <2> QED
    BY <2>1, <2>2
<1>3. ASSUME NEW p \in Proc, ConfigFails(p) \/ ConfigWithoutURL(p) PROVE Inv'
  <2>1. /\ pc[p] \in {"idle"} \cup AskingHub /\ pc' = [pc EXCEPT ![p] = "fallback"]
        /\ UNCHANGED <<hubVersion, supersededFor, configVars, manifestVars, clock, held,
                       response, outcome>>
    BY <1>3 DEF ConfigFails, ConfigWithoutURL, AskingHub, hubVars
  <2> QED
    BY <1>0, <2>1, AskingKeeps
<1>4. ASSUME NEW p \in Proc, StoreConfig(p) PROVE Inv'
  BY <1>0, <1>4, StoreConfigKeeps
<1>5. ASSUME NEW p \in Proc, ConfigFallback(p) PROVE Inv'
  <2>1. UNCHANGED <<hubVersion, supersededFor, configVars, manifestVars>>
        /\ pc[p] # "returned"
    BY <1>5 DEF ConfigFallback, hubVars
  <2>2. CASE ConfigIsUsable
    <3>1. GotConfig(p, platform)
      BY <1>5, <2>2 DEF ConfigFallback
    <3> QED
      BY <1>0, <2>1, <2>2, <3>1, ServeKeeps, Zenon
  <2>3. CASE ~ConfigIsUsable
    <3>1. GotConfig(p, NoVersion)
      BY <1>5, <2>3 DEF ConfigFallback
    <3> QED
      BY <1>0, <2>1, <3>1, ServeKeeps, Zenon
  <2> QED
    BY <2>2, <2>3
<1>6. ASSUME NEW h \in Handler, ManifestStep(h) PROVE Inv'
  <2>1. ASSUME UNCHANGED <<hubVars, configVars, manifestVars>>,
               NEW status, NEW v, Answer(h, status, v)
        PROVE  Inv'
    BY <1>0, <2>1, CachesKept, AnswerKeeps DEF hubVars
  <2>2. ASSUME UNCHANGED <<hubVars, configVars, manifestVars>>, pc[h] \in Holding,
               NEW label \in Holding, GoTo(h, label)
        PROVE  Inv'
    BY <1>0, <2>2, GoToKeeps DEF hubVars
  <2>3. CASE CheckCache(h)
    <3>1. CASE Answer(h, 200, manifest)
      BY <2>1, <2>3, <3>1 DEF CheckCache
    <3>2. CASE GoTo(h, "fetch")
      BY <2>2, <2>3, <3>2 DEF CheckCache, Holding, Serving
    <3> QED
      BY <2>3, <3>1, <3>2 DEF CheckCache
  <2>4. CASE CdnReplies(h)
    <3>1. CASE cdnValid
      BY <2>2, <2>4, <3>1 DEF CdnReplies, Holding, Serving
    <3>2. CASE ~cdnValid
      BY <2>2, <2>4, <3>2 DEF CdnReplies, Holding, Serving
    <3> QED
      BY <3>1, <3>2
  <2>5. CASE CdnFails(h)
    BY <2>2, <2>5 DEF CdnFails, Holding, Serving
  <2>6. CASE StoreManifest(h)
    BY <1>0, <2>6, StoreManifestKeeps
  <2>7. CASE UseCached(h)
    BY <2>1, <2>7 DEF UseCached
  <2> QED
    BY <1>6, <2>3, <2>4, <2>5, <2>6, <2>7 DEF ManifestStep
<1>7. ASSUME NEW h \in Handler, Finish(h) PROVE Inv'
  <2>1. /\ pc[h] = "returned" /\ pc'[h] = "idle" /\ outcome'[h] = Nothing
        /\ \A q \in Proc \ {h} : pc'[q] = pc[q]
        /\ \A g \in Handler \ {h} : outcome'[g] = outcome[g]
        /\ UNCHANGED <<hubVersion, supersededFor, configVars, manifestVars, clock, held,
                       response>>
        /\ h \in Proc
    BY <1>7 DEF Finish, Inv, TypeOK, hubVars, Proc
  <2>2. ProcOK(h)'
    BY <2>1 DEF Inv, ProcOK
  <2>3. HandlerOK(h)'
    BY <2>1, Labels DEF Inv, HandlerOK
  <2> QED
    BY <1>0, <2>1, <2>2, <2>3, LocalStep, CachesKept
<1>8. ASSUME NEW p \in Proc, HubReplies(p) PROVE Inv'
  <2>1. /\ pc[p] = "sent" /\ pc'[p] = "replied" /\ response'[p] = hubVersion
        /\ \A q \in Proc \ {p} : pc'[q] = pc[q] /\ response'[q] = response[q]
        /\ UNCHANGED <<hubVersion, supersededFor, configVars, manifestVars, clock, held,
                       outcome>>
    BY <1>8 DEF HubReplies, Inv, TypeOK, hubVars
  <2>2. /\ hubVersion \in Version /\ hubVersion \in Nat /\ supersededFor[hubVersion] = 0
        /\ clock[p] \in Nat
    BY Versions DEF Inv, Hub, TypeOK
  <2>3. ProcOK(p)'
    BY <2>1, <2>2 DEF ProcOK
  <2>4. "sent" \notin Holding /\ "replied" \notin Holding
    BY DEF Holding, Serving
  <2>5. p \in Handler => HandlerOK(p)'
    BY <2>1, <2>4 DEF Inv, HandlerOK
  <2> QED
    BY <1>0, <2>1, <2>3, <2>5, LocalStep, CachesKept
<1>9. CASE AdminEdit
  <2>1. /\ hubVersion' = hubVersion + 1 /\ hubVersion \in Nat
        /\ UNCHANGED <<supersededFor, configVars, manifestVars, procVars>>
    BY <1>9, Versions DEF AdminEdit, Inv, TypeOK
  <2>2. Hub' /\ Platform' /\ Stored'
    <3>1. platform \in Int /\ manifest \in Int
      BY Versions DEF Inv, TypeOK
    <3> QED
      BY <2>1, <3>1, Versions DEF Inv, Hub, Platform, Stored, configVars, manifestVars
  <2>3. \A p \in Proc : ProcOK(p)'
    <3>1. \A p \in Proc : response[p] \in Int
      BY Versions DEF Inv, TypeOK
    <3> QED
      BY <2>1, <3>1 DEF Inv, ProcOK, procVars
  <2>4. \A h \in Handler : HandlerOK(h)'
    <3>1. \A h \in Handler : held[h] \in Int
      BY Versions DEF Inv, TypeOK
    <3> QED
      BY <2>1, <3>1 DEF Inv, HandlerOK, procVars
  <2> QED
    BY <1>0, <2>2, <2>3, <2>4 DEF Inv
<1>10. CASE HubFlips \/ CdnFlips \/ UNCHANGED vars
  <2>1. UNCHANGED <<hubVersion, supersededFor, configVars, manifestVars, procVars>>
    BY <1>10 DEF HubFlips, CdnFlips, vars, hubVars
  <2>2. Hub' /\ Platform' /\ Stored'
    BY <2>1, CachesKept DEF Inv, Hub
  <2>3. (\A p \in Proc : ProcOK(p)') /\ (\A h \in Handler : HandlerOK(h)')
    BY <2>1 DEF Inv, ProcOK, HandlerOK, procVars
  <2> QED
    BY <1>0, <2>2, <2>3 DEF Inv
<1>11. CASE Tick
  BY <1>0, <1>11, TickKeeps
<1> QED
  BY <1>1, <1>2, <1>3, <1>4, <1>5, <1>6, <1>7, <1>8, <1>9, <1>10, <1>11
     DEF Next, ConfigStep, MissConfig, BackgroundRefresh, Proc

-----------------------------------------------------------------------------
(* The theorems *)

LEMMA Invariance == Spec => []Inv
BY InvInit, InvStep, PTL DEF Spec

\* TypeOK of YadManifest, for every instance.
THEOREM TypeCorrect == Spec => []TypeOK
<1>1. Inv => TypeOK
  BY DEF Inv
<1> QED
  BY <1>1, Invariance, PTL

\* Who is touched by a step that gives a handler its answer.
LEMMA WhoAnswers ==
  ASSUME Inv, Next, NEW h \in Handler, pc[h] # "returned", pc'[h] = "returned"
  PROVE  CheckCache(h) \/ StoreManifest(h) \/ UseCached(h)
<1>0. TypeOK /\ h \in Proc /\ h # Refresher
  BY DEF Inv, Proc
<1>1. ASSUME NEW p \in Proc, NEW v, GotConfig(p, v) PROVE FALSE
  <2>1. /\ \A q \in Proc \ {p} : pc'[q] = pc[q]
        /\ p \in Handler /\ v = NoVersion => pc'[p] = "noConfig"
        /\ p \in Handler /\ v # NoVersion => pc'[p] = "check"
    BY <1>0, <1>1, GotConfigEffect
  <2> QED
    BY <1>0, <2>1
<1>2. ASSUME NEW p \in Proc, NEW label \in AskingHub, pc' = [pc EXCEPT ![p] = label]
      PROVE  FALSE
  BY <1>0, <1>2, Labels DEF TypeOK
<1>3. ASSUME NEW p \in Proc, AskHub(p) PROVE FALSE
  BY <1>1, <1>2, <1>3 DEF AskHub, AskingHub
<1>4. ASSUME NEW p \in Proc, ConfigStep(p) PROVE FALSE
  <2>1. ~ConfigFails(p) /\ ~ConfigWithoutURL(p) /\ ~HubReplies(p)
    BY <1>2 DEF ConfigFails, ConfigWithoutURL, HubReplies, AskingHub
  <2>2. ~StoreConfig(p) /\ ~ConfigFallback(p)
    BY <1>1 DEF StoreConfig, ConfigFallback
  <2> QED
    BY <1>4, <2>1, <2>2 DEF ConfigStep
<1>5. ~AdminEdit /\ ~HubFlips /\ ~CdnFlips /\ ~Tick
  BY DEF AdminEdit, HubFlips, CdnFlips, Tick, procVars
<1>6. ASSUME NEW g \in Handler, ServeConfig(g) PROVE FALSE
  BY <1>1, <1>6 DEF ServeConfig, Proc
<1>7. ASSUME NEW g \in Handler, Finish(g) PROVE FALSE
  BY <1>0, <1>7 DEF Finish, TypeOK, Proc
<1>8. ASSUME NEW g \in Handler, CdnReplies(g) \/ CdnFails(g) PROVE FALSE
  <2>1. \E label : label # "returned" /\ GoTo(g, label)
    <3>1. CASE CdnFails(g)
      BY <3>1 DEF CdnFails
    <3>2. CASE CdnReplies(g) /\ cdnValid
      BY <3>2 DEF CdnReplies
    <3>3. CASE CdnReplies(g) /\ ~cdnValid
      BY <3>3 DEF CdnReplies
    <3> QED
      BY <1>8, <3>1, <3>2, <3>3
  <2> QED
    BY <1>0, <2>1, GoToEffect DEF Proc
<1>9. ASSUME NEW g \in Handler, g # h, CheckCache(g) \/ StoreManifest(g) \/ UseCached(g)
      PROVE  FALSE
  <2>1. \/ GoTo(g, "fetch")
        \/ \E status, v : Answer(g, status, v)
    BY <1>9 DEF CheckCache, StoreManifest, UseCached
  <2>2. pc'[h] = pc[h]
    <3>1. ASSUME GoTo(g, "fetch") PROVE pc'[h] = pc[h]
      BY <1>0, <1>9, <3>1 DEF GoTo, TypeOK
    <3>2. ASSUME NEW status, NEW v, Answer(g, status, v) PROVE pc'[h] = pc[h]
      BY <1>0, <1>9, <3>2 DEF Answer, TypeOK
    <3> QED
      BY <2>1, <3>1, <3>2
  <2> QED
    BY <2>2
<1> QED
  BY <1>3, <1>4, <1>5, <1>6, <1>7, <1>8, <1>9
     DEF Next, MissConfig, BackgroundRefresh, ManifestStep, Proc

\* AnswerMatchesConfig of YadManifest: a request whose fetches succeed gets
\* the manifest of the configuration it was given, whatever other requests
\* store between its two looks at the caches.
THEOREM AnswersMatch == Spec => AnswerMatchesConfig
<1> DEFINE Matches ==
      \A h \in Handler :
        pc[h] \in {"check", "got"} /\ pc'[h] = "returned"
          => outcome'[h].manifest = held[h]
<1>1. Inv /\ [Next]_vars => [Matches]_vars
  <2> SUFFICES ASSUME Inv, Next, NEW h \in Handler, pc[h] \in {"check", "got"},
                      pc'[h] = "returned"
               PROVE  outcome'[h].manifest = held[h]
    OBVIOUS
  <2>1. CheckCache(h) \/ StoreManifest(h)
    BY WhoAnswers DEF UseCached
  <2>2. ASSUME NEW status, NEW v, Answer(h, status, v) PROVE outcome'[h].manifest = v
    BY <2>2 DEF Answer, Inv, TypeOK
  <2>3. CASE CheckCache(h)
    <3>1. ~GoTo(h, "fetch")
      BY DEF GoTo, Inv, TypeOK, Proc
    <3>2. Answer(h, 200, manifest) /\ configKey = held[h]
      BY <2>3, <3>1 DEF CheckCache, CacheHits
    <3> QED
      BY <2>2, <3>2 DEF Inv, Stored
  <2>4. CASE StoreManifest(h)
    BY <2>2, <2>4 DEF StoreManifest
  <2> QED
    BY <2>1, <2>3, <2>4
<1> QED
  BY <1>1, Invariance, PTL DEF Spec, AnswerMatchesConfig

\* The steps of the Hub and of time are those of a register, whatever it has
\* handed out.
LEMMA HubIsRegister ==
  /\ AdminEdit => ConfigRegister!Edit /\ ManifestRegister!Edit
  /\ Tick => ConfigRegister!TimePasses /\ ManifestRegister!TimePasses
  /\ HubFlips \/ CdnFlips \/ UNCHANGED vars
       => UNCHANGED <<hubVersion, supersededFor, held, outcome>>
<1>1. AdminEdit => ConfigRegister!Edit /\ ManifestRegister!Edit
  BY DEF AdminEdit, ConfigRegister!Edit, ManifestRegister!Edit, procVars
<1>2. Tick => ConfigRegister!TimePasses /\ ManifestRegister!TimePasses
  BY DEF Tick, ConfigRegister!TimePasses, ManifestRegister!TimePasses, Older,
     ConfigRegister!Older, ManifestRegister!Older, Version, ConfigRegister!Version,
     ManifestRegister!Version
<1>3. HubFlips \/ CdnFlips \/ UNCHANGED vars
       => UNCHANGED <<hubVersion, supersededFor, held, outcome>>
  BY DEF HubFlips, CdnFlips, vars, hubVars, procVars
<1> QED
  BY <1>1, <1>2, <1>3

\* A handler's configuration is replaced by v: the register serves it ...
LEMMA ConfigServed ==
  ASSUME Inv, UNCHANGED <<hubVersion, supersededFor>>, NEW p \in Proc,
         NEW v, GotConfig(p, v),
         p \in Handler => pc[p] \notin Holding,
         v = NoVersion \/ (v \in 0..hubVersion /\ supersededFor[v] <= ConfigStaleness)
  PROVE  [ConfigRegister!Next]_ConfigRegister!vars
<1>1. p \in Handler => held[p] = NoVersion
  BY DEF Inv, HandlerOK
<1>2. CASE p \notin Handler \/ v = NoVersion
  <2>1. held' = held
    BY <1>1, <1>2 DEF GotConfig, Inv, TypeOK
  <2> QED
    BY <2>1 DEF ConfigRegister!vars
<1>3. CASE p \in Handler /\ v # NoVersion
  <2>1. held' = [held EXCEPT ![p] = v]
    BY <1>3 DEF GotConfig
  <2>2. ConfigRegister!Serve(p)
    BY <1>1, <1>3, <2>1 DEF ConfigRegister!Serve, ConfigRegister!Nothing, NoVersion
  <2> QED
    BY <1>3, <2>2 DEF ConfigRegister!Next
<1> QED
  BY <1>2, <1>3

\* ... and the register takes it back when the handler answers.
LEMMA ConfigReleased ==
  ASSUME Inv, UNCHANGED <<hubVersion, supersededFor>>, NEW h \in Handler,
         NEW status, NEW v, Answer(h, status, v)
  PROVE  [ConfigRegister!Next]_ConfigRegister!vars
<1>1. held' = [held EXCEPT ![h] = NoVersion]
  BY DEF Answer
<1>2. CASE held[h] = NoVersion
  <2>1. held' = held
    BY <1>1, <1>2 DEF Inv, TypeOK
  <2> QED
    BY <2>1 DEF ConfigRegister!vars
<1>3. CASE held[h] # NoVersion
  <2>1. ConfigRegister!Release(h)
    BY <1>1, <1>3 DEF ConfigRegister!Release, ConfigRegister!Nothing, NoVersion
  <2> QED
    BY <2>1 DEF ConfigRegister!Next
<1> QED
  BY <1>2, <1>3

LEMMA ConfigRegisterStep == Inv /\ [Next]_vars => [ConfigRegister!Next]_ConfigRegister!vars
<1> SUFFICES ASSUME Inv, [Next]_vars PROVE [ConfigRegister!Next]_ConfigRegister!vars
  OBVIOUS
<1>0. \A p \in Proc : pc[p] \in {"idle"} \cup AskingHub => pc[p] \notin Holding
  BY Labels
<1>a. ASSUME UNCHANGED <<hubVersion, supersededFor, held>>
      PROVE  [ConfigRegister!Next]_ConfigRegister!vars
  BY <1>a DEF ConfigRegister!vars
<1>1. ASSUME NEW h \in Handler, ServeConfig(h)
      PROVE  [ConfigRegister!Next]_ConfigRegister!vars
  <2>1. /\ GotConfig(h, platform) /\ h \in Proc /\ pc[h] \notin Holding
        /\ UNCHANGED <<hubVersion, supersededFor>>
    BY <1>0, <1>1 DEF ServeConfig, Proc, hubVars
  <2>2. platform \in 0..hubVersion /\ supersededFor[platform] <= ConfigStaleness
    BY <1>1, PlatformIsYoung DEF ServeConfig, ConfigIsFresh, Inv, TypeOK
  <2> QED
    BY <2>1, <2>2, ConfigServed
<1>2. ASSUME NEW p \in Proc, pc[p] = "idle", AskHub(p)
      PROVE  [ConfigRegister!Next]_ConfigRegister!vars
  <2>1. CASE baseUrlOk
    BY <1>2, <1>a, <2>1 DEF AskHub, hubVars
  <2>2. CASE ~baseUrlOk
    <3>1. /\ GotConfig(p, NoVersion) /\ pc[p] \notin Holding
          /\ UNCHANGED <<hubVersion, supersededFor>>
      BY <1>0, <1>2, <2>2 DEF AskHub, hubVars
    <3> QED
      BY <3>1, ConfigServed
  <2> QED
    BY <2>1, <2>2
<1>3. ASSUME NEW p \in Proc, ConfigFails(p) \/ ConfigWithoutURL(p) \/ HubReplies(p)
      PROVE  [ConfigRegister!Next]_ConfigRegister!vars
  BY <1>3, <1>a DEF ConfigFails, ConfigWithoutURL, HubReplies, hubVars
<1>4. ASSUME NEW p \in Proc, StoreConfig(p)
      PROVE  [ConfigRegister!Next]_ConfigRegister!vars
  <2>1. /\ GotConfig(p, response[p]) /\ pc[p] = "replied" /\ pc[p] \notin Holding
        /\ UNCHANGED <<hubVersion, supersededFor>>
    BY <1>0, <1>4 DEF StoreConfig, hubVars, AskingHub
  <2>2. /\ response[p] \in Version /\ response[p] <= hubVersion
        /\ supersededFor[response[p]] <= clock[p]
    BY <2>1 DEF Inv, ProcOK
  <2>3. /\ clock[p] <= HubBound /\ clock[p] \in Int
        /\ supersededFor[response[p]] \in Int
    BY <2>1, <2>2 DEF Inv, TypeOK, AskingHub
  <2>4. response[p] \in 0..hubVersion
    BY <2>2, Versions DEF Inv, TypeOK
  <2>5. supersededFor[response[p]] <= ConfigStaleness
    BY <2>2, <2>3, Bounds
  <2> QED
    BY <2>1, <2>4, <2>5, ConfigServed
<1>5. ASSUME NEW p \in Proc, ConfigFallback(p)
      PROVE  [ConfigRegister!Next]_ConfigRegister!vars
  <2>1. UNCHANGED <<hubVersion, supersededFor>> /\ pc[p] \notin Holding
    BY <1>0, <1>5 DEF ConfigFallback, hubVars, AskingHub
  <2>2. CASE ConfigIsUsable
    <3>1. GotConfig(p, platform)
      BY <1>5, <2>2 DEF ConfigFallback
    <3>2. platform \in 0..hubVersion /\ supersededFor[platform] <= ConfigStaleness
      BY <2>2, PlatformIsYoung DEF ConfigIsUsable
    <3> QED
      BY <2>1, <3>1, <3>2, ConfigServed
  <2>3. CASE ~ConfigIsUsable
    <3>1. GotConfig(p, NoVersion)
      BY <1>5, <2>3 DEF ConfigFallback
    <3> QED
      BY <2>1, <3>1, ConfigServed
  <2> QED
    BY <2>2, <2>3
<1>6. ASSUME NEW h \in Handler, CheckCache(h) \/ StoreManifest(h) \/ UseCached(h)
      PROVE  [ConfigRegister!Next]_ConfigRegister!vars
  <2>1. UNCHANGED <<hubVersion, supersededFor>>
    BY <1>6 DEF CheckCache, StoreManifest, UseCached, hubVars
  <2>2. GoTo(h, "fetch") \/ \E status, v : Answer(h, status, v)
    BY <1>6 DEF CheckCache, StoreManifest, UseCached
  <2>3. GoTo(h, "fetch") => held' = held
    BY DEF GoTo
  <2> QED
    BY <1>a, <2>1, <2>2, <2>3, ConfigReleased
<1>7. ASSUME NEW h \in Handler, CdnReplies(h) \/ CdnFails(h) \/ Finish(h)
      PROVE  [ConfigRegister!Next]_ConfigRegister!vars
  BY <1>7, <1>a DEF CdnReplies, CdnFails, Finish, GoTo, hubVars
<1>8. ASSUME AdminEdit \/ Tick PROVE [ConfigRegister!Next]_ConfigRegister!vars
  BY <1>8, HubIsRegister DEF ConfigRegister!Next
<1>9. ASSUME HubFlips \/ CdnFlips \/ UNCHANGED vars
      PROVE  [ConfigRegister!Next]_ConfigRegister!vars
  BY <1>9, <1>a, HubIsRegister
<1> QED
  BY <1>1, <1>2, <1>3, <1>4, <1>5, <1>6, <1>7, <1>8, <1>9
     DEF Next, ConfigStep, ManifestStep, MissConfig, BackgroundRefresh, Proc

\* ImplementsConfigRegister of YadManifest: to its callers GetPlatformConfig
\* is a register that lags by at most ConfigStaleness.
THEOREM PlatformConfigIsRegister == Spec => ImplementsConfigRegister
<1>1. Init => ConfigRegister!Init
  BY DEF Init, ConfigRegister!Init, ConfigRegister!Nothing, NoVersion, Version,
     ConfigRegister!Version
<1> QED
  BY <1>1, ConfigRegisterStep, Invariance, PTL
     DEF Spec, ImplementsConfigRegister, ConfigRegister!Spec

-----------------------------------------------------------------------------
\* An answer is served by the register of manifests, or is an error.
LEMMA ManifestServed ==
  ASSUME Inv, UNCHANGED <<hubVersion, supersededFor>>, NEW h \in Handler,
         NEW status, NEW v, Answer(h, status, v), pc[h] # "returned",
         v = NoVersion \/ (v \in 0..hubVersion /\ supersededFor[v] <= ManifestStaleness)
  PROVE  [ManifestRegister!Next]_ManifestRegister!vars
<1> DEFINE handed == [g \in Handler |-> outcome[g].manifest]
           handedNext == [g \in Handler |-> outcome'[g].manifest]
<1>1. outcome[h].manifest = NoVersion
  BY DEF Inv, HandlerOK, Nothing
<1>2. outcome' = [outcome EXCEPT ![h] = [status |-> status, manifest |-> v]]
  BY DEF Answer
<1>3. outcome'[h].manifest = v /\ \A g \in Handler \ {h} : outcome'[g] = outcome[g]
  BY <1>2 DEF Inv, TypeOK
<1>4. CASE v = NoVersion
  <2>1. handedNext = handed
    BY <1>1, <1>3, <1>4
  <2> QED
    BY <2>1 DEF ManifestRegister!vars
<1>5. CASE v # NoVersion
  <2>1. handedNext = [handed EXCEPT ![h] = v] /\ handed[h] = -1
    BY <1>1, <1>3 DEF NoVersion
  <2>2. ManifestRegister!Serve(h)
    BY <1>5, <2>1 DEF ManifestRegister!Serve, ManifestRegister!Nothing
  <2> QED
    BY <2>2 DEF ManifestRegister!Next
<1> QED
  BY <1>4, <1>5

LEMMA ManifestRegisterStep ==
  Inv /\ [Next]_vars => [ManifestRegister!Next]_ManifestRegister!vars
<1> SUFFICES ASSUME Inv, [Next]_vars PROVE [ManifestRegister!Next]_ManifestRegister!vars
  OBVIOUS
<1>a. ASSUME UNCHANGED <<hubVersion, supersededFor, outcome>>
      PROVE  [ManifestRegister!Next]_ManifestRegister!vars
  BY <1>a DEF ManifestRegister!vars
<1>b. ASSUME manifest # NoVersion, sinceManifest < 2 * ManifestTTL
      PROVE  manifest \in 0..hubVersion /\ supersededFor[manifest] <= ManifestStaleness
  <2>1. manifest \in Version /\ supersededFor[manifest] \in Int
    BY <1>b DEF Inv, TypeOK
  <2>2. /\ supersededFor[manifest] <= sinceManifest + ConfigStaleness + CdnBound
        /\ sinceManifest \in Int
    BY <1>b, <2>1 DEF Inv, Stored, TypeOK
  <2>3. manifest \in 0..hubVersion
    BY <2>1, Versions DEF Inv, Stored, TypeOK
  <2> QED
    BY <1>b, <2>1, <2>2, <2>3, Bounds
<1>1. ASSUME NEW p \in Proc, \/ \E v : GotConfig(p, v)
                             \/ UNCHANGED outcome,
             UNCHANGED <<hubVersion, supersededFor>>
      PROVE  [ManifestRegister!Next]_ManifestRegister!vars
  BY <1>1, <1>a DEF GotConfig
<1>2. ASSUME NEW h \in Handler, ServeConfig(h)
      PROVE  [ManifestRegister!Next]_ManifestRegister!vars
  BY <1>1, <1>2 DEF ServeConfig, hubVars, Proc
<1>3. ASSUME NEW p \in Proc, AskHub(p) \/ ConfigStep(p)
      PROVE  [ManifestRegister!Next]_ManifestRegister!vars
  BY <1>1, <1>3 DEF AskHub, ConfigStep, ConfigFails, ConfigWithoutURL, HubReplies,
     StoreConfig, ConfigFallback, hubVars
<1>4. ASSUME NEW h \in Handler, CheckCache(h)
      PROVE  [ManifestRegister!Next]_ManifestRegister!vars
  <2>1. UNCHANGED <<hubVersion, supersededFor>> /\ pc[h] # "returned"
    BY <1>4 DEF CheckCache, hubVars
  <2>2. CASE GoTo(h, "fetch")
    BY <1>a, <2>1, <2>2 DEF GoTo
  <2>3. CASE CacheHits(h) /\ Answer(h, 200, manifest)
    <3>1. manifest # NoVersion /\ sinceManifest < 2 * ManifestTTL
      BY <2>3 DEF CacheHits, Inv, TypeOK
    <3>2. manifest \in 0..hubVersion /\ supersededFor[manifest] <= ManifestStaleness
      BY <1>b, <3>1
    <3> QED
      BY <2>1, <2>3, <3>2, ManifestServed
  <2> QED
    BY <1>4, <2>2, <2>3 DEF CheckCache
<1>5. ASSUME NEW h \in Handler, StoreManifest(h)
      PROVE  [ManifestRegister!Next]_ManifestRegister!vars
  <2>1. /\ UNCHANGED <<hubVersion, supersededFor>> /\ pc[h] # "returned"
        /\ pc[h] \in Holding /\ Answer(h, 200, held[h])
    BY <1>5 DEF StoreManifest, hubVars, Holding, Serving
  <2>2. /\ held[h] <= hubVersion /\ held[h] \in Version
        /\ supersededFor[held[h]] <= ConfigStaleness + clock[h]
    BY <2>1 DEF Inv, HandlerOK
  <2>3. clock[h] <= CdnBound /\ clock[h] \in Int /\ supersededFor[held[h]] \in Int
    BY <2>1, <2>2, Labels DEF Inv, TypeOK, Proc
  <2>4. held[h] \in 0..hubVersion
    BY <2>2, Versions DEF Inv, TypeOK
  <2>5. supersededFor[held[h]] <= ManifestStaleness
    BY <2>2, <2>3, Bounds
  <2> QED
    BY <2>1, <2>4, <2>5, ManifestServed
<1>6. ASSUME NEW h \in Handler, UseCached(h)
      PROVE  [ManifestRegister!Next]_ManifestRegister!vars
  <2>1. UNCHANGED <<hubVersion, supersededFor>> /\ pc[h] # "returned"
    BY <1>6 DEF UseCached, hubVars
  <2>2. CASE ManifestIsUsable /\ Answer(h, 200, manifest)
    <3>1. manifest \in 0..hubVersion /\ supersededFor[manifest] <= ManifestStaleness
      BY <1>b, <2>2 DEF ManifestIsUsable
    <3> QED
      BY <2>1, <2>2, <3>1, ManifestServed
  <2>3. ASSUME NEW status, Answer(h, status, NoVersion)
        PROVE  [ManifestRegister!Next]_ManifestRegister!vars
    BY <2>1, <2>3, ManifestServed
  <2> QED
    BY <1>6, <2>2, <2>3 DEF UseCached
<1>7. ASSUME NEW h \in Handler, CdnReplies(h) \/ CdnFails(h)
      PROVE  [ManifestRegister!Next]_ManifestRegister!vars
  BY <1>7, <1>a DEF CdnReplies, CdnFails, GoTo, hubVars
<1>8. ASSUME NEW h \in Handler, Finish(h)
      PROVE  [ManifestRegister!Next]_ManifestRegister!vars
  <2> DEFINE handed == [g \in Handler |-> outcome[g].manifest]
             handedNext == [g \in Handler |-> outcome'[g].manifest]
  <2>1. /\ UNCHANGED <<hubVersion, supersededFor>>
        /\ outcome'[h].manifest = NoVersion
        /\ \A g \in Handler \ {h} : outcome'[g] = outcome[g]
    BY <1>8 DEF Finish, Inv, TypeOK, Nothing, hubVars
  <2>2. CASE outcome[h].manifest = NoVersion
    <3>1. handedNext = handed
      BY <2>1, <2>2
    <3> QED
      BY <2>1, <3>1 DEF ManifestRegister!vars
  <2>3. CASE outcome[h].manifest # NoVersion
    <3>1. handedNext = [handed EXCEPT ![h] = -1] /\ handed[h] # -1
      BY <2>1, <2>3 DEF NoVersion
    <3>2. ManifestRegister!Release(h)
      BY <2>1, <3>1 DEF ManifestRegister!Release, ManifestRegister!Nothing
    <3> QED
      BY <3>2 DEF ManifestRegister!Next
  <2> QED
    BY <2>2, <2>3
<1>9. ASSUME AdminEdit \/ Tick PROVE [ManifestRegister!Next]_ManifestRegister!vars
  BY <1>9, HubIsRegister DEF ManifestRegister!Next
<1>10. ASSUME HubFlips \/ CdnFlips \/ UNCHANGED vars
       PROVE  [ManifestRegister!Next]_ManifestRegister!vars
  BY <1>10, <1>a, HubIsRegister
<1> QED
  BY <1>2, <1>3, <1>4, <1>5, <1>6, <1>7, <1>8, <1>9, <1>10
     DEF Next, ManifestStep, MissConfig, BackgroundRefresh, Proc

\* ImplementsManifestRegister of YadManifest: GET /v1/yad/manifest is a
\* register that lags by at most ManifestStaleness, whatever fails.
THEOREM ManifestIsRegister == Spec => ImplementsManifestRegister
<1>1. Init => ManifestRegister!Init
  BY DEF Init, ManifestRegister!Init, ManifestRegister!Nothing, NoVersion, Nothing,
     Version, ManifestRegister!Version
<1> QED
  BY <1>1, ManifestRegisterStep, Invariance, PTL
     DEF Spec, ImplementsManifestRegister, ManifestRegister!Spec
=============================================================================
