--------------------------- MODULE JwksCacheProofs ---------------------------
(***************************************************************************)
(* Proofs about JwksCache, for any keys, rotations and times.              *)
(*                                                                         *)
(* How long the cache may differ from a steady Hub depends on where the    *)
(* fetching goroutine is: Behind bounds it from tick to fetch to tick.     *)
(***************************************************************************)
EXTENDS JwksCache, TLAPS

USE TimeAssumption DEF TimeAssumption

\* The ticker and the goroutine keep in step: a fetch begins with its tick and
\* ends before the next one.
InStep ==
  /\ pc = "idle" => inFlight = 0
  /\ ~serving => pc # "idle" /\ ~tickPending /\ sinceTick = 0
  /\ tickPending => sinceTick = 0 /\ pc = "idle"
  /\ serving /\ pc # "idle" => inFlight = sinceTick

\* The Hub has been steady no longer than this while the cache differs from it.
Behind ==
  keys # Usable(hubVersion) =>
    /\ ~serving => steadyFor <= inFlight
    /\ pc = "idle" /\ ~tickPending => steadyFor <= sinceTick + FetchBound
    /\ pc = "idle" /\ tickPending => steadyFor <= TTL + FetchBound
    /\ pc # "idle" => steadyFor <= TTL + FetchBound + inFlight

Inv ==
  /\ TypeOK
  /\ steadyFor > 0 => Steady
  /\ pc = "replied" /\ response # hubVersion => steadyFor <= inFlight
  /\ InStep
  /\ Behind

LEMMA InvInit == Init => Inv
<1> SUFFICES ASSUME Init PROVE Inv
  OBVIOUS
<1>1. TypeOK
  <2>1. hubVersion \in Version
    BY VersionAssumption DEF VersionAssumption, Init, Version
  <2>2. hubUp \in BOOLEAN /\ serving \in BOOLEAN /\ tickPending \in BOOLEAN
    BY Zenon DEF Init
  <2>3. verdict \in [Validator -> Verdict \cup {NoVerdict}]
    BY DEF Init
  <2>4. /\ steadyFor \in 0..Horizon /\ sinceTick \in 0..(TTL - 1)
        /\ inFlight \in 0..FetchBound
    BY DEF Init
  <2>5. /\ keys \subseteq Key /\ pc \in {"idle", "sent", "replied"}
        /\ response \in Version \cup {NoVersion} /\ (pc = "replied" => response \in Version)
    BY DEF Init
  <2> QED
    BY <2>1, <2>2, <2>3, <2>4, <2>5 DEF TypeOK
<1> QED
  BY <1>1 DEF Init, Inv, InStep, Behind

\* Validators only touch their verdicts.
LEMMA VerdictType ==
  ASSUME NEW t \in Token
  PROVE  [kid |-> t.kid, flaw |-> t.flaw,
          answer |-> IF Accepts(t) THEN "accepted" ELSE "refused"] \in Verdict
<1>1. t.kid \in Key /\ t.flaw \in Flaw \cup {"none"}
  BY DEF Token
<1>2. CASE Accepts(t)
  BY <1>1, <1>2 DEF Verdict
<1>3. CASE ~Accepts(t)
  BY <1>1, <1>3 DEF Verdict
<1> QED
  BY <1>2, <1>3

LEMMA VerdictStep ==
  ASSUME Inv, UNCHANGED <<hubVars, keys, serving, tickerVars, fetchVars>>,
         verdict' \in [Validator -> Verdict \cup {NoVerdict}]
  PROVE  Inv'
BY DEF Inv, TypeOK, Steady, InStep, Behind, hubVars, tickerVars, fetchVars

\* refresh returns, having stored the reply or nothing.
LEMMA DoneStep ==
  ASSUME Inv, pc # "idle", Done, UNCHANGED <<hubVars, tickerVars, verdict>>,
         keys' \subseteq Key,
         keys' # Usable(hubVersion) => steadyFor <= inFlight
  PROVE  Inv'
<1>1. /\ pc' = "idle" /\ inFlight' = 0 /\ response' = NoVersion /\ serving'
      /\ UNCHANGED <<hubVersion, hubUp, steadyFor, sinceTick, tickPending, verdict>>
  BY DEF Done, hubVars, tickerVars
<1>2. ~tickPending /\ sinceTick \in Nat /\ inFlight \in Nat /\ inFlight <= FetchBound
      /\ steadyFor \in Nat
  BY DEF Inv, InStep, TypeOK
<1>3. TypeOK'
  <2>1. serving' \in BOOLEAN
    BY DEF Done
  <2> QED
    BY <1>1, <2>1 DEF Inv, TypeOK
<1>4. InStep'
  BY <1>1, <1>2 DEF InStep
<1>5. Behind'
  <2>1. keys' # Usable(hubVersion) => steadyFor <= sinceTick + FetchBound
    BY <1>2
  <2> QED
    BY <1>1, <1>2, <2>1 DEF Behind
<1> QED
  BY <1>1, <1>3, <1>4, <1>5 DEF Inv, Steady

\* Time keeps Inv: the ticker fires before the Hub has been steady too long.
LEMMA TickStep ==
  ASSUME Inv, Tick
  PROVE  Inv'
<1>1. /\ UNCHANGED <<hubVersion, hubUp, keys, serving, pc, response, verdict>>
      /\ pc # "idle" => inFlight < FetchBound /\ inFlight' = inFlight + 1
      /\ pc = "idle" => inFlight' = 0
      /\ ~(serving /\ pc = "idle" /\ tickPending)
  BY DEF Tick, MayWait
<1>2. /\ steadyFor \in 0..Horizon /\ sinceTick \in 0..(TTL - 1) /\ inFlight \in 0..FetchBound
      /\ tickPending \in BOOLEAN /\ serving \in BOOLEAN
  BY DEF Inv, TypeOK
<1>3. ~tickPending
  BY <1>1 DEF Inv, InStep
<1>4. /\ steadyFor' \in 0..Horizon /\ steadyFor' <= steadyFor + 1
      /\ steadyFor' > 0 => Steady
  BY <1>2 DEF Tick, Older
<1>A. inFlight' \in 0..FetchBound
  BY <1>1, <1>2
<1>B. TypeOK /\ (pc' = "replied" => response' \in Version)
  BY <1>1 DEF Inv, TypeOK
<1>C. pc' = "replied" /\ response' # hubVersion' => steadyFor' <= inFlight'
  BY <1>1, <1>2, <1>4 DEF Inv
<1>5. CASE serving /\ sinceTick + 1 = TTL
  <2>1. sinceTick' = 0 /\ tickPending'
    <3>1. sinceTick' = 0
      BY <1>2, <1>5 DEF Tick
    <3>2. tickPending'
      BY <1>5, Zenon DEF Tick
    <3> QED
      BY <3>1, <3>2
  <2>2. pc = "idle"
    BY <1>1, <1>2, <1>5 DEF Inv, InStep
  <2>3. TypeOK'
    <3>1. sinceTick' \in 0..(TTL - 1)
      BY <2>1
    <3>2. tickPending' \in BOOLEAN
      BY <2>1, Zenon
    <3> QED
      BY <1>1, <1>4, <1>A, <1>B, <3>1, <3>2 DEF TypeOK
  <2>4. InStep' /\ Behind'
    BY <1>1, <1>2, <1>3, <1>4, <1>5, <2>1, <2>2 DEF Inv, InStep, Behind
  <2> QED
    BY <1>1, <1>4, <1>C, <2>3, <2>4 DEF Inv, Steady
<1>6. CASE serving /\ sinceTick + 1 # TTL
  <2>1. sinceTick' = sinceTick + 1 /\ tickPending' = FALSE
    <3>1. sinceTick' = sinceTick + 1
      BY <1>2, <1>6 DEF Tick
    <3>2. tickPending' = FALSE
      BY <1>3, <1>6, Zenon DEF Tick
    <3> QED
      BY <3>1, <3>2
  <2>2. TypeOK'
    <3>1. sinceTick' \in 0..(TTL - 1)
      BY <1>2, <1>6, <2>1
    <3>2. tickPending' \in BOOLEAN
      BY <2>1
    <3> QED
      BY <1>1, <1>4, <1>A, <1>B, <3>1, <3>2 DEF TypeOK
  <2>3. InStep' /\ Behind'
    BY <1>1, <1>2, <1>3, <1>4, <1>6, <2>1 DEF Inv, InStep, Behind
  <2> QED
    BY <1>1, <1>4, <1>C, <2>2, <2>3 DEF Inv, Steady
<1>7. CASE ~serving
  <2>1. sinceTick' = 0 /\ tickPending' = FALSE
    <3>1. sinceTick' = 0
      BY <1>7 DEF Tick
    <3>2. tickPending' = FALSE
      BY <1>3, <1>7, Zenon DEF Tick
    <3> QED
      BY <3>1, <3>2
  <2>2. TypeOK'
    <3>1. sinceTick' \in 0..(TTL - 1)
      BY <2>1
    <3>2. tickPending' \in BOOLEAN
      BY <2>1, Zenon
    <3> QED
      BY <1>1, <1>4, <1>A, <1>B, <3>1, <3>2 DEF TypeOK
  <2>3. InStep' /\ Behind'
    BY <1>1, <1>2, <1>3, <1>4, <1>7, <2>1 DEF Inv, InStep, Behind
  <2> QED
    BY <1>1, <1>4, <1>C, <2>2, <2>3 DEF Inv, Steady
<1> QED
  BY <1>2, <1>5, <1>6, <1>7

\* Inv is inductive.
LEMMA InvStep == Inv /\ [Next]_vars => Inv'
<1> SUFFICES ASSUME Inv, [Next]_vars PROVE Inv'
  OBVIOUS
<1>0. /\ steadyFor \in Nat /\ sinceTick \in Nat /\ inFlight \in Nat
      /\ inFlight <= FetchBound /\ hubVersion \in Version
  BY DEF Inv, TypeOK
<1>1. CASE TakeTick
  <2>1. /\ pc = "idle" /\ tickPending /\ serving /\ pc' = "sent" /\ tickPending' = FALSE
        /\ UNCHANGED <<hubVars, keys, serving, sinceTick, inFlight, response, verdict>>
    BY <1>1 DEF TakeTick
  <2>2. TypeOK'
    BY <2>1 DEF Inv, TypeOK, hubVars
  <2>3. InStep' /\ Behind'
    BY <1>0, <2>1 DEF Inv, InStep, Behind, hubVars
  <2> QED
    BY <2>1, <2>2, <2>3 DEF Inv, Steady, hubVars
<1>2. CASE FetchFails
  <2>1. steadyFor = 0
    BY <1>0, <1>2 DEF FetchFails, Inv, Steady
  <2> QED
    BY <1>0, <1>2, <2>1, DoneStep DEF FetchFails, Inv, TypeOK
<1>3. CASE KeepKeys
  <2>1. CASE response = hubVersion
    <3>1. steadyFor = 0
      BY <1>0, <1>3, <2>1 DEF KeepKeys, Inv, Steady
    <3> QED
      BY <1>0, <1>3, <3>1, DoneStep DEF KeepKeys, Inv, TypeOK
  <2>2. CASE response # hubVersion
    <3>1. keys # Usable(hubVersion) => steadyFor <= inFlight
      BY <1>3, <2>2 DEF KeepKeys, Inv
    <3> QED
      BY <1>0, <1>3, <3>1, DoneStep DEF KeepKeys, Inv, TypeOK
  <2> QED
    BY <2>1, <2>2
<1>4. CASE StoreKeys
  <2>1. /\ pc = "replied" /\ keys' = Usable(response) /\ Done
        /\ UNCHANGED <<hubVars, tickerVars, verdict>>
    BY <1>4 DEF StoreKeys
  <2>2. keys' \subseteq Key
    BY <2>1 DEF Usable
  <2>3. keys' # Usable(hubVersion) => steadyFor <= inFlight
    BY <2>1 DEF Inv
  <2> QED
    BY <2>1, <2>2, <2>3, DoneStep
<1>5. CASE HubReplies
  <2>1. /\ pc = "sent" /\ pc' = "replied" /\ response' = hubVersion
        /\ UNCHANGED <<hubVars, keys, serving, tickerVars, inFlight, verdict>>
    BY <1>5 DEF HubReplies
  <2>2. TypeOK'
    BY <1>0, <2>1 DEF Inv, TypeOK, hubVars, tickerVars
  <2>3. InStep' /\ Behind'
    BY <1>0, <2>1 DEF Inv, InStep, Behind, hubVars, tickerVars
  <2> QED
    BY <2>1, <2>2, <2>3 DEF Inv, Steady, hubVars
<1>6. CASE Rotate \/ HubFlips
  <2>1. /\ steadyFor' = 0
        /\ UNCHANGED <<keys, serving, tickerVars, fetchVars, verdict>>
    BY <1>6 DEF Rotate, HubFlips
  <2>2. hubVersion' \in Version /\ hubUp' \in BOOLEAN
    <3>1. CASE Rotate
      BY <1>0, <3>1, VersionAssumption DEF Rotate, Version, VersionAssumption, Inv, TypeOK
    <3>2. CASE HubFlips
      BY <1>0, <3>2 DEF HubFlips, Inv, TypeOK
    <3> QED
      BY <1>6, <3>1, <3>2
  <2>3. TypeOK'
    <3>1. steadyFor' \in 0..Horizon
      BY <2>1
    <3>2. TypeOK /\ UNCHANGED <<keys, serving, sinceTick, tickPending>>
      BY <2>1 DEF Inv, tickerVars
    <3>3. UNCHANGED <<pc, inFlight, response, verdict>>
      BY <2>1 DEF fetchVars
    <3> QED
      BY <2>2, <3>1, <3>2, <3>3 DEF TypeOK
  <2>4. InStep' /\ Behind'
    BY <1>0, <2>1 DEF Inv, InStep, Behind, tickerVars, fetchVars
  <2> QED
    BY <1>0, <2>1, <2>3, <2>4 DEF Inv, fetchVars
<1>7. ASSUME NEW v \in Validator, Proceed(v) PROVE Inv'
  <2>1. verdict' \in [Validator -> Verdict \cup {NoVerdict}]
    BY <1>7 DEF Proceed, Inv, TypeOK
  <2> QED
    BY <1>7, <2>1, VerdictStep DEF Proceed
<1>8. ASSUME NEW v \in Validator, NEW t \in Token, Validate(v, t) PROVE Inv'
  <2>1. verdict' \in [Validator -> Verdict \cup {NoVerdict}]
    BY <1>8, VerdictType DEF Validate, Inv, TypeOK
  <2> QED
    BY <1>8, <2>1, VerdictStep DEF Validate
<1>9. CASE Tick
  BY <1>9, TickStep
<1>10. CASE UNCHANGED vars
  BY <1>10, VerdictStep DEF vars, Inv, TypeOK
<1> QED
  BY <1>1, <1>2, <1>3, <1>4, <1>5, <1>6, <1>7, <1>8, <1>9, <1>10 DEF Next, FetchStep

-----------------------------------------------------------------------------
(* The theorems *)

LEMMA Invariance == Spec => []Inv
BY InvInit, InvStep, PTL DEF Spec

\* TypeOK of JwksCache, for every instance.
THEOREM TypeCorrect == Spec => []TypeOK
<1>1. Inv => TypeOK
  BY DEF Inv
<1> QED
  BY <1>1, Invariance, PTL

\* KeysNeverLost of JwksCache: no outage, bad reply or rotation empties a
\* cache that has keys.
THEOREM KeysAreNeverLost == Spec => KeysNeverLost
<1>1. [Next]_vars => [keys # {} => keys' # {}]_vars
  BY DEF Next, FetchStep, HubReplies, FetchFails, KeepKeys, StoreKeys, TakeTick,
     Proceed, Validate, Rotate, HubFlips, Tick, vars
<1> QED
  BY <1>1, PTL DEF Spec, KeysNeverLost

\* A Hub that has been steady long enough is followed.
LEMMA FollowsSteadyHub ==
  ASSUME Inv, steadyFor > SettlingTime
  PROVE  keys = Usable(hubVersion)
<1>1. /\ steadyFor \in Nat /\ sinceTick \in 0..(TTL - 1) /\ inFlight \in 0..FetchBound
      /\ SettlingTime = TTL + 2 * FetchBound
      /\ tickPending \in BOOLEAN
  BY DEF Inv, TypeOK, SettlingTime
<1>2. /\ pc = "idle" /\ ~tickPending => ~(steadyFor <= sinceTick + FetchBound)
      /\ ~(steadyFor <= TTL + FetchBound)
      /\ ~(steadyFor <= TTL + FetchBound + inFlight)
  BY <1>1
<1> QED
  BY <1>1, <1>2 DEF Inv, Behind

\* TokensFollowHub of JwksCache: a token is accepted if and only if it should
\* be, once the Hub has been steady for an interval and two fetches.
THEOREM TokensAlwaysFollowHub == Spec => TokensFollowHub
<1> DEFINE Follows ==
      \A v \in Validator :
        /\ verdict[v] = NoVerdict /\ verdict'[v] # NoVerdict
        /\ steadyFor > SettlingTime
        => (verdict'[v].answer = "accepted" <=>
              /\ verdict'[v].kid \in Usable(hubVersion)
              /\ verdict'[v].flaw = "none")
<1>1. Inv /\ [Next]_vars => [Follows]_vars
  <2> SUFFICES ASSUME Inv, Next, NEW v \in Validator, steadyFor > SettlingTime,
                      verdict[v] = NoVerdict, verdict'[v] # NoVerdict
               PROVE  (verdict'[v].answer = "accepted" <=>
                         /\ verdict'[v].kid \in Usable(hubVersion)
                         /\ verdict'[v].flaw = "none")
    OBVIOUS
  <2>1. PICK t \in Token : Validate(v, t)
    <3>1. PICK w \in Validator : Proceed(w) \/ \E t \in Token : Validate(w, t)
      BY DEF Next, FetchStep, HubReplies, FetchFails, KeepKeys, StoreKeys, TakeTick,
         Rotate, HubFlips, Tick
    <3>2. w = v /\ ~Proceed(w)
      BY <3>1 DEF Proceed, Validate, Inv, TypeOK
    <3> QED
      BY <3>1, <3>2
  <2>2. verdict'[v] = [kid |-> t.kid, flaw |-> t.flaw,
                       answer |-> IF Accepts(t) THEN "accepted" ELSE "refused"]
    BY <2>1 DEF Validate, Inv, TypeOK
  <2>3. keys = Usable(hubVersion)
    BY FollowsSteadyHub
  <2>4. CASE Accepts(t)
    BY <2>2, <2>3, <2>4 DEF Accepts
  <2>5. CASE ~Accepts(t)
    BY <2>2, <2>3, <2>5 DEF Accepts
  <2> QED
    BY <2>4, <2>5
<1> QED
  BY <1>1, Invariance, PTL DEF Spec, TokensFollowHub
=============================================================================
