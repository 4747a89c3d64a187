------------------------------ MODULE JwksCache ------------------------------
(***************************************************************************)
(* The verification keys of the proxy: auth.JWKSCache and auth.Validator   *)
(* (internal/auth/jwks.go, internal/auth/jwk_rsa.go).                      *)
(*                                                                         *)
(* main fetches the Hub's JWKS once before it listens, whatever comes of   *)
(* it, and then one goroutine fetches on every tick of a ticker of period  *)
(* ttl (an hour).  There is no fetch on demand: a token whose key is not   *)
(* in the cache is refused.  Validate reads the cache in one critical      *)
(* section (GetKey) and otherwise only the token, so it is one action.     *)
(*                                                                         *)
(* Data.  A publication is the number of the Hub's key rotation; a key is  *)
(* its kid.  Which JWKs rsaPublicKeyFromJWK accepts is part of Published.  *)
(* A token is the kid in its header and what is wrong with it otherwise.   *)
(***************************************************************************)
EXTENDS Integers

CONSTANTS
  Key,          \* key ids
  MaxVersion,   \* bound: number of rotations in a behaviour
  Published,    \* Published[v][k]: how publication v lists key k
  Validator,    \* request goroutines in JWTMiddleware
  TTL,          \* JWKSCache.ttl
  FetchBound,   \* longest time from sending a request to storing its reply
  Horizon       \* age at which ages stop growing

Version == 0..MaxVersion
NoVersion == -1

\* How long the Hub must have published the same keys for all to know them: the
\* fetch before listening, an interval of the ticker and one more fetch.
SettlingTime == TTL + 2 * FetchBound

ASSUME TimeAssumption ==
  /\ TTL \in Nat /\ FetchBound \in Nat \ {0}
  /\ FetchBound < TTL           \* 15 seconds and an hour
  /\ Horizon \in Nat /\ Horizon > SettlingTime
ASSUME VersionAssumption ==
  /\ MaxVersion \in Nat
  /\ Published \in [Version -> [Key -> {"absent", "unusable", "usable"}]]

\* What Validate refuses a token for, apart from its key id.
Flaw == {"algorithm", "signature", "expired", "issuer", "audience", "subscription"}
Token == [kid : Key, flaw : Flaw \cup {"none"}]

VARIABLES
  hubVersion,   \* what the Hub publishes now
  hubUp,        \* the Hub answers 200 with JSON within the client's timeout
  steadyFor,    \* history: time for which hubVersion has been there for the asking
  keys,         \* c.keys; c.fetchedAt is never read
  serving,      \* StartRefresh has returned: ticker, goroutine and listener are there
  sinceTick,    \* time since the ticker last fired
  tickPending,  \* the ticker's channel, which buffers one tick
  pc,           \* the one goroutine that fetches: first main, then StartRefresh's
  inFlight,     \* time since it sent its request
  response,     \* the publication in its reply
  verdict       \* what Validate has said to each request, and of which token

hubVars == <<hubVersion, hubUp, steadyFor>>
tickerVars == <<sinceTick, tickPending>>
fetchVars == <<pc, inFlight, response>>
vars == <<hubVars, keys, serving, tickerVars, fetchVars, verdict>>

\* The keys that survive the loop of refresh.
Usable(v) == {k \in Key : Published[v][k] = "usable"}

Steady == hubUp /\ Usable(hubVersion) # {}

\* A verdict and its token.
Verdict == [kid : Key, flaw : Flaw \cup {"none"}, answer : {"accepted", "refused"}]
NoVerdict == [answer |-> "none"]

TypeOK ==
  /\ hubVersion \in Version
  /\ hubUp \in BOOLEAN
  /\ steadyFor \in 0..Horizon
  /\ keys \subseteq Key
  /\ serving \in BOOLEAN
  /\ sinceTick \in 0..(TTL - 1)
  /\ tickPending \in BOOLEAN
  /\ pc \in {"idle", "sent", "replied"}
  /\ inFlight \in 0..FetchBound
  /\ response \in Version \cup {NoVersion}
  /\ pc = "replied" => response \in Version
  /\ verdict \in [Validator -> Verdict \cup {NoVerdict}]

\* StartRefresh has begun: main has sent its request.
Init ==
  /\ hubVersion = 0
  /\ hubUp \in BOOLEAN
  /\ steadyFor = 0
  /\ keys = {}
  /\ serving = FALSE
  /\ sinceTick = 0
  /\ tickPending = FALSE
  /\ pc = "sent"
  /\ inFlight = 0
  /\ response = NoVersion
  /\ verdict = [v \in Validator |-> NoVerdict]

-----------------------------------------------------------------------------
(* The cache *)

\* refresh returns.  After the first one StartRefresh makes the ticker and
\* main goes on to listen.
Done ==
  /\ pc' = "idle"
  /\ inFlight' = 0
  /\ response' = NoVersion
  /\ serving' = TRUE

\* Mutant: the goroutine fetches only while there are no keys.
MutantTakeTick ==
  /\ serving /\ pc = "idle" /\ tickPending
  /\ keys = {}
  /\ tickPending' = FALSE
  /\ pc' = "sent"
  /\ UNCHANGED <<hubVars, keys, serving, sinceTick, inFlight, response, verdict>>

\* The goroutine of StartRefresh takes a tick and sends a request.
TakeTick ==
  /\ serving /\ pc = "idle" /\ tickPending
  /\ tickPending' = FALSE
  /\ pc' = "sent"
  /\ UNCHANGED <<hubVars, keys, serving, sinceTick, inFlight, response, verdict>>

\* Mutant: an HTTP client without a timeout waits for a Hub that is silent.
MutantFetchFails ==
  /\ pc = "replied"
  /\ ~hubUp
  /\ Done
  /\ UNCHANGED <<hubVars, keys, tickerVars, verdict>>

\* Transport error, status other than 200, no JSON, timeout: nothing changes.
FetchFails ==
  /\ pc \in {"sent", "replied"}
  /\ ~hubUp
  /\ Done
  /\ UNCHANGED <<hubVars, keys, tickerVars, verdict>>

\* Mutant: what the Hub says is stored, even if it is nothing.
MutantKeepKeys ==
  /\ pc = "replied"
  /\ Usable(response) = {}
  /\ keys' = {}
  /\ Done
  /\ UNCHANGED <<hubVars, tickerVars, verdict>>

\* A reply without a usable key is an error and leaves the cache as it is.
KeepKeys ==
  /\ pc = "replied"
  /\ Usable(response) = {}
  /\ Done
  /\ UNCHANGED <<hubVars, keys, tickerVars, verdict>>

\* Mutant: new keys are added to the map that is there.
MutantStoreKeys ==
  /\ pc = "replied"
  /\ Usable(response) # {}
  /\ keys' = keys \cup Usable(response)
  /\ Done
  /\ UNCHANGED <<hubVars, tickerVars, verdict>>

\* The new map replaces the old one.
StoreKeys ==
  /\ pc = "replied"
  /\ Usable(response) # {}
  /\ keys' = Usable(response)
  /\ Done
  /\ UNCHANGED <<hubVars, tickerVars, verdict>>

-----------------------------------------------------------------------------
(* The validator *)

\* GetKey finds the key, and signature and claims are in order.
Accepts(t) == t.kid \in keys /\ t.flaw = "none"

Validate(v, t) ==
  /\ serving
  /\ verdict[v] = NoVerdict
  /\ verdict' = [verdict EXCEPT ![v] = 
                   [kid |-> t.kid, flaw |-> t.flaw,
                    answer |-> IF Accepts(t) THEN "accepted" ELSE "refused"]]
  /\ UNCHANGED <<hubVars, keys, serving, tickerVars, fetchVars>>

\* JWTMiddleware has called the handler, or has answered 401.
Proceed(v) ==
  /\ verdict[v] # NoVerdict
  /\ verdict' = [verdict EXCEPT ![v] = NoVerdict]
  /\ UNCHANGED <<hubVars, keys, serving, tickerVars, fetchVars>>

-----------------------------------------------------------------------------
(* The Hub and time *)

HubReplies ==
  /\ pc = "sent"
  /\ hubUp
  /\ response' = hubVersion
  /\ pc' = "replied"
  /\ UNCHANGED <<hubVars, keys, serving, tickerVars, inFlight, verdict>>

Rotate ==
  /\ hubVersion < MaxVersion
  /\ hubVersion' = hubVersion + 1
  /\ steadyFor' = 0
  /\ UNCHANGED <<hubUp, keys, serving, tickerVars, fetchVars, verdict>>

HubFlips ==
  /\ hubUp' = ~hubUp
  /\ steadyFor' = 0
  /\ UNCHANGED <<hubVersion, keys, serving, tickerVars, fetchVars, verdict>>

Older(age) == IF age < Horizon THEN age + 1 ELSE Horizon

\* Mutant: nothing bounds the life of a fetch.
MutantMayWait == ~(serving /\ pc = "idle" /\ tickPending)

\* The HTTP client gives up after its timeout, and a goroutine that waits for
\* a tick takes it at once.
MayWait ==
  /\ pc # "idle" => inFlight < FetchBound
  /\ ~(serving /\ pc = "idle" /\ tickPending)

Tick ==
  /\ MayWait
  /\ steadyFor' = IF Steady THEN Older(steadyFor) ELSE 0
  /\ inFlight' = IF pc = "idle" THEN 0 ELSE inFlight + 1
  /\ sinceTick' = IF serving /\ sinceTick + 1 < TTL THEN sinceTick + 1 ELSE 0
  /\ tickPending' = (tickPending \/ (serving /\ sinceTick + 1 = TTL))
  /\ UNCHANGED <<hubVersion, hubUp, keys, serving, pc, response, verdict>>

-----------------------------------------------------------------------------
FetchStep == HubReplies \/ FetchFails \/ KeepKeys \/ StoreKeys

Next ==
  \/ FetchStep \/ TakeTick
  \/ \E v \in Validator : Proceed(v) \/ \E t \in Token : Validate(v, t)
  \/ Rotate \/ HubFlips \/ Tick

Spec == Init /\ [][Next]_vars

\* A fetch is answered or fails, the goroutine runs and time goes on.
Fairness == WF_vars(FetchStep) /\ WF_vars(TakeTick) /\ WF_vars(Tick)

FairSpec == Spec /\ Fairness

-----------------------------------------------------------------------------
(* Properties *)

\* refresh, "Never clobber a working cache": once there are keys there are
\* always keys, through every outage, bad reply and rotation.
KeysNeverLost == [][keys # {} => keys' # {}]_vars

\* Validate follows the Hub: when the Hub has published the same keys for an
\* interval and two fetches, a token is accepted if and only if the Hub
\* publishes its key and nothing else is wrong with it.  A revoked key is
\* refused by then, and a new one known, whatever the Hub did before.
TokensFollowHub ==
  [][\A v \in Validator :
       /\ verdict[v] = NoVerdict /\ verdict'[v] # NoVerdict
       /\ steadyFor > SettlingTime
       => (verdict'[v].answer = "accepted" <=>
             /\ verdict'[v].kid \in Usable(hubVersion)
             /\ verdict'[v].flaw = "none")]_vars

\* main: a Hub that is down when the proxy starts delays it, no more.
ProxyStarts == <>serving

\* If the Hub stays up and its keys usable, the cache holds its last keys for
\* good, even if every fetch so far has failed.
KeysConverge ==
  <>[]Steady => <>[](keys = Usable(hubVersion))
=============================================================================
