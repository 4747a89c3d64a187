-------------------------------- MODULE Chat --------------------------------
(***************************************************************************)
(* The life of POST /v1/chat: the JWT middleware, handler.Chat and         *)
(* router.Router (internal/auth/middleware.go, internal/handler/chat.go,   *)
(* internal/router), the usage goroutine each request leaves behind, and   *)
(* the shutdown of main (cmd/proxy/main.go).                               *)
(*                                                                         *)
(* The limiter and the routing cache appear by what they may answer: see   *)
(* RateLimiter and RoutingCache.  Because the admin may edit the routing   *)
(* at any time, ResolveRoute may answer with any route, and with another   *)
(* one if it is asked again.  What a request asks for, and which of its    *)
(* peers never answer it, is chosen when it arrives.                       *)
(***************************************************************************)
EXTENDS Integers

CONSTANTS
  Request,      \* the requests clients send
  Route,        \* coreclient.RouteEntry values the cache may hand out
  Provider,     \* Provider[t]: ProviderType of route t
  TierMin,      \* TierMin[t]: the tier that route t asks for
  Tier,         \* subscription tiers that tokens and routes may name
  MayStall,     \* the parties that may leave a request hanging
  NoRoute       \* stands for the zero RouteEntry

ASSUME RouteAssumption ==
  /\ NoRoute \notin Route
  /\ Provider \in [Route -> {"openai", "anthropic", "gemini"}]
  /\ TierMin \in [Route -> Tier]
  /\ MayStall \subseteq {"client", "provider", "hub"}

VARIABLES
  process,      \* "up", "draining" after SIGTERM, "exited"
  pc,           \* where each request's handler is
  req,          \* what each request says and meets
  gone,         \* its client has closed the connection
  route,        \* the RouteEntry its handler holds
  fault,        \* the error of Forward or ForwardStream; "none" if nil
  status,       \* status line written; 0 before WriteHeader
  code,         \* error code written; "none" for none
  spoiled,      \* an error body was written into a started stream
  usage,        \* its usage goroutine
  event,        \* the UsageIngestEvent that goroutine carries
  called        \* history: the route whose provider was called

reqVars == <<pc, req, gone, route, fault>>
answerVars == <<status, code, spoiled>>
usageVars == <<usage, event>>
vars == <<process, reqVars, answerVars, usageVars, called>>

\* Provider faults, told apart by what writeProviderError and
\* mapProviderError look for in the text of the error.
Fault == {"gemini",         \* "streaming not supported for gemini"
          "badURL",         \* no request can be built from the BaseURL
          "http504",        \* status 504
          "httpError",      \* any other status from 300 up
          "dialTimeout",    \* "i/o timeout", "TLS handshake timeout"
          "clientTimeout",  \* "... (Client.Timeout exceeded ...)"
          "canceled",       \* "context canceled": the client has gone
          "badBody"}        \* truncated or malformed JSON
ProviderCode == {"provider_timeout", "provider_unavailable"}
Code == {"none", "unauthorized", "rate_limit_exceeded", "rate_limit_unavailable",
         "invalid_request", "routing_unavailable", "model_not_available",
         "model_tier_denied", "streaming_not_supported"} \cup ProviderCode

\* A request: its token's tier ("invalid" if Validate refuses the token),
\* whether it asks for a stream, and who stalls: a client that stops sending
\* or reading, a provider that never finishes its answer, a Hub that leaves the
\* call without one.
ReqType == [tier : Tier \cup {"invalid"}, stream : BOOLEAN,
            stalls : SUBSET MayStall]
NoReq == [tier |-> "invalid", stream |-> FALSE, stalls |-> {}]

EventType == [route : Route, tier : Tier, status : {"ok", "error"},
              code : {"none"} \cup ProviderCode]
NoEvent == [route |-> NoRoute]

\* The handler of r is running.
Running(r) == pc[r] \notin {"none", "done"}

TypeOK ==
  /\ process \in {"up", "draining", "exited"}
  /\ pc \in [Request -> {"none", "limit", "parse", "resolve", "forward", "waiting",
                         "relay", "failed", "respond", "account", "done"}]
  /\ req \in [Request -> ReqType]
  /\ gone \in [Request -> BOOLEAN]
  /\ route \in [Request -> Route \cup {NoRoute}]
  /\ fault \in [Request -> Fault \cup {"none"}]
  /\ status \in [Request -> {0, 200, 400, 401, 403, 404, 429, 501, 502, 503, 504}]
  /\ code \in [Request -> Code]
  /\ spoiled \in [Request -> BOOLEAN]
  /\ usage \in [Request -> {"none", "sending", "delivered", "dropped"}]
  /\ event \in [Request -> EventType \cup {NoEvent}]
  /\ called \in [Request -> Route \cup {NoRoute}]

Init ==
  /\ process = "up"
  /\ pc = [r \in Request |-> "none"]
  /\ req = [r \in Request |-> NoReq]
  /\ gone = [r \in Request |-> FALSE]
  /\ route = [r \in Request |-> NoRoute]
  /\ fault = [r \in Request |-> "none"]
  /\ status = [r \in Request |-> 0]
  /\ code = [r \in Request |-> "none"]
  /\ spoiled = [r \in Request |-> FALSE]
  /\ usage = [r \in Request |-> "none"]
  /\ event = [r \in Request |-> NoEvent]
  /\ called = [r \in Request |-> NoRoute]

-----------------------------------------------------------------------------
(* Pieces of the handler *)

tierRank == [free |-> 0, trial |-> 1, pro |-> 2, power |-> 3]

\* The zero value of a map lookup: a tier the map does not name ranks lowest.
Rank(t) == IF t \in DOMAIN tierRank THEN tierRank[t] ELSE 0

TierAllows(userTier, minTier) == Rank(userTier) >= Rank(minTier)

\* The text of the error decides: "504" or "timeout", in lower case.
mapProviderError(f) ==
  IF f \in {"http504", "dialTimeout"} THEN "provider_timeout"
  ELSE "provider_unavailable"

\* How Forward may end: the three adapters fail in the same ways.  A provider
\* that never finishes its answer is cut off by the timeout, and then it may be
\* any of them too: the error of io.ReadAll is ignored, so that what has
\* arrived decides.
ForwardOutcome ==
  {"none", "http504", "httpError", "dialTimeout", "clientTimeout", "badBody"}

\* How ForwardStream may end before it writes anything.
StreamOutcome == ForwardOutcome \ {"badBody"}

\* apierr.Write.  net/http ignores a second WriteHeader but sends the body.
WriteError(r, s, c) ==
  IF status[r] = 0
  THEN /\ status' = [status EXCEPT ![r] = s]
       /\ code' = [code EXCEPT ![r] = c]
       /\ UNCHANGED spoiled
  ELSE /\ spoiled' = [spoiled EXCEPT ![r] = TRUE]
       /\ UNCHANGED <<status, code>>

\* An early return of Handle: an error answer and no usage event.
Refuse(r, s, c) ==
  /\ pc' = [pc EXCEPT ![r] = "done"]
  /\ WriteError(r, s, c)

GoTo(r, label) ==
  /\ pc' = [pc EXCEPT ![r] = label]
  /\ UNCHANGED answerVars

-----------------------------------------------------------------------------
(* The handler *)

\* A request arrives and JWTMiddleware validates its token.
Arrive(r) ==
  /\ process = "up"
  /\ pc[r] = "none"
  /\ \E q \in ReqType :
       /\ req' = [req EXCEPT ![r] = q]
       /\ \/ /\ q.tier = "invalid"
             /\ Refuse(r, 401, "unauthorized")
          \/ /\ q.tier # "invalid"
             /\ GoTo(r, "limit")
  /\ UNCHANGED <<process, gone, route, fault, usageVars, called>>

\* Limiter.Check, answering whatever it may answer.
CheckLimit(r) ==
  /\ pc[r] = "limit"
  /\ \/ GoTo(r, "parse")
     \/ Refuse(r, 429, "rate_limit_exceeded")
     \/ Refuse(r, 503, "rate_limit_unavailable")
  /\ UNCHANGED <<process, req, gone, route, fault, usageVars, called>>

\* The body is decoded, and its messages redacted in place, or it is not what
\* Handle expects.
Parse(r) ==
  /\ pc[r] = "parse"
  /\ \/ GoTo(r, "resolve")
     \/ Refuse(r, 400, "invalid_request")
  /\ UNCHANGED <<process, req, gone, route, fault, usageVars, called>>

\* ResolveRoute and the tier check.
Resolve(r) ==
  /\ pc[r] = "resolve"
  /\ \/ /\ Refuse(r, 503, "routing_unavailable")
        /\ UNCHANGED route
     \/ /\ Refuse(r, 404, "model_not_available")
        /\ UNCHANGED route
     \/ \E t \in Route :
          /\ route' = [route EXCEPT ![r] = t]
          /\ \/ /\ TierAllows(req[r].tier, TierMin[t])
                /\ GoTo(r, "forward")
             \/ /\ ~TierAllows(req[r].tier, TierMin[t])
                /\ Refuse(r, 403, "model_tier_denied")
  /\ UNCHANGED <<process, req, gone, fault, usageVars, called>>

\* Forward or ForwardStream sends the request to the provider, unless none can
\* be built; there is no streaming adapter for gemini.
Forward(r) ==
  /\ pc[r] = "forward"
  /\ \/ /\ req[r].stream /\ Provider[route[r]] = "gemini"
        /\ fault' = [fault EXCEPT ![r] = "gemini"]
        /\ GoTo(r, "failed")
        /\ UNCHANGED called
     \/ /\ ~(req[r].stream /\ Provider[route[r]] = "gemini")
        /\ called' = [called EXCEPT ![r] = route[r]]
        /\ GoTo(r, "waiting")
        /\ UNCHANGED fault
     \/ /\ ~(req[r].stream /\ Provider[route[r]] = "gemini")
        /\ fault' = [fault EXCEPT ![r] = "badURL"]
        /\ GoTo(r, "failed")
        /\ UNCHANGED called
  /\ UNCHANGED <<process, req, gone, route, usageVars>>

\* Mutant: an http.Client without Timeout waits for as long as it takes.
MutantProviderAnswers(r) ==
  /\ pc[r] = "waiting"
  /\ gone[r] \/ "provider" \notin req[r].stalls
  /\ \E f \in StreamOutcome :
       /\ fault' = [fault EXCEPT ![r] = f]
       /\ GoTo(r, IF f = "none" THEN "account" ELSE "failed")
  /\ UNCHANGED <<process, req, gone, route, usageVars, called>>

\* Mutant: after a 504 the model is resolved and called again.
MutantFallback(r) ==
  /\ pc[r] = "waiting"
  /\ \E f \in ForwardOutcome :
       /\ fault' = [fault EXCEPT ![r] = f]
       /\ GoTo(r, IF f = "none" THEN "account"
                  ELSE IF f = "http504" THEN "resolve" ELSE "failed")
  /\ UNCHANGED <<process, req, gone, route, usageVars, called>>

\* The provider answers or the call fails.  A stream that has been accepted
\* starts with its header; a buffered answer is not written yet.
ProviderAnswers(r) ==
  /\ pc[r] = "waiting"
  /\ \E f \in (IF req[r].stream THEN StreamOutcome ELSE ForwardOutcome)
              \cup (IF gone[r] THEN {"canceled"} ELSE {}) :
       /\ fault' = [fault EXCEPT ![r] = f]
       /\ \/ /\ f # "none"
             /\ GoTo(r, "failed")
          \/ /\ f = "none" /\ ~req[r].stream
             /\ GoTo(r, "account")
          \/ /\ f = "none" /\ req[r].stream
             /\ pc' = [pc EXCEPT ![r] = "relay"]
             /\ status' = [status EXCEPT ![r] = 200]
             /\ UNCHANGED <<code, spoiled>>
  /\ UNCHANGED <<process, req, gone, route, usageVars, called>>

\* Mutant: a stream that was cut is an error, from scanner.Err.
MutantRelayEnds(r) ==
  /\ pc[r] = "relay"
  /\ \/ GoTo(r, "account") /\ UNCHANGED fault
     \/ GoTo(r, "failed") /\ fault' = [fault EXCEPT ![r] = "clientTimeout"]
  /\ UNCHANGED <<process, req, gone, route, usageVars, called>>

\* The relay loop ends: at the end of the stream, but also when it is cut by
\* the provider, the timeout or the client.  None of these is an error.
RelayEnds(r) ==
  /\ pc[r] = "relay"
  /\ GoTo(r, "account")
  /\ UNCHANGED <<process, req, gone, route, fault, usageVars, called>>

\* writeProviderError, or handleStream's choice between it and 501.  Its test
\* headersSent is false for every ResponseWriter of net/http.
AnswerFault(r) ==
  /\ pc[r] = "failed"
  /\ pc' = [pc EXCEPT ![r] = "account"]
  /\ \/ /\ fault[r] = "gemini"
        /\ WriteError(r, 501, "streaming_not_supported")
     \/ /\ fault[r] # "gemini"
        /\ WriteError(r, IF mapProviderError(fault[r]) = "provider_timeout" THEN 504
                         ELSE 502,
                      mapProviderError(fault[r]))
  /\ UNCHANGED <<process, req, gone, route, fault, usageVars, called>>

\* The usage event of r, as ingestUsage builds it from the arguments it is
\* given.
UsageEvent(r) ==
  [route |-> route[r], tier |-> req[r].tier,
   status |-> IF fault[r] = "none" THEN "ok" ELSE "error",
   code |-> IF fault[r] = "none" THEN "none" ELSE mapProviderError(fault[r])]

\* Mutant: the route is looked up again for the event.
MutantReresolve(r) ==
  /\ pc[r] = "account"
  /\ usage' = [usage EXCEPT ![r] = "sending"]
  /\ \E t \in Route :
       event' = [event EXCEPT ![r] = [UsageEvent(r) EXCEPT !.route = t]]
  /\ GoTo(r, IF status[r] = 0 THEN "respond" ELSE "done")
  /\ UNCHANGED <<process, req, gone, route, fault, called>>

\* Mutant: a request whose context is done leaves no event.
MutantAccount(r) ==
  /\ pc[r] = "account"
  /\ \/ /\ ~gone[r]
        /\ usage' = [usage EXCEPT ![r] = "sending"]
        /\ event' = [event EXCEPT ![r] = UsageEvent(r)]
     \/ gone[r] /\ UNCHANGED usageVars
  /\ GoTo(r, IF status[r] = 0 THEN "respond" ELSE "done")
  /\ UNCHANGED <<process, req, gone, route, fault, called>>

\* The go statement that leaves the usage goroutine behind.  A buffered answer
\* is written only after it.
Account(r) ==
  /\ pc[r] = "account"
  /\ usage' = [usage EXCEPT ![r] = "sending"]
  /\ event' = [event EXCEPT ![r] = UsageEvent(r)]
  /\ GoTo(r, IF status[r] = 0 THEN "respond" ELSE "done")
  /\ UNCHANGED <<process, req, gone, route, fault, called>>

\* The buffered answer.
Respond(r) ==
  /\ pc[r] = "respond"
  /\ pc' = [pc EXCEPT ![r] = "done"]
  /\ status' = [status EXCEPT ![r] = 200]
  /\ UNCHANGED <<process, req, gone, route, fault, code, spoiled,
                 usageVars, called>>

-----------------------------------------------------------------------------
(* The usage goroutine, clients and shutdown *)

\* Mutant: the goroutine's context has no timeout.
MutantIngest(r) ==
  /\ usage[r] = "sending"
  /\ "hub" \notin req[r].stalls
  /\ \E outcome \in {"delivered", "dropped"} :
       usage' = [usage EXCEPT ![r] = outcome]
  /\ UNCHANGED <<process, reqVars, answerVars, event, called>>

\* IngestUsage ends: the Hub takes the event, refuses it or lets the call time
\* out.  It is not tried again.
Ingest(r) ==
  /\ usage[r] = "sending"
  /\ \E outcome \in IF "hub" \in req[r].stalls THEN {"dropped"}
                    ELSE {"delivered", "dropped"} :
       usage' = [usage EXCEPT ![r] = outcome]
  /\ UNCHANGED <<process, reqVars, answerVars, event, called>>

\* The client closes its connection, which cancels r.Context().
Disconnect(r) ==
  /\ Running(r)
  /\ ~gone[r]
  /\ gone' = [gone EXCEPT ![r] = TRUE]
  /\ UNCHANGED <<process, pc, req, route, fault, answerVars, usageVars,
                 called>>

\* SIGINT or SIGTERM: srv.Shutdown closes the listener.
Signal ==
  /\ process = "up"
  /\ process' = "draining"
  /\ UNCHANGED <<reqVars, answerVars, usageVars, called>>

\* Shutdown returns, when no handler runs any more or when its ten seconds
\* are over, and main with it.  It does not wait for usage goroutines.
Exit ==
  /\ process = "draining"
  /\ process' = "exited"
  /\ UNCHANGED <<reqVars, answerVars, usageVars, called>>

-----------------------------------------------------------------------------
HandlerStep(r) ==
  \/ CheckLimit(r) \/ Parse(r) \/ Resolve(r) \/ Forward(r) \/ ProviderAnswers(r)
  \/ RelayEnds(r) \/ AnswerFault(r) \/ Account(r) \/ Respond(r)

Next ==
  \/ /\ process # "exited"
     /\ \E r \in Request : Arrive(r) \/ HandlerStep(r) \/ Ingest(r) \/ Disconnect(r)
  \/ Signal
  \/ Exit

Spec == Init /\ [][Next]_vars

\* The handler may be blocked on its client: it reads the body and writes the
\* answer without a deadline, because main gives the http.Server a
\* ReadHeaderTimeout and no other.  A client that has gone unblocks it.
HeldByClient(r) ==
  /\ "client" \in req[r].stalls
  /\ ~gone[r]
  /\ pc[r] \in {"parse", "relay", "respond"}

\* Goroutines run while the process does.  Every call they make, but for those
\* on the client's connection, has a timeout.
Fairness ==
  \A r \in Request :
    /\ WF_vars(process # "exited" /\ ~HeldByClient(r) /\ HandlerStep(r))
    /\ WF_vars(process # "exited" /\ Ingest(r))

FairSpec == Spec /\ Fairness

-----------------------------------------------------------------------------
(* Properties *)

\* A usage event tells the truth about its request, although it is built
\* after the answer (or, for a buffered one, before): it names the route that
\* was called and not one the admin has configured since, it says "ok"
\* exactly if the client was promised 200, and its error code is the one the
\* client got, unless that was "streaming not supported".  Without a call it
\* says "error".
EventTellsTheTruth ==
  \A r \in Request : usage[r] # "none" =>
    /\ called[r] # NoRoute => event[r].route = called[r]
    /\ called[r] = NoRoute => event[r].status = "error"
    /\ pc[r] = "done" => (event[r].status = "ok" <=> status[r] = 200)
    /\ pc[r] = "done" /\ status[r] # 501 => event[r].code = code[r]

\* Every 200 is accounted for: a client that has a whole answer, or a stream
\* whose handler has returned, has left a usage event, whenever the process
\* stopped.
AnswersAreAccounted ==
  \A r \in Request :
    status[r] = 200 => usage[r] # "none" \/ pc[r] \in {"relay", "account"}

\* No error body is ever written into a stream that has started, although
\* headersSent never notices that one has.
StreamNeverSpoiled == \A r \in Request : ~spoiled[r]

\* What Metering sees of r: its answer, its bill and whom the bill names.
AnswerOf(r) ==
  IF status[r] = 0 THEN "none" ELSE IF status[r] = 200 THEN "ok" ELSE "error"
BillOf(r) == IF usage[r] = "none" THEN "none" ELSE event[r].status
ChargedOf(r) == IF usage[r] = "none" THEN NoRoute ELSE event[r].route

Ledger == INSTANCE Metering WITH
  call <- called,
  answer <- [r \in Request |-> AnswerOf(r)],
  bill <- [r \in Request |-> BillOf(r)],
  charged <- [r \in Request |-> ChargedOf(r)],
  fate <- usage

\* The calls, answers and usage events of all requests, in the order that the
\* handler and the usage goroutine produce them, are those of Metering: one
\* call, one answer, one bill that agrees with both and is sent once.
ImplementsMetering == Ledger!Spec

\* Every request that arrives is answered, even if its provider never
\* answers, unless the process exits first or its own client, still
\* connected, holds the handler up.
EveryRequestEnds ==
  \A r \in Request :
    Running(r) ~> \/ pc[r] = "done" /\ status[r] # 0
                  \/ process = "exited"
                  \/ HeldByClient(r)

\* Every provider call ends in a usage event that reached the Hub or was given
\* up, even if provider and Hub never answer, unless the process exits first.
\* A client that does not read can keep a stream from being reported, but not
\* a buffered answer.
EveryCallIsReported ==
  \A r \in Request :
    called[r] # NoRoute ~> \/ usage[r] \in {"delivered", "dropped"}
                           \/ process = "exited"
                           \/ HeldByClient(r) /\ req[r].stream

\* docs/API.md, error table: an upstream timeout is 504 provider_timeout.  A
\* request whose provider call ran into the router's timeout gets that answer.
UpstreamTimeoutIs504 ==
  \A r \in Request :
    pc[r] = "done" /\ fault[r] \in {"dialTimeout", "clientTimeout"} => status[r] = 504
=============================================================================
