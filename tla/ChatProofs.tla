----------------------------- MODULE ChatProofs -----------------------------
(***************************************************************************)
(* Proofs about Chat, for any number of requests and any routes and tiers. *)
(***************************************************************************)
EXTENDS Chat, TLAPS

\* Nothing has been sent on behalf of r: no answer, call, error or event.
Fresh(r) ==
  status[r] = 0 /\ code[r] = "none" /\ usage[r] = "none" /\ fault[r] = "none"

\* The route that r holds is one its tier allows.
Allowed(r) ==
  /\ route[r] \in Route
  /\ req[r].tier \in Tier
  /\ Rank(req[r].tier) >= Rank(TierMin[route[r]])

\* Only the held route is ever called, and without a call there is an error.
\* The gemini error is one without a call.
CallFits(r) ==
  /\ called[r] \in {NoRoute, route[r]}
  /\ called[r] = NoRoute => fault[r] # "none"
  /\ fault[r] = "gemini" => called[r] = NoRoute

\* The answer of r is the one its error asks for.
Answered(r) ==
  \/ fault[r] = "none" /\ status[r] = 200 /\ code[r] = "none"
  \/ fault[r] = "gemini" /\ status[r] = 501 /\ code[r] = "streaming_not_supported"
  \/ /\ fault[r] \notin {"none", "gemini"}
     /\ status[r] \in {502, 504}
     /\ code[r] = mapProviderError(fault[r])

\* The handler of r has not got beyond the tier check, or has just passed it.
Before(r) ==
  /\ pc[r] \in {"none", "limit", "parse", "resolve", "forward"} =>
       Fresh(r) /\ called[r] = NoRoute
  /\ pc[r] \in {"limit", "parse", "resolve"} => req[r].tier \in Tier

\* The handler of r is in Forward, ForwardStream or the code after them.
Calling(r) ==
  /\ pc[r] \in {"forward", "waiting", "relay", "failed", "account", "respond"} =>
       Allowed(r)
  /\ pc[r] = "waiting" => Fresh(r) /\ called[r] = route[r]
  /\ pc[r] = "relay" => Answered(r) /\ usage[r] = "none" /\ called[r] = route[r]
                        /\ fault[r] = "none"
  /\ pc[r] = "failed" => /\ status[r] = 0 /\ code[r] = "none" /\ usage[r] = "none"
                         /\ fault[r] # "none"
                         /\ CallFits(r)

\* The handler of r has its result: it accounts, writes a buffered answer and
\* returns.
After(r) ==
  /\ pc[r] = "account" => /\ Answered(r) \/ Fresh(r)
                          /\ usage[r] = "none"
                          /\ CallFits(r)
  /\ pc[r] = "respond" => /\ status[r] = 0 /\ code[r] = "none" /\ fault[r] = "none"
                          /\ CallFits(r)
                          /\ usage[r] # "none" /\ event[r] = UsageEvent(r)
  /\ pc[r] = "done" =>
       \/ usage[r] = "none" /\ called[r] = NoRoute /\ status[r] # 200
       \/ /\ usage[r] # "none" /\ event[r] = UsageEvent(r)
          /\ Allowed(r) /\ CallFits(r) /\ Answered(r)

\* What is known of r where its handler is.
ReqInv(r) == spoiled[r] = FALSE /\ Before(r) /\ Calling(r) /\ After(r)

Inv == TypeOK /\ \A r \in Request : ReqInv(r)

-----------------------------------------------------------------------------
\* An error is reported as one of the two provider codes.
LEMMA MapType == \A f : mapProviderError(f) \in ProviderCode
BY DEF mapProviderError, ProviderCode

\* The initial states satisfy the invariant.
LEMMA InvInit == Init => Inv
<1> SUFFICES ASSUME Init PROVE Inv
  OBVIOUS
<1>1. NoReq \in ReqType
  BY DEF NoReq, ReqType
<1>2. gone \in [Request -> BOOLEAN] /\ spoiled \in [Request -> BOOLEAN]
  BY DEF Init
<1>3. /\ req \in [Request -> ReqType]
      /\ event \in [Request -> EventType \cup {NoEvent}]
  BY <1>1 DEF Init
<1>4. /\ process \in {"up", "draining", "exited"}
      /\ pc \in [Request -> {"none", "limit", "parse", "resolve", "forward", "waiting",
                             "relay", "failed", "respond", "account", "done"}]
      /\ route \in [Request -> Route \cup {NoRoute}]
      /\ fault \in [Request -> Fault \cup {"none"}]
      /\ status \in [Request -> {0, 200, 400, 401, 403, 404, 429, 501, 502, 503, 504}]
      /\ code \in [Request -> Code]
      /\ usage \in [Request -> {"none", "sending", "delivered", "dropped"}]
      /\ called \in [Request -> Route \cup {NoRoute}]
  BY DEF Init, Code
<1>5. \A r \in Request : ReqInv(r)
  BY DEF Init, ReqInv, Before, Calling, After, Fresh
<1> QED
  BY <1>2, <1>3, <1>4, <1>5 DEF Inv, TypeOK

\* What an event says has the type of an event.
LEMMA EventHasType ==
  ASSUME TypeOK, NEW r \in Request, Allowed(r)
  PROVE  UsageEvent(r) \in EventType
BY MapType DEF UsageEvent, EventType, Allowed

\* Nothing about q changes in this step.
Same(q) ==
  /\ pc'[q] = pc[q] /\ req'[q] = req[q] /\ route'[q] = route[q]
  /\ fault'[q] = fault[q] /\ status'[q] = status[q] /\ code'[q] = code[q]
  /\ spoiled'[q] = spoiled[q] /\ usage'[q] = usage[q] /\ event'[q] = event[q]
  /\ called'[q] = called[q]

\* What is known of a request stays known when nothing about it changes.
LEMMA Frame ==
  ASSUME NEW q, ReqInv(q), Same(q)
  PROVE  ReqInv(q)'
<1>1. UsageEvent(q)' = UsageEvent(q) /\ event'[q] = event[q]
  BY DEF Same, UsageEvent
<1>2. /\ Fresh(q)' <=> Fresh(q)
      /\ Allowed(q)' <=> Allowed(q)
      /\ CallFits(q)' <=> CallFits(q)
      /\ Answered(q)' <=> Answered(q)
  BY DEF Same, Fresh, Allowed, CallFits, Answered
<1>3. Before(q) => Before(q)'
  BY <1>2 DEF Before, Same
<1>4. Calling(q) => Calling(q)'
  BY <1>2 DEF Calling, Same
<1>5. After(q) => After(q)'
  BY <1>1, <1>2 DEF After, Same
<1> QED
  BY <1>3, <1>4, <1>5 DEF ReqInv, Same

\* Where the handlers are and what they have answered, as TypeOK types them.
Label == {"none", "limit", "parse", "resolve", "forward", "waiting", "relay",
          "failed", "respond", "account", "done"}
Status == {0, 200, 400, 401, 403, 404, 429, 501, 502, 503, 504}
AnswerTypeOK ==
  /\ pc \in [Request -> Label]
  /\ status \in [Request -> Status]
  /\ code \in [Request -> Code]
  /\ spoiled \in [Request -> BOOLEAN]

\* An error answer keeps the types.
LEMMA WriteErrorType ==
  ASSUME TypeOK, NEW r \in Request, NEW s \in Status, NEW c \in Code,
         WriteError(r, s, c)
  PROVE  /\ status' \in [Request -> Status]
         /\ code' \in [Request -> Code]
         /\ spoiled' \in [Request -> BOOLEAN]
<1>1. CASE status[r] = 0
  BY <1>1 DEF WriteError, TypeOK, Status
<1>2. CASE status[r] # 0
  <2>1. spoiled' = [spoiled EXCEPT ![r] = TRUE]
    BY <1>2 DEF WriteError
  <2>2. spoiled' \in [Request -> BOOLEAN]
    BY <2>1 DEF TypeOK
  <2> QED
    BY <1>2, <2>2 DEF WriteError, TypeOK, Status
<1> QED
  BY <1>1, <1>2

\* The early returns of the handler.
Refused(r) ==
  \/ Refuse(r, 401, "unauthorized")
  \/ Refuse(r, 429, "rate_limit_exceeded")
  \/ Refuse(r, 503, "rate_limit_unavailable")
  \/ Refuse(r, 400, "invalid_request")
  \/ Refuse(r, 503, "routing_unavailable")
  \/ Refuse(r, 404, "model_not_available")
  \/ Refuse(r, 403, "model_tier_denied")

\* Each of them is an error with a code of its own, never a 200.
LEMMA RefusedIsError ==
  ASSUME NEW r, Refused(r)
  PROVE  \E s \in Status \ {200} : \E c \in Code : Refuse(r, s, c)
<1>1. /\ 401 \in Status \ {200} /\ 429 \in Status \ {200} /\ 503 \in Status \ {200}
      /\ 400 \in Status \ {200} /\ 404 \in Status \ {200} /\ 403 \in Status \ {200}
  BY DEF Status
<1>2. /\ "unauthorized" \in Code /\ "rate_limit_exceeded" \in Code
      /\ "rate_limit_unavailable" \in Code /\ "invalid_request" \in Code
      /\ "routing_unavailable" \in Code /\ "model_not_available" \in Code
      /\ "model_tier_denied" \in Code
  BY DEF Code
<1>3. CASE Refuse(r, 401, "unauthorized")
  BY <1>1, <1>2, <1>3
<1>4. CASE Refuse(r, 429, "rate_limit_exceeded")
  BY <1>1, <1>2, <1>4
<1>5. CASE Refuse(r, 503, "rate_limit_unavailable")
  BY <1>1, <1>2, <1>5
<1>6. CASE Refuse(r, 400, "invalid_request")
  BY <1>1, <1>2, <1>6
<1>7. CASE Refuse(r, 503, "routing_unavailable")
  BY <1>1, <1>2, <1>7
<1>8. CASE Refuse(r, 404, "model_not_available")
  BY <1>1, <1>2, <1>8
<1>9. CASE Refuse(r, 403, "model_tier_denied")
  BY <1>1, <1>2, <1>9
<1> QED
  BY <1>3, <1>4, <1>5, <1>6, <1>7, <1>8, <1>9 DEF Refused

\* An early return keeps the types.
LEMMA RefusedType ==
  ASSUME TypeOK, NEW r \in Request, Refused(r)
  PROVE  AnswerTypeOK'
<1>1. PICK s \in Status \ {200} : \E c \in Code : Refuse(r, s, c)
  BY RefusedIsError
<1>2. PICK c \in Code : Refuse(r, s, c)
  BY <1>1
<1> QED
  BY <1>2, WriteErrorType DEF Refuse, AnswerTypeOK, TypeOK, Label

\* And so does a jump.
LEMMA GoToType ==
  ASSUME TypeOK, NEW r \in Request, NEW label \in Label, GoTo(r, label)
  PROVE  AnswerTypeOK'
BY DEF GoTo, answerVars, AnswerTypeOK, TypeOK, Label, Status

\* Every step keeps the types.
LEMMA TypeStep == Inv /\ [Next]_vars => TypeOK'
<1> SUFFICES ASSUME Inv, [Next]_vars PROVE TypeOK'
  OBVIOUS
<1> USE DEF reqVars, answerVars, usageVars
<1>0. TypeOK /\ \A r \in Request : ReqInv(r)
  BY DEF Inv
<1>1. ASSUME NEW r \in Request, Arrive(r) PROVE TypeOK'
  <2>1. AnswerTypeOK'
    BY <1>0, <1>1, RefusedType, GoToType DEF Arrive, Refused, Label
  <2>2. req' \in [Request -> ReqType]
    BY <1>0, <1>1 DEF Arrive, TypeOK
  <2> QED
    BY <1>0, <1>1, <2>1, <2>2 DEF Arrive, TypeOK, AnswerTypeOK, Label, Status
<1>2. ASSUME NEW r \in Request, CheckLimit(r) PROVE TypeOK'
  <2>1. AnswerTypeOK'
    BY <1>0, <1>2, RefusedType, GoToType DEF CheckLimit, Refused, Label
  <2> QED
    BY <1>0, <1>2, <2>1 DEF CheckLimit, TypeOK, AnswerTypeOK, Label, Status
<1>3. ASSUME NEW r \in Request, Parse(r) PROVE TypeOK'
  <2>1. AnswerTypeOK'
    BY <1>0, <1>3, RefusedType, GoToType DEF Parse, Refused, Label
  <2> QED
    BY <1>0, <1>3, <2>1 DEF Parse, TypeOK, AnswerTypeOK, Label, Status
<1>4. ASSUME NEW r \in Request, Resolve(r) PROVE TypeOK'
  <2>1. AnswerTypeOK'
    BY <1>0, <1>4, RefusedType, GoToType DEF Resolve, Refused, Label
  <2>2. route' \in [Request -> Route \cup {NoRoute}]
    BY <1>0, <1>4 DEF Resolve, TypeOK
  <2> QED
    BY <1>0, <1>4, <2>1, <2>2 DEF Resolve, TypeOK, AnswerTypeOK, Label, Status
<1>5. ASSUME NEW r \in Request, Forward(r) PROVE TypeOK'
  <2>1. pc[r] = "forward" => route[r] \in Route
    BY <1>0 DEF ReqInv, Calling, Allowed
  <2>2. AnswerTypeOK'
    BY <1>0, <1>5, GoToType DEF Forward, Label
  <2>3. /\ fault' \in [Request -> Fault \cup {"none"}]
        /\ called' \in [Request -> Route \cup {NoRoute}]
    BY <1>0, <1>5, <2>1 DEF Forward, TypeOK, Fault
  <2> QED
    BY <1>0, <1>5, <2>2, <2>3 DEF Forward, TypeOK, AnswerTypeOK, Label, Status
<1>6. ASSUME NEW r \in Request, ProviderAnswers(r) PROVE TypeOK'
  <2>1. PICK f \in Fault \cup {"none"} :
          /\ fault' = [fault EXCEPT ![r] = f]
          /\ \/ GoTo(r, "failed")
             \/ GoTo(r, "account")
             \/ /\ pc' = [pc EXCEPT ![r] = "relay"]
                /\ status' = [status EXCEPT ![r] = 200]
                /\ UNCHANGED <<code, spoiled>>
    <3>1. PICK f \in (IF req[r].stream THEN StreamOutcome ELSE ForwardOutcome)
                     \cup (IF gone[r] THEN {"canceled"} ELSE {}) :
            /\ fault' = [fault EXCEPT ![r] = f]
            /\ \/ f # "none" /\ GoTo(r, "failed")
               \/ f = "none" /\ ~req[r].stream /\ GoTo(r, "account")
               \/ /\ f = "none" /\ req[r].stream
                  /\ pc' = [pc EXCEPT ![r] = "relay"]
                  /\ status' = [status EXCEPT ![r] = 200]
                  /\ UNCHANGED <<code, spoiled>>
      BY <1>6, Zenon DEF ProviderAnswers
    <3>2. ForwardOutcome \subseteq Fault \cup {"none"}
      BY DEF ForwardOutcome, Fault
    <3>3. StreamOutcome \subseteq Fault \cup {"none"}
      BY <3>2 DEF StreamOutcome
    <3>4. "canceled" \in Fault
      BY DEF Fault
    <3>5. f \in Fault \cup {"none"}
      BY <3>1, <3>2, <3>3, <3>4
    <3> QED
      BY <3>1, <3>5
  <2>2. AnswerTypeOK'
    BY <1>0, <2>1, GoToType DEF AnswerTypeOK, TypeOK, Label, Status
  <2>3. fault' \in [Request -> Fault \cup {"none"}]
    BY <1>0, <2>1 DEF TypeOK
  <2> QED
    BY <1>0, <1>6, <2>2, <2>3 DEF ProviderAnswers, TypeOK, AnswerTypeOK, Label, Status
<1>7. ASSUME NEW r \in Request, RelayEnds(r) PROVE TypeOK'
  BY <1>0, <1>7, GoToType DEF RelayEnds, TypeOK, AnswerTypeOK, Label, Status
<1>8. ASSUME NEW r \in Request, AnswerFault(r) PROVE TypeOK'
  <2>1. /\ status' \in [Request -> Status]
        /\ code' \in [Request -> Code]
        /\ spoiled' \in [Request -> BOOLEAN]
    <3>1. /\ 501 \in Status /\ 502 \in Status /\ 504 \in Status
          /\ "streaming_not_supported" \in Code
      BY DEF Status, Code
    <3>2. mapProviderError(fault[r]) \in Code
      BY MapType, Zenon DEF Code
    <3>3. CASE WriteError(r, 501, "streaming_not_supported")
      BY <1>0, <3>1, <3>3, WriteErrorType
    <3>4. CASE WriteError(r, 504, mapProviderError(fault[r]))
      BY <1>0, <3>1, <3>2, <3>4, WriteErrorType
    <3>5. CASE WriteError(r, 502, mapProviderError(fault[r]))
      BY <1>0, <3>1, <3>2, <3>5, WriteErrorType
    <3>6. \/ WriteError(r, 501, "streaming_not_supported")
          \/ WriteError(r, IF mapProviderError(fault[r]) = "provider_timeout"
                           THEN 504 ELSE 502,
                        mapProviderError(fault[r]))
      BY <1>8, Zenon DEF AnswerFault
    <3>7. CASE mapProviderError(fault[r]) = "provider_timeout"
      <4>1. \/ WriteError(r, 501, "streaming_not_supported")
            \/ WriteError(r, 504, mapProviderError(fault[r]))
        BY <3>6, <3>7, Zenon
      <4> QED
        BY <4>1, <3>3, <3>4, Zenon
    <3>8. CASE mapProviderError(fault[r]) # "provider_timeout"
      <4>1. \/ WriteError(r, 501, "streaming_not_supported")
            \/ WriteError(r, 502, mapProviderError(fault[r]))
        BY <3>6, <3>8, Zenon
      <4> QED
        BY <4>1, <3>3, <3>5, Zenon
    <3> QED
      BY <3>7, <3>8, Zenon
  <2>2. /\ pc' = [pc EXCEPT ![r] = "account"]
        /\ UNCHANGED <<process, req, gone, route, fault, usage, event, called>>
    BY <1>8 DEF AnswerFault, usageVars
  <2> QED
    BY <1>0, <2>1, <2>2 DEF TypeOK, Status
<1>9. ASSUME NEW r \in Request, Account(r) PROVE TypeOK'
  <2>1. AnswerTypeOK'
    BY <1>0, <1>9, GoToType DEF Account, Label
  <2>2. Allowed(r)
    BY <1>0, <1>9 DEF Account, ReqInv, Calling
  <2>3. /\ usage' \in [Request -> {"none", "sending", "delivered", "dropped"}]
        /\ event' \in [Request -> EventType \cup {NoEvent}]
    BY <1>0, <1>9, <2>2, EventHasType DEF Account, TypeOK
  <2> QED
    BY <1>0, <1>9, <2>1, <2>3 DEF Account, TypeOK, AnswerTypeOK, Label, Status
<1>10. ASSUME NEW r \in Request, Respond(r) PROVE TypeOK'
  BY <1>0, <1>10 DEF Respond, TypeOK
<1>11. ASSUME NEW r \in Request, Ingest(r) PROVE TypeOK'
  BY <1>0, <1>11 DEF Ingest, TypeOK
<1>12. ASSUME NEW r \in Request, Disconnect(r) PROVE TypeOK'
  BY <1>0, <1>12 DEF Disconnect, TypeOK
<1>13. ASSUME Signal \/ Exit PROVE TypeOK'
  BY <1>0, <1>13 DEF Signal, Exit, TypeOK
<1>14. ASSUME UNCHANGED vars PROVE TypeOK'
  BY <1>0, <1>14 DEF vars, TypeOK
<1> QED
  BY <1>1, <1>2, <1>3, <1>4, <1>5, <1>6, <1>7, <1>8, <1>9, <1>10, <1>11, <1>12,
     <1>13, <1>14 DEF Next, HandlerStep

-----------------------------------------------------------------------------
\* A step of r leaves what is known of the others as it was.
LEMMA Others ==
  ASSUME Inv, NEW r \in Request, Arrive(r) \/ HandlerStep(r) \/ Ingest(r)
  PROVE  \A q \in Request \ {r} : Same(q)
<1> SUFFICES ASSUME NEW q \in Request, q # r PROVE Same(q)
  OBVIOUS
<1> USE DEF Inv, reqVars, answerVars, usageVars, GoTo, Refuse, WriteError, TypeOK, Same
<1>1. CASE Arrive(r)
  BY <1>1 DEF Arrive
<1>2. CASE CheckLimit(r)
  BY <1>2 DEF CheckLimit
<1>3. CASE Parse(r)
  BY <1>3 DEF Parse
<1>4. CASE Resolve(r)
  BY <1>4 DEF Resolve
<1>5. CASE Forward(r)
  BY <1>5 DEF Forward
<1>6. CASE ProviderAnswers(r)
  BY <1>6 DEF ProviderAnswers
<1>7. CASE RelayEnds(r)
  BY <1>7 DEF RelayEnds
<1>8. CASE AnswerFault(r)
  BY <1>8 DEF AnswerFault
<1>9. CASE Account(r)
  BY <1>9 DEF Account
<1>10. CASE Respond(r)
  BY <1>10 DEF Respond
<1>11. CASE Ingest(r)
  BY <1>11 DEF Ingest
<1> QED
  BY <1>1, <1>2, <1>3, <1>4, <1>5, <1>6, <1>7, <1>8, <1>9, <1>10, <1>11
     DEF HandlerStep

\* An early return before the provider is called keeps what is known of r.
LEMMA RefusedStep ==
  ASSUME Inv, NEW r \in Request, Refused(r),
         pc[r] \in {"none", "limit", "parse", "resolve"},
         UNCHANGED <<called, usage>>
  PROVE  ReqInv(r)'
<1>1. Fresh(r) /\ called[r] = NoRoute /\ spoiled[r] = FALSE /\ TypeOK
  BY DEF Inv, ReqInv, Before
<1>2. /\ pc'[r] = "done" /\ spoiled'[r] = FALSE /\ status'[r] # 200
      /\ usage'[r] = "none" /\ called'[r] = NoRoute
  <2>1. usage'[r] = "none" /\ called'[r] = NoRoute
    BY <1>1 DEF Fresh
  <2>2. PICK s \in Status \ {200} : \E c \in Code : Refuse(r, s, c)
    BY RefusedIsError
  <2>3. PICK c \in Code : Refuse(r, s, c)
    BY <2>2
  <2>4. /\ pc' = [pc EXCEPT ![r] = "done"]
        /\ status' = [status EXCEPT ![r] = s]
        /\ UNCHANGED spoiled
    BY <1>1, <2>3 DEF Refuse, WriteError, Fresh
  <2> QED
    BY <1>1, <2>1, <2>2, <2>4 DEF TypeOK, Status
<1>3. Before(r)' /\ Calling(r)'
  BY <1>2 DEF Before, Calling
<1>4. After(r)'
  BY <1>2 DEF After
<1> QED
  BY <1>2, <1>3, <1>4 DEF ReqInv

\* So does every other step of the handler.
LEMMA HandlerKeepsReqInv ==
  ASSUME Inv, NEW r \in Request, Arrive(r) \/ HandlerStep(r)
  PROVE  ReqInv(r)'
<1> USE DEF reqVars, answerVars, usageVars, GoTo
<1>1. /\ spoiled[r] = FALSE /\ Before(r) /\ Calling(r) /\ After(r)
      /\ r \in DOMAIN pc /\ r \in DOMAIN req /\ r \in DOMAIN route
      /\ r \in DOMAIN fault /\ r \in DOMAIN status /\ r \in DOMAIN code
      /\ r \in DOMAIN spoiled /\ r \in DOMAIN usage /\ r \in DOMAIN event
      /\ r \in DOMAIN called
  BY DEF Inv, ReqInv, TypeOK
<1>2. ASSUME Refused(r), pc[r] \in {"none", "limit", "parse", "resolve"},
             UNCHANGED <<called, usage>>
      PROVE  ReqInv(r)'
  BY <1>2, RefusedStep
<1>3. CASE Arrive(r)
  <2>1. CASE Refused(r)
    BY <1>2, <1>3, <2>1 DEF Arrive
  <2>2. CASE ~Refused(r)
    <3>1. /\ pc'[r] = "limit" /\ req'[r].tier \in Tier
          /\ Fresh(r)' /\ called'[r] = NoRoute /\ spoiled'[r] = FALSE
      BY <1>1, <1>3, <2>2 DEF Arrive, Refused, Before, Fresh, ReqType
    <3> QED
      BY <3>1 DEF ReqInv, Before, Calling, After
  <2> QED
    BY <2>1, <2>2
<1>4. CASE CheckLimit(r) \/ Parse(r)
  <2>1. CASE Refused(r)
    BY <1>2, <1>4, <2>1 DEF CheckLimit, Parse
  <2>2. CASE ~Refused(r)
    <3>1. /\ pc'[r] \in {"parse", "resolve"} /\ req'[r].tier \in Tier
          /\ Fresh(r)' /\ called'[r] = NoRoute /\ spoiled'[r] = FALSE
      BY <1>1, <1>4, <2>2 DEF CheckLimit, Parse, Refused, Before, Fresh
    <3> QED
      BY <3>1 DEF ReqInv, Before, Calling, After
  <2> QED
    BY <2>1, <2>2
<1>5. CASE Resolve(r)
  <2>1. CASE Refused(r)
    BY <1>2, <1>5, <2>1 DEF Resolve
  <2>2. CASE ~Refused(r)
    <3>1. PICK t \in Route : /\ route' = [route EXCEPT ![r] = t]
                             /\ TierAllows(req[r].tier, TierMin[t])
                             /\ pc' = [pc EXCEPT ![r] = "forward"]
      BY <1>5, <2>2 DEF Resolve, Refused
    <3>2. /\ pc'[r] = "forward" /\ Allowed(r)'
          /\ Fresh(r)' /\ called'[r] = NoRoute /\ spoiled'[r] = FALSE
      BY <1>1, <1>5, <2>2, <3>1
         DEF Resolve, Refused, Before, Fresh, Allowed, TierAllows
    <3> QED
      BY <3>2 DEF ReqInv, Before, Calling, After
  <2> QED
    BY <2>1, <2>2
<1>6. CASE Forward(r)
  <2>1. CASE called'[r] = route[r] /\ pc'[r] = "waiting"
    <3>1. Fresh(r)' /\ called'[r] = route'[r] /\ Allowed(r)' /\ spoiled'[r] = FALSE
      BY <1>1, <1>6, <2>1 DEF Forward, Before, Calling, Fresh, Allowed
    <3> QED
      BY <2>1, <3>1 DEF ReqInv, Before, Calling, After
  <2>2. CASE called'[r] = NoRoute /\ pc'[r] = "failed" /\ fault'[r] # "none"
    <3>1. /\ status'[r] = 0 /\ code'[r] = "none" /\ usage'[r] = "none"
          /\ Allowed(r)' /\ spoiled'[r] = FALSE
      BY <1>1, <1>6, <2>2 DEF Forward, Before, Calling, Fresh, Allowed
    <3>2. CallFits(r)'
      BY <2>2 DEF CallFits
    <3> QED
      BY <2>2, <3>1, <3>2 DEF ReqInv, Before, Calling, After
  <2> QED
    BY <1>1, <1>6, <2>1, <2>2 DEF Forward, Before
<1>7. CASE ProviderAnswers(r)
  <2>1. /\ Allowed(r)' /\ spoiled'[r] = FALSE
        /\ called'[r] = route'[r] /\ called'[r] # NoRoute
        /\ fault'[r] # "gemini" /\ code'[r] = "none" /\ usage'[r] = "none"
    BY <1>1, <1>7, RouteAssumption
       DEF ProviderAnswers, StreamOutcome, ForwardOutcome, Calling, Fresh, Allowed, RouteAssumption
  <2>2. CallFits(r)'
    BY <2>1 DEF CallFits
  <2>3. CASE pc'[r] = "failed" /\ fault'[r] # "none" /\ status'[r] = 0
    BY <2>1, <2>2, <2>3 DEF ReqInv, Before, Calling, After
  <2>4. CASE pc'[r] = "account" /\ fault'[r] = "none" /\ status'[r] = 0
    <3>1. Fresh(r)'
      BY <2>1, <2>4 DEF Fresh
    <3> QED
      BY <2>1, <2>2, <2>4, <3>1 DEF ReqInv, Before, Calling, After
  <2>5. CASE pc'[r] = "relay" /\ fault'[r] = "none" /\ status'[r] = 200
    <3>1. Answered(r)'
      BY <2>1, <2>5 DEF Answered
    <3> QED
      BY <2>1, <2>5, <3>1 DEF ReqInv, Before, Calling, After
  <2> QED
    BY <1>1, <1>7, <2>3, <2>4, <2>5 DEF ProviderAnswers, Calling, Fresh
<1>8. CASE RelayEnds(r)
  <2>1. pc'[r] = "account" /\ usage'[r] = "none" /\ spoiled'[r] = FALSE
    BY <1>1, <1>8 DEF RelayEnds, Calling
  <2>2. Allowed(r)' /\ Answered(r)'
    BY <1>1, <1>8 DEF RelayEnds, Calling, Allowed, Answered
  <2>3. CallFits(r)'
    BY <1>1, <1>8, RouteAssumption
       DEF RelayEnds, Calling, Allowed, CallFits, RouteAssumption
  <2> QED
    BY <2>1, <2>2, <2>3 DEF ReqInv, Before, Calling, After
<1>9. CASE AnswerFault(r)
  <2>1. /\ status[r] = 0 /\ fault[r] # "none" /\ usage[r] = "none"
        /\ Allowed(r) /\ CallFits(r)
    BY <1>1, <1>9 DEF AnswerFault, Calling
  <2>2. /\ pc'[r] = "account" /\ usage'[r] = "none" /\ spoiled'[r] = FALSE
        /\ UNCHANGED <<req, route, fault, called>>
    BY <1>1, <1>9, <2>1 DEF AnswerFault, WriteError
  <2>3. Allowed(r)' /\ CallFits(r)'
    BY <2>1, <2>2 DEF Allowed, CallFits
  <2>4. Answered(r)'
    <3>1. CASE fault[r] = "gemini"
      BY <1>1, <1>9, <2>1, <2>2, <3>1 DEF AnswerFault, WriteError, Answered
    <3>2. CASE fault[r] # "gemini"
      <4>1. /\ code'[r] = mapProviderError(fault[r])
            /\ status'[r] \in {502, 504}
        BY <1>1, <1>9, <2>1, <3>2 DEF AnswerFault, WriteError
      <4>2. fault'[r] = fault[r]
        BY <2>2
      <4> QED
        BY <2>1, <3>2, <4>1, <4>2 DEF Answered
    <3> QED
      BY <3>1, <3>2
  <2> QED
    BY <2>2, <2>3, <2>4 DEF ReqInv, Before, Calling, After
<1>10. CASE Account(r)
  <2>1. /\ Allowed(r)' /\ CallFits(r)' /\ spoiled'[r] = FALSE
        /\ usage'[r] # "none" /\ event'[r] = UsageEvent(r)'
    BY <1>1, <1>10 DEF Account, Calling, After, Allowed, CallFits, UsageEvent
  <2>2. CASE Fresh(r)
    <3>1. pc'[r] = "respond" /\ status'[r] = 0 /\ code'[r] = "none" /\ fault'[r] = "none"
      BY <1>1, <1>10, <2>2 DEF Account, Fresh
    <3> QED
      BY <2>1, <3>1 DEF ReqInv, Before, Calling, After
  <2>3. CASE Answered(r)
    <3>1. status[r] # 0
      BY <2>3 DEF Answered, mapProviderError
    <3>2. pc'[r] = "done" /\ UNCHANGED <<fault, status, code>>
      BY <1>1, <1>10, <3>1 DEF Account
    <3>3. Answered(r)'
      BY <2>3, <3>2 DEF Answered
    <3> QED
      BY <2>1, <3>2, <3>3 DEF ReqInv, Before, Calling, After
  <2> QED
    BY <1>1, <1>10, <2>2, <2>3 DEF Account, After
<1>11. CASE Respond(r)
  <2>1. /\ Allowed(r)' /\ CallFits(r)' /\ Answered(r)'
        /\ usage'[r] # "none" /\ event'[r] = UsageEvent(r)'
        /\ pc'[r] = "done" /\ spoiled'[r] = FALSE
    BY <1>1, <1>11
       DEF Respond, Calling, After, Allowed, CallFits, Answered, UsageEvent
  <2> QED
    BY <2>1 DEF ReqInv, Before, Calling, After
<1> QED
  BY <1>3, <1>4, <1>5, <1>6, <1>7, <1>8, <1>9, <1>10, <1>11 DEF HandlerStep

\* Every step keeps the invariant.
LEMMA InvStep == Inv /\ [Next]_vars => Inv'
<1> SUFFICES ASSUME Inv, [Next]_vars PROVE Inv'
  OBVIOUS
<1>1. TypeOK'
  BY TypeStep
<1>2. ASSUME NEW r \in Request, Arrive(r) \/ HandlerStep(r)
      PROVE  \A q \in Request : ReqInv(q)'
  <2>1. \A q \in Request \ {r} : ReqInv(q)'
    BY <1>2, Others, Frame DEF Inv
  <2> QED
    BY <1>2, <2>1, HandlerKeepsReqInv
<1>3. ASSUME NEW r \in Request, Ingest(r)
      PROVE  \A q \in Request : ReqInv(q)'
  <2>1. \A q \in Request \ {r} : ReqInv(q)'
    BY <1>3, Others, Frame DEF Inv
  <2>2. usage[r] # "none" /\ usage'[r] # "none"
    BY <1>3 DEF Ingest, Inv, TypeOK
  <2>3. UNCHANGED <<pc, req, route, fault, status, code, spoiled, event, called>>
    BY <1>3 DEF Ingest, reqVars, answerVars
  <2>4. /\ ~Fresh(r) /\ ReqInv(r)
        /\ Allowed(r)' <=> Allowed(r)
        /\ Answered(r)' <=> Answered(r)
        /\ CallFits(r)' <=> CallFits(r)
        /\ UsageEvent(r)' = UsageEvent(r)
    BY <2>2, <2>3
       DEF Inv, Fresh, Allowed, Answered, CallFits, UsageEvent, mapProviderError
  <2>5. pc[r] \in {"respond", "done"}
    <3>1. /\ pc[r] \in {"none", "limit", "parse", "resolve", "forward"} => usage[r] = "none"
          /\ pc[r] \in {"waiting", "relay", "failed", "account"} => usage[r] = "none"
      BY <2>4, Zenon DEF ReqInv, Before, Calling, After, Fresh
    <3> QED
      BY <2>2, <3>1 DEF Inv, TypeOK
  <2>6. After(r)'
    BY <2>2, <2>3, <2>4, <2>5 DEF ReqInv, After
  <2>7. Before(r)' /\ Calling(r)' /\ spoiled'[r] = FALSE
    BY <2>3, <2>4, <2>5 DEF ReqInv, Before, Calling
  <2> QED
    BY <2>1, <2>6, <2>7 DEF ReqInv
<1>4. ASSUME UNCHANGED vars \/ Signal \/ Exit \/ \E r \in Request : Disconnect(r)
      PROVE  \A q \in Request : ReqInv(q)'
  <2>1. UNCHANGED <<pc, req, route, fault, answerVars, usageVars, called>>
    BY <1>4 DEF vars, reqVars, Signal, Exit, Disconnect
  <2> QED
    BY <2>1, Frame DEF Inv, Same, answerVars, usageVars
<1> QED
  BY <1>1, <1>2, <1>3, <1>4 DEF Next, Inv

\* The invariant is one.
THEOREM Invariance == Spec => []Inv
<1> QED
  BY InvInit, InvStep, PTL DEF Spec

-----------------------------------------------------------------------------
\* Every variable keeps its type.
THEOREM TypeCorrect == Spec => []TypeOK
<1>1. Inv => TypeOK
  BY DEF Inv
<1> QED
  BY Invariance, <1>1, PTL

\* No error body is written into a stream that has started, although
\* headersSent never says so: handleStream's errors all come before the header.
THEOREM NoStreamIsSpoiled == Spec => []StreamNeverSpoiled
<1>1. Inv => StreamNeverSpoiled
  BY DEF Inv, ReqInv, StreamNeverSpoiled
<1> QED
  BY Invariance, <1>1, PTL

\* A client that has a whole answer has left a usage event.
THEOREM AnswersAlwaysAccounted == Spec => []AnswersAreAccounted
<1>1. ASSUME Inv, NEW r \in Request, status[r] = 200
      PROVE  usage[r] # "none" \/ pc[r] \in {"relay", "account"}
  <2>1. TypeOK /\ Before(r) /\ Calling(r) /\ After(r)
    BY <1>1 DEF Inv, ReqInv
  <2> QED
    BY <1>1, <2>1 DEF TypeOK, Before, Calling, After, Fresh
<1>2. Inv => AnswersAreAccounted
  BY <1>1 DEF AnswersAreAccounted
<1> QED
  BY Invariance, <1>2, PTL

\* What the usage event says of the route, the outcome and the error code is
\* what the client and the provider saw.
THEOREM EventsAreTrue == Spec => []EventTellsTheTruth
<1>1. ASSUME Inv, NEW r \in Request, usage[r] # "none"
      PROVE  /\ called[r] # NoRoute => event[r].route = called[r]
             /\ called[r] = NoRoute => event[r].status = "error"
             /\ pc[r] = "done" => (event[r].status = "ok" <=> status[r] = 200)
             /\ pc[r] = "done" /\ status[r] # 501 => event[r].code = code[r]
  <2>1. TypeOK /\ Before(r) /\ Calling(r) /\ After(r)
    BY <1>1 DEF Inv, ReqInv
  <2>2. pc[r] \in {"respond", "done"}
    BY <1>1, <2>1 DEF TypeOK, Before, Calling, After, Fresh
  <2>3. CallFits(r) /\ event[r] = UsageEvent(r)
    BY <1>1, <2>1, <2>2 DEF After
  <2>4. /\ event[r].route = route[r]
        /\ event[r].status = IF fault[r] = "none" THEN "ok" ELSE "error"
        /\ event[r].code = IF fault[r] = "none" THEN "none"
                           ELSE mapProviderError(fault[r])
    BY <2>3 DEF UsageEvent, mapProviderError
  <2>5. pc[r] = "done" => Answered(r)
    BY <1>1, <2>1 DEF After
  <2> QED
    BY <2>3, <2>4, <2>5 DEF CallFits, Answered, mapProviderError
<1>2. Inv => EventTellsTheTruth
  BY <1>1 DEF EventTellsTheTruth
<1> QED
  BY Invariance, <1>2, PTL

-----------------------------------------------------------------------------
(* Chat implements Metering *)

\* What Metering sees of r: its call, answer, bill, the route the bill names and
\* what became of the bill.
View(r) == <<called[r], AnswerOf(r), BillOf(r), ChargedOf(r), usage[r]>>

\* A step that concerns r alone changes what Metering sees at r alone.
LEMMA ViewFrame ==
  ASSUME Inv, TypeOK', NEW r \in Request, \A q \in Request \ {r} : Same(q)
  PROVE  /\ called' = [called EXCEPT ![r] = called'[r]]
         /\ usage' = [usage EXCEPT ![r] = usage'[r]]
         /\ [q \in Request |-> AnswerOf(q)]'
              = [[q \in Request |-> AnswerOf(q)] EXCEPT ![r] = AnswerOf(r)']
         /\ [q \in Request |-> BillOf(q)]'
              = [[q \in Request |-> BillOf(q)] EXCEPT ![r] = BillOf(r)']
         /\ [q \in Request |-> ChargedOf(q)]'
              = [[q \in Request |-> ChargedOf(q)] EXCEPT ![r] = ChargedOf(r)']
<1>1. \A q \in Request \ {r} :
        /\ called'[q] = called[q] /\ usage'[q] = usage[q]
        /\ AnswerOf(q)' = AnswerOf(q) /\ BillOf(q)' = BillOf(q)
        /\ ChargedOf(q)' = ChargedOf(q)
  BY DEF Same, AnswerOf, BillOf, ChargedOf
<1>2. /\ called' = [called EXCEPT ![r] = called'[r]]
      /\ usage' = [usage EXCEPT ![r] = usage'[r]]
  BY <1>1 DEF Inv, TypeOK
<1> QED
  BY <1>1, <1>2

\* Nothing that Metering sees of r changes: a stuttering step.
LEMMA ViewStutters ==
  ASSUME Inv, TypeOK', NEW r \in Request, \A q \in Request \ {r} : Same(q),
         View(r)' = View(r)
  PROVE  UNCHANGED Ledger!vars
<1>1. /\ called'[r] = called[r] /\ usage'[r] = usage[r]
      /\ AnswerOf(r)' = AnswerOf(r) /\ BillOf(r)' = BillOf(r)
      /\ ChargedOf(r)' = ChargedOf(r)
  BY DEF View
<1>2. /\ [q \in Request |-> AnswerOf(q)]' = [q \in Request |-> AnswerOf(q)]
      /\ [q \in Request |-> BillOf(q)]' = [q \in Request |-> BillOf(q)]
      /\ [q \in Request |-> ChargedOf(q)]' = [q \in Request |-> ChargedOf(q)]
  BY <1>1, ViewFrame
<1>3. called' = called /\ usage' = usage
  <2>1. called = [called EXCEPT ![r] = called[r]] /\ usage = [usage EXCEPT ![r] = usage[r]]
    BY DEF Inv, TypeOK
  <2> QED
    BY <1>1, <2>1, ViewFrame
<1> QED
  BY <1>2, <1>3 DEF Ledger!vars

\* The first answer to r is an Answer, if what it says fits the call and the bill.
LEMMA ViewAnswers ==
  ASSUME Inv, TypeOK', NEW r \in Request, \A q \in Request \ {r} : Same(q),
         status[r] = 0, status'[r] # 0,
         called'[r] = called[r], usage'[r] = usage[r], event'[r] = event[r],
         status'[r] = 200 => called[r] # NoRoute,
         usage[r] # "none" => event[r].status = AnswerOf(r)'
  PROVE  Ledger!Answer(r)
<1>1. /\ AnswerOf(r) = "none" /\ AnswerOf(r)' \in Ledger!Outcome(r)
      /\ BillOf(r) \in {"none", AnswerOf(r)'}
  BY DEF AnswerOf, BillOf, Ledger!Outcome
<1>2. BillOf(r)' = BillOf(r) /\ ChargedOf(r)' = ChargedOf(r)
  BY DEF BillOf, ChargedOf
<1>3. /\ called' = called /\ usage' = usage
      /\ [q \in Request |-> BillOf(q)]' = [q \in Request |-> BillOf(q)]
      /\ [q \in Request |-> ChargedOf(q)]' = [q \in Request |-> ChargedOf(q)]
  <2>1. called = [called EXCEPT ![r] = called[r]] /\ usage = [usage EXCEPT ![r] = usage[r]]
    BY DEF Inv, TypeOK
  <2> QED
    BY <1>2, <2>1, ViewFrame
<1>4. [q \in Request |-> AnswerOf(q)]'
        = [[q \in Request |-> AnswerOf(q)] EXCEPT ![r] = AnswerOf(r)']
  BY ViewFrame
<1> QED
  BY <1>1, <1>3, <1>4 DEF Ledger!Answer

\* Every step of a handler is one of Metering or a stuttering step.
LEMMA HandlerImplements ==
  ASSUME Inv, TypeOK', NEW r \in Request, Arrive(r) \/ HandlerStep(r)
  PROVE  Ledger!Next \/ UNCHANGED Ledger!vars
<1> USE DEF reqVars, answerVars, usageVars, GoTo
<1>1. /\ spoiled[r] = FALSE /\ Before(r) /\ Calling(r) /\ After(r)
      /\ r \in DOMAIN pc /\ r \in DOMAIN status /\ r \in DOMAIN usage
      /\ r \in DOMAIN event /\ r \in DOMAIN called
  BY DEF Inv, ReqInv, TypeOK
<1>2. \A q \in Request \ {r} : Same(q)
  BY Others
<1>3. ASSUME called'[r] = called[r], usage'[r] = usage[r], event'[r] = event[r],
             status'[r] = status[r]
      PROVE  UNCHANGED Ledger!vars
  BY <1>2, <1>3, ViewStutters DEF View, AnswerOf, BillOf, ChargedOf
<1>4. ASSUME UNCHANGED <<called, usage, event>>, Refused(r),
             pc[r] \in {"none", "limit", "parse", "resolve"}
      PROVE  Ledger!Next
  <2>1. Fresh(r)
    BY <1>1, <1>4 DEF Before
  <2>2. status'[r] # 0 /\ status'[r] # 200
    <3>1. PICK s \in Status \ {0, 200} : \E c \in Code : Refuse(r, s, c)
      BY <1>4 DEF Refused, Status, Code
    <3>2. status' = [status EXCEPT ![r] = s]
      BY <2>1, <3>1 DEF Refuse, WriteError, Fresh
    <3> QED
      BY <1>1, <3>1, <3>2
  <2> QED
    BY <1>2, <1>4, <2>1, <2>2, ViewAnswers DEF Fresh, Ledger!Next
<1>5. CASE Arrive(r) \/ CheckLimit(r) \/ Parse(r) \/ Resolve(r)
  <2>1. CASE Refused(r)
    BY <1>4, <1>5, <2>1 DEF Arrive, CheckLimit, Parse, Resolve
  <2>2. CASE ~Refused(r)
    BY <1>3, <1>5, <2>2 DEF Arrive, CheckLimit, Parse, Resolve, Refused
  <2> QED
    BY <2>1, <2>2
<1>6. CASE Forward(r)
  <2>1. Fresh(r) /\ called[r] = NoRoute /\ Allowed(r)
    BY <1>1, <1>6 DEF Forward, Before, Calling
  <2>2. UNCHANGED <<usage, event, status>>
    BY <1>6 DEF Forward
  <2>3. CASE called' = called
    BY <1>3, <2>2, <2>3
  <2>4. CASE called' = [called EXCEPT ![r] = route[r]]
    <3>1. /\ AnswerOf(r) = "none" /\ BillOf(r) = "none" /\ route[r] \in Route
      BY <2>1 DEF Fresh, AnswerOf, BillOf, Allowed
    <3>2. /\ [q \in Request |-> AnswerOf(q)]' = [q \in Request |-> AnswerOf(q)]
          /\ [q \in Request |-> BillOf(q)]' = [q \in Request |-> BillOf(q)]
          /\ [q \in Request |-> ChargedOf(q)]' = [q \in Request |-> ChargedOf(q)]
      BY <2>2 DEF AnswerOf, BillOf, ChargedOf
    <3>3. Ledger!Call(r)
      BY <2>1, <2>2, <2>4, <3>1, <3>2 DEF Ledger!Call
    <3> QED
      BY <3>3 DEF Ledger!Next
  <2> QED
    BY <1>6, <2>3, <2>4 DEF Forward
<1>7. CASE ProviderAnswers(r)
  <2>1. Fresh(r) /\ called[r] # NoRoute
    BY <1>1, <1>7, RouteAssumption
       DEF ProviderAnswers, Calling, Allowed, RouteAssumption
  <2>2. UNCHANGED <<called, usage, event>>
    BY <1>7 DEF ProviderAnswers
  <2>3. CASE status' = status
    BY <1>3, <2>2, <2>3
  <2>4. CASE status' = [status EXCEPT ![r] = 200]
    BY <1>1, <1>2, <2>1, <2>2, <2>4, ViewAnswers DEF Fresh, Ledger!Next
  <2> QED
    BY <1>7, <2>3, <2>4 DEF ProviderAnswers
<1>8. CASE RelayEnds(r)
  BY <1>3, <1>8 DEF RelayEnds
<1>9. CASE AnswerFault(r)
  <2>1. status[r] = 0 /\ usage[r] = "none" /\ UNCHANGED <<called, usage, event>>
    BY <1>1, <1>9 DEF AnswerFault, Calling
  <2>2. status'[r] \in {501, 502, 504}
    BY <1>1, <1>9, <2>1 DEF AnswerFault, WriteError
  <2> QED
    BY <1>2, <2>1, <2>2, ViewAnswers DEF Ledger!Next
<1>10. CASE Account(r)
  <2>1. /\ usage[r] = "none" /\ Allowed(r) /\ CallFits(r)
        /\ Answered(r) \/ Fresh(r)
    BY <1>1, <1>10 DEF Account, Calling, After
  <2>2. /\ called' = called /\ status' = status
        /\ usage' = [usage EXCEPT ![r] = "sending"]
        /\ event' = [event EXCEPT ![r] = UsageEvent(r)]
    BY <1>10 DEF Account
  <2> DEFINE o == IF fault[r] = "none" THEN "ok" ELSE "error"
  <2>3. /\ UsageEvent(r).status = o /\ UsageEvent(r).route = route[r]
    BY DEF UsageEvent
  <2>4. /\ BillOf(r) = "none" /\ BillOf(r)' = o /\ ChargedOf(r)' = route[r]
    BY <1>1, <2>1, <2>2, <2>3 DEF BillOf, ChargedOf
  <2>5. /\ o \in Ledger!Outcome(r) /\ route[r] \in Route
        /\ called[r] \in {NoRoute, route[r]}
    BY <2>1 DEF CallFits, Allowed, Ledger!Outcome
  <2>6. AnswerOf(r) \in {"none", o}
    BY <2>1 DEF Answered, Fresh, AnswerOf, mapProviderError
  <2>7. [q \in Request |-> AnswerOf(q)]' = [q \in Request |-> AnswerOf(q)]
    BY <2>2 DEF AnswerOf
  <2>8. /\ [q \in Request |-> BillOf(q)]'
              = [[q \in Request |-> BillOf(q)] EXCEPT ![r] = o]
        /\ [q \in Request |-> ChargedOf(q)]'
              = [[q \in Request |-> ChargedOf(q)] EXCEPT ![r] = route[r]]
    BY <1>2, <2>4, ViewFrame
  <2>9. Ledger!Bill(r)
    BY <2>2, <2>4, <2>5, <2>6, <2>7, <2>8 DEF Ledger!Bill
  <2> QED
    BY <2>9 DEF Ledger!Next
<1>11. CASE Respond(r)
  <2>1. /\ status[r] = 0 /\ fault[r] = "none" /\ CallFits(r)
        /\ event[r] = UsageEvent(r)
    BY <1>1, <1>11 DEF Respond, After
  <2>2. UNCHANGED <<called, usage, event>> /\ status'[r] = 200
    BY <1>1, <1>11 DEF Respond
  <2>3. called[r] # NoRoute /\ event[r].status = "ok" /\ AnswerOf(r)' = "ok"
    BY <2>1, <2>2 DEF CallFits, UsageEvent, AnswerOf
  <2> QED
    BY <1>2, <2>1, <2>2, <2>3, ViewAnswers DEF Ledger!Next
<1> QED
  BY <1>5, <1>6, <1>7, <1>8, <1>9, <1>10, <1>11 DEF HandlerStep

\* ImplementsMetering of Chat: every behaviour of the handlers and the usage
\* goroutines is one that Metering allows.
THEOREM MeteringImplemented == Spec => ImplementsMetering
<1>1. Init => Ledger!Init
  BY DEF Init, Ledger!Init, AnswerOf, BillOf, ChargedOf
<1>2. Inv /\ Inv' /\ [Next]_vars => [Ledger!Next]_Ledger!vars
  <2> SUFFICES ASSUME Inv, Inv', [Next]_vars PROVE [Ledger!Next]_Ledger!vars
    OBVIOUS
  <2>1. ASSUME NEW r \in Request, Arrive(r) \/ HandlerStep(r)
        PROVE  Ledger!Next \/ UNCHANGED Ledger!vars
    BY <2>1, HandlerImplements DEF Inv
  <2>2. ASSUME NEW r \in Request, Ingest(r) PROVE Ledger!Next
    <3>1. PICK f \in {"delivered", "dropped"} : usage' = [usage EXCEPT ![r] = f]
      BY <2>2 DEF Ingest
    <3>2. usage[r] = "sending" /\ UNCHANGED <<called, status, event>>
      BY <2>2 DEF Ingest, answerVars
    <3>3. \A q \in Request : (usage'[q] = "none") <=> (usage[q] = "none")
      BY <3>1, <3>2 DEF Inv, TypeOK
    <3>4. /\ [q \in Request |-> AnswerOf(q)]' = [q \in Request |-> AnswerOf(q)]
          /\ [q \in Request |-> BillOf(q)]' = [q \in Request |-> BillOf(q)]
          /\ [q \in Request |-> ChargedOf(q)]' = [q \in Request |-> ChargedOf(q)]
      BY <3>2, <3>3 DEF AnswerOf, BillOf, ChargedOf
    <3>5. Ledger!Send(r)
      BY <3>1, <3>2, <3>4 DEF Ledger!Send
    <3> QED
      BY <3>5 DEF Ledger!Next
  <2>3. ASSUME UNCHANGED vars \/ Signal \/ Exit \/ \E r \in Request : Disconnect(r)
        PROVE  UNCHANGED Ledger!vars
    <3>1. UNCHANGED <<called, status, event, usage>>
      BY <2>3 DEF vars, Signal, Exit, Disconnect, answerVars, usageVars
    <3> QED
      BY <3>1 DEF Ledger!vars, AnswerOf, BillOf, ChargedOf
  <2> QED
    BY <2>1, <2>2, <2>3 DEF Next
<1> QED
  BY <1>1, <1>2, Invariance, PTL DEF Spec, ImplementsMetering, Ledger!Spec
=============================================================================
