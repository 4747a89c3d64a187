------------------------- MODULE RoutingCacheProofs -------------------------
(***************************************************************************)
(* Proofs about RoutingCache, for any number of request goroutines, any    *)
(* cache TTL, any bound on the life of a fetch and any sequence of edits.  *)
(*                                                                         *)
(* The safety properties are not inductive: what a handler is handed       *)
(* depends on how long a reply lay in some goroutine before it was stored. *)
(* Inv says where each configuration may be and how old it may be there.   *)
(***************************************************************************)
EXTENDS RoutingCache, TLAPS

USE ProcAssumption, TimeAssumption
    DEF ProcAssumption, TimeAssumption

\* Goroutines that hold a reply they have not yet stored.
HoldsReply(p) == pc[p] \in {"replied", "storeEmpty"}

\* Nothing comes from the future: the cache and the replies are edits the Hub
\* has made, and edits not yet replaced have no age.
NothingFromTheFuture ==
  /\ routing <= hubVersion
  /\ \A v \in Version : v >= hubVersion => supersededFor[v] = 0
  /\ \A p \in Proc : response[p] <= hubVersion
  /\ \A p \in Proc : heldAtSend[p] <= hubVersion

\* A reply was the Hub's current edit when it was sent, and so has been
\* superseded for no longer than the fetch has been in flight.
RepliesAreYoung ==
  \A p \in Proc : HoldsReply(p) =>
    /\ response[p] \in Version
    /\ supersededFor[response[p]] <= inFlight[p]

\* What was cached when the fetch began is no newer than its reply.
RepliesAreNoOlderThanHeld ==
  \A p \in Proc : HoldsReply(p) => heldAtSend[p] <= response[p]

\* The cache ages no faster than sinceFetch says, after one fetch.
CacheAge ==
  routing \in Version => supersededFor[routing] <= sinceFetch + FetchBound

Inv ==
  /\ TypeOK
  /\ NothingFromTheFuture
  /\ RepliesAreYoung
  /\ RepliesAreNoOlderThanHeld
  /\ CacheAge
  /\ EmptyCacheHasError

-----------------------------------------------------------------------------
\* Ageing stays within the bounds of Age.
LEMMA OlderType ==
  ASSUME NEW a \in Age
  PROVE  /\ Older(a) \in Age
         /\ Older(a) <= a + 1
         /\ a < Horizon => Older(a) = a + 1
         /\ a = Horizon => Older(a) = Horizon
BY DEF Older, Age

\* Usable entries exist only in a version.
LEMMA UsableVersion == Usable(NoVersion) = {}
BY DEF Usable

\* The initial states satisfy Inv.
LEMMA InvInit == Init => Inv
<1> SUFFICES ASSUME Init PROVE Inv
  OBVIOUS
<1>0. Nothing \in Outcome
  BY DEF Nothing, Outcome, Error
<1>1. TypeOK
  <2>1. hubVersion \in Version
    BY VersionAssumption DEF VersionAssumption, Init, Version
  <2>2. supersededFor \in [Version -> Age] /\ sinceFetch \in Age
    BY DEF Init, Age
  <2>3. /\ pc \in [Proc -> {"idle", "sent", "replied", "storeEmpty", "fallback",
                           "returned", "platform"}]
        /\ \A h \in Handler : pc[h] # "platform"
        /\ pc[Refresher] # "returned"
    BY DEF Init, Proc
  <2>4. /\ inFlight \in [Proc -> 0..FetchBound]
        /\ response \in [Proc -> Version \cup {NoVersion}]
        /\ heldAtSend \in [Proc -> Version \cup {NoVersion}]
        /\ outcome \in [Proc -> Outcome]
    BY <1>0 DEF Init
  <2>5. sinceTick \in 0..TTL /\ fetchErr \in Error
        /\ routing \in Version \cup {NoVersion}
    BY DEF Init, Error
  <2>6. hubUp \in BOOLEAN /\ baseUrlOk \in BOOLEAN /\ tickPending \in BOOLEAN
    BY Zenon DEF Init
  <2> QED
    BY <2>1, <2>2, <2>3, <2>4, <2>5, <2>6 DEF TypeOK
<1>2. NothingFromTheFuture
  BY DEF Init, NothingFromTheFuture, NoVersion
<1>3. RepliesAreYoung /\ RepliesAreNoOlderThanHeld
  BY DEF Init, RepliesAreYoung, RepliesAreNoOlderThanHeld, HoldsReply
<1>4. CacheAge /\ EmptyCacheHasError
  BY DEF Init, CacheAge, EmptyCacheHasError, Version, NoVersion
<1> QED
  BY <1>1, <1>2, <1>3, <1>4 DEF Inv

\* Return(p, config, err) keeps the types of what it assigns.
LEMMA ReturnType ==
  ASSUME TypeOK, NEW p \in Proc, NEW config \in Version \cup {NoVersion},
         NEW err \in Error, Return(p, config, err)
  PROVE  /\ pc' \in [Proc -> {"idle", "sent", "replied", "storeEmpty",
                               "fallback", "returned", "platform"}]
         /\ \A h \in Handler : pc'[h] # "platform"
         /\ pc'[Refresher] # "returned"
         /\ inFlight' \in [Proc -> 0..FetchBound]
         /\ response' \in [Proc -> Version \cup {NoVersion}]
         /\ outcome' \in [Proc -> Outcome]
         /\ heldAtSend' \in [Proc -> Version \cup {NoVersion}]
BY DEF TypeOK, Return, Proc, Outcome, Nothing, Error


\* Every step keeps the types.
LEMMA TypeStep == TypeOK /\ [Next]_vars => TypeOK'
<1> SUFFICES ASSUME TypeOK, [Next]_vars PROVE TypeOK'
  OBVIOUS
<1> USE DEF Proc
<1>1. ASSUME NEW h \in Handler, ServeCached(h) PROVE TypeOK'
  <2>1. Return(h, routing, "none") /\ "none" \in Error
    BY <1>1 DEF ServeCached, Error
  <2>2. routing \in Version \cup {NoVersion}
    BY DEF TypeOK
  <2> QED
    BY <1>1, <2>1, <2>2, ReturnType
       DEF ServeCached, TypeOK, hubVars, cacheVars, tickerVars
<1>2. ASSUME NEW p \in Proc, BeginRefresh(p), UNCHANGED hubVars,
             tickPending' \in BOOLEAN, UNCHANGED sinceTick
      PROVE  TypeOK'
  <2>1. CASE baseUrlOk
    BY <1>2, <2>1 DEF BeginRefresh, TypeOK, hubVars, cacheVars
  <2>2. CASE ~baseUrlOk
    <3>1. Return(p, NoVersion, "failed") /\ "failed" \in Error
      BY <1>2, <2>2 DEF BeginRefresh, Error
    <3>2. fetchErr' = "failed" /\ UNCHANGED <<routing, sinceFetch>>
      BY <1>2, <2>2 DEF BeginRefresh
    <3> QED
      BY <1>2, <3>1, <3>2, ReturnType DEF TypeOK, hubVars
  <2> QED
    BY <2>1, <2>2
<1>3. ASSUME NEW h \in Handler, MissCache(h) PROVE TypeOK'
  BY <1>2, <1>3 DEF MissCache, TypeOK, tickerVars
<1>4. ASSUME BackgroundRefresh PROVE TypeOK'
  BY <1>2, <1>4 DEF BackgroundRefresh
<1>5. ASSUME NEW p \in Proc, FetchFails(p) PROVE TypeOK'
  BY <1>5 DEF FetchFails, TypeOK, Error, hubVars, tickerVars
<1>6. ASSUME NEW p \in Proc, Fallback(p) PROVE TypeOK'
  <2> DEFINE err == IF Usable(routing) # {} /\ sinceFetch < 2 * TTL THEN "none"
                    ELSE IF fetchErr # "none" THEN fetchErr ELSE "failed"
  <2>1. Return(p, NoVersion, err) /\ err \in Error
    BY <1>6 DEF Fallback, TypeOK, Error
  <2> QED
    BY <1>6, <2>1, ReturnType DEF Fallback, TypeOK, hubVars, cacheVars, tickerVars
<1>7. ASSUME NEW p \in Proc, ReceiveEmpty(p) PROVE TypeOK'
  BY <1>7 DEF ReceiveEmpty, TypeOK, Error, hubVars, tickerVars
<1>8. ASSUME NEW p \in Proc, StoreEmpty(p) PROVE TypeOK'
  <2>1. Return(p, NoVersion, "empty") /\ "empty" \in Error
    BY <1>8 DEF StoreEmpty, Error
  <2>2. routing' \in Version \cup {NoVersion} /\ sinceFetch' \in Age
        /\ fetchErr' \in Error
    BY <1>8 DEF StoreEmpty, TypeOK, Error, Age
  <2> QED
    BY <1>8, <2>1, <2>2, ReturnType DEF StoreEmpty, TypeOK, hubVars, tickerVars
<1>9. ASSUME NEW p \in Proc, StoreRouting(p) PROVE TypeOK'
  <2>1. Return(p, response[p], "none") /\ "none" \in Error
        /\ response[p] \in Version \cup {NoVersion}
    BY <1>9 DEF StoreRouting, Error, TypeOK
  <2>2. routing' \in Version \cup {NoVersion} /\ sinceFetch' \in Age
        /\ fetchErr' \in Error
    BY <1>9, <2>1 DEF StoreRouting, Error, Age
  <2> QED
    BY <1>9, <2>1, <2>2, ReturnType DEF StoreRouting, TypeOK, hubVars, tickerVars
<1>10. ASSUME NEW h \in Handler, ResolveRoute(h) PROVE TypeOK'
  BY <1>10 DEF ResolveRoute, TypeOK, Nothing, Outcome, Error, hubVars, cacheVars,
               tickerVars
<1>11. ASSUME PlatformRefreshed PROVE TypeOK'
  BY <1>11 DEF PlatformRefreshed, TypeOK, hubVars, cacheVars, tickerVars
<1>12. ASSUME NEW p \in Proc, HubReplies(p) PROVE TypeOK'
  BY <1>12 DEF HubReplies, TypeOK, cacheVars, tickerVars, hubVars
<1>13. ASSUME AdminEdit \/ HubFlips PROVE TypeOK'
  <2>1. hubVersion' \in Version
    BY <1>13, VersionAssumption
       DEF VersionAssumption, AdminEdit, HubFlips, TypeOK, Version
  <2> QED
    BY <1>13, <2>1
       DEF AdminEdit, HubFlips, TypeOK, cacheVars, tickerVars, procVars
<1>14. ASSUME Tick PROVE TypeOK'
  <2>1. supersededFor' \in [Version -> Age] /\ sinceFetch' \in Age
    BY <1>14, OlderType DEF Tick, TypeOK, Age
  <2>2. inFlight' \in [Proc -> 0..FetchBound]
    BY <1>14 DEF Tick, TypeOK
  <2>3. sinceTick' \in 0..TTL /\ tickPending' \in BOOLEAN
    BY <1>14 DEF Tick, TypeOK
  <2> QED
    BY <1>14, <2>1, <2>2, <2>3 DEF Tick, TypeOK
<1>15. CASE UNCHANGED vars
  BY <1>15 DEF TypeOK, vars, hubVars, cacheVars, tickerVars, procVars
<1> QED
  BY <1>1, <1>3, <1>4, <1>5, <1>6, <1>7, <1>8, <1>9, <1>10, <1>11, <1>12,
     <1>13, <1>14, <1>15 DEF Next, HandlerStep, FetchStep

\* TypeOK of RoutingCache, for every instance.
THEOREM TypeCorrect == Spec => []TypeOK
<1>1. Init => TypeOK
  BY InvInit DEF Inv
<1> QED
  BY <1>1, TypeStep, PTL DEF Spec

-----------------------------------------------------------------------------
(* The inductive invariant *)

\* A goroutine that returns holds no reply, and hands back what it held.
LEMMA ReturnClears ==
  ASSUME TypeOK, NEW p \in Proc, NEW config, NEW err, Return(p, config, err)
  PROVE  /\ \A q \in Proc : HoldsReply(q)' => HoldsReply(q) /\ q # p
         /\ \A q \in Proc \ {p} : /\ inFlight'[q] = inFlight[q]
                                 /\ response'[q] = response[q]
                                 /\ heldAtSend'[q] = heldAtSend[q]
         /\ response'[p] = NoVersion
         /\ heldAtSend'[p] = NoVersion
BY DEF TypeOK, Return, HoldsReply, Proc

\* A step that only makes goroutine p return keeps what Inv says of the Hub,
\* of the replies and of the cache, as long as it leaves the cache and the Hub
\* alone.
LEMMA ReturnKeeps ==
  ASSUME Inv, NEW p \in Proc, NEW config, NEW err, Return(p, config, err),
         UNCHANGED hubVars
  PROVE  /\ RepliesAreYoung' /\ RepliesAreNoOlderThanHeld'
         /\ routing' <= hubVersion => NothingFromTheFuture'
<1>1. /\ \A q \in Proc : HoldsReply(q)' => HoldsReply(q) /\ q # p
      /\ \A q \in Proc \ {p} : /\ inFlight'[q] = inFlight[q]
                              /\ response'[q] = response[q]
                              /\ heldAtSend'[q] = heldAtSend[q]
      /\ response'[p] = NoVersion
      /\ heldAtSend'[p] = NoVersion
  BY ReturnClears DEF Inv
<1>2. NoVersion <= hubVersion
  BY DEF Inv, TypeOK, Version, NoVersion
<1>3. RepliesAreYoung' /\ RepliesAreNoOlderThanHeld'
  BY <1>1 DEF Inv, RepliesAreYoung, RepliesAreNoOlderThanHeld, hubVars
<1>4. ASSUME routing' <= hubVersion PROVE NothingFromTheFuture'
  BY <1>1, <1>2, <1>4 DEF Inv, NothingFromTheFuture, hubVars
<1> QED
  BY <1>3, <1>4

\* The head of refreshRouting keeps Inv.
LEMMA BeginKeeps ==
  ASSUME Inv, NEW p \in Proc, BeginRefresh(p), UNCHANGED hubVars, TypeOK'
  PROVE  Inv'
<1>1. CASE baseUrlOk
  <2>1. /\ UNCHANGED <<routing, sinceFetch, fetchErr, response>>
        /\ \A q \in Proc \ {p} : /\ inFlight'[q] = inFlight[q] /\ pc'[q] = pc[q]
                                /\ heldAtSend'[q] = heldAtSend[q]
        /\ heldAtSend'[p] = routing
        /\ pc'[p] = "sent"
    BY <1>1 DEF BeginRefresh, Inv, TypeOK, cacheVars
  <2>2. NothingFromTheFuture'
    BY <2>1 DEF Inv, NothingFromTheFuture, hubVars
  <2>3. RepliesAreYoung' /\ RepliesAreNoOlderThanHeld'
    BY <2>1 DEF Inv, RepliesAreYoung, RepliesAreNoOlderThanHeld, HoldsReply, hubVars
  <2>4. CacheAge' /\ EmptyCacheHasError'
    BY <2>1 DEF Inv, CacheAge, EmptyCacheHasError, hubVars
  <2> QED
    BY <2>2, <2>3, <2>4 DEF Inv
<1>2. CASE ~baseUrlOk
  <2>1. /\ UNCHANGED <<routing, sinceFetch>> /\ fetchErr' = "failed"
        /\ Return(p, NoVersion, "failed")
    BY <1>2 DEF BeginRefresh
  <2>2. RepliesAreYoung' /\ RepliesAreNoOlderThanHeld' /\ NothingFromTheFuture'
    BY <2>1, ReturnKeeps DEF Inv, NothingFromTheFuture
  <2>3. CacheAge' /\ EmptyCacheHasError'
    BY <2>1 DEF Inv, CacheAge, EmptyCacheHasError, hubVars
  <2> QED
    BY <2>2, <2>3 DEF Inv
<1> QED
  BY <1>1, <1>2

\* Time keeps Inv: every age grows by one, and none grows past Horizon.
LEMMA TickKeeps ==
  ASSUME Inv, Tick, TypeOK'
  PROVE  Inv'
<1>1. /\ UNCHANGED <<hubVersion, routing, fetchErr, pc, response, heldAtSend>>
      /\ sinceFetch' = Older(sinceFetch)
      /\ sinceFetch \in Age
      /\ hubVersion \in Version
  BY DEF Tick, Inv, TypeOK
<1>2. \A v \in Version : /\ supersededFor[v] \in Age
                         /\ supersededFor'[v] <= supersededFor[v] + 1
                         /\ supersededFor'[v] <= Horizon
                         /\ v >= hubVersion => supersededFor'[v] = 0
  <2> SUFFICES ASSUME NEW v \in Version
               PROVE  /\ supersededFor[v] \in Age
                      /\ supersededFor'[v] <= supersededFor[v] + 1
                      /\ supersededFor'[v] <= Horizon
                      /\ v >= hubVersion => supersededFor'[v] = 0
    OBVIOUS
  <2>1. supersededFor[v] \in Age
    BY DEF Inv, TypeOK
  <2>2. supersededFor'[v] = IF v < hubVersion THEN Older(supersededFor[v]) ELSE 0
    BY DEF Tick
  <2> QED
    BY <1>1, <2>1, <2>2, OlderType DEF Age, Version
<1>3. NothingFromTheFuture'
  BY <1>1, <1>2 DEF Inv, NothingFromTheFuture
<1>4. RepliesAreYoung'
  <2> SUFFICES ASSUME NEW p \in Proc, HoldsReply(p)
               PROVE  /\ response[p] \in Version
                      /\ supersededFor'[response[p]] <= inFlight'[p]
    BY <1>1 DEF RepliesAreYoung, HoldsReply
  <2>1. response[p] \in Version /\ supersededFor[response[p]] <= inFlight[p]
    BY DEF Inv, RepliesAreYoung
  <2>2. inFlight'[p] = inFlight[p] + 1 /\ inFlight[p] \in Int
    BY DEF HoldsReply, Tick, Inv, TypeOK
  <2>3. /\ supersededFor[response[p]] \in Int
        /\ supersededFor'[response[p]] <= supersededFor[response[p]] + 1
        /\ supersededFor'[response[p]] \in Int
    BY <1>2, <2>1 DEF Age, TypeOK
  <2> QED
    BY <2>1, <2>2, <2>3
<1>5. RepliesAreNoOlderThanHeld' /\ EmptyCacheHasError'
  BY <1>1 DEF Inv, RepliesAreNoOlderThanHeld, EmptyCacheHasError, HoldsReply
<1>6. CacheAge'
  <2> SUFFICES ASSUME routing \in Version
               PROVE  supersededFor'[routing] <= sinceFetch' + FetchBound
    BY <1>1 DEF CacheAge
  <2>1. supersededFor[routing] <= sinceFetch + FetchBound
    BY DEF Inv, CacheAge
  <2>2. /\ supersededFor[routing] \in Int
        /\ supersededFor'[routing] \in Int
        /\ supersededFor'[routing] <= supersededFor[routing] + 1
        /\ supersededFor'[routing] <= Horizon
    BY <1>1, <1>2 DEF Age, TypeOK
  <2>3. CASE sinceFetch < Horizon
    <3>1. sinceFetch' = sinceFetch + 1 /\ sinceFetch \in Int
      BY <1>1, <2>3, OlderType DEF Age
    <3> QED
      BY <2>1, <2>2, <3>1
  <2>4. CASE sinceFetch = Horizon
    <3>1. sinceFetch' = Horizon
      BY <1>1, <2>4, OlderType
    <3> QED
      BY <2>2, <3>1
  <2> QED
    BY <1>1, <2>3, <2>4 DEF Age
<1> QED
  BY <1>3, <1>4, <1>5, <1>6 DEF Inv

\* A goroutine stores the reply it holds.
LEMMA StoreKeeps ==
  ASSUME Inv, NEW p \in Proc, StoreEmpty(p) \/ StoreRouting(p), TypeOK'
  PROVE  Inv'
<1>1. /\ HoldsReply(p) /\ UNCHANGED hubVars
      /\ routing' = response[p] /\ sinceFetch' = 0
      /\ \E config, err : Return(p, config, err)
  BY DEF StoreEmpty, StoreRouting, HoldsReply
<1>2. response[p] \in Version /\ supersededFor[response[p]] <= FetchBound
  BY <1>1 DEF Inv, RepliesAreYoung, TypeOK, Age
<1>3. RepliesAreYoung' /\ RepliesAreNoOlderThanHeld' /\ NothingFromTheFuture'
  BY <1>1, ReturnKeeps DEF Inv, NothingFromTheFuture
<1>4. CacheAge'
  BY <1>1, <1>2 DEF CacheAge, hubVars
<1>5. EmptyCacheHasError'
  BY <1>1 DEF StoreEmpty, StoreRouting, EmptyCacheHasError
<1> QED
  BY <1>3, <1>4, <1>5 DEF Inv

\* Inv is inductive.
LEMMA InvStep == Inv /\ [Next]_vars => Inv'
<1> SUFFICES ASSUME Inv, [Next]_vars PROVE Inv'
  OBVIOUS
<1>0. TypeOK'
  BY TypeStep DEF Inv
<1>1. ASSUME NEW h \in Handler, ServeCached(h) PROVE Inv'
  <2>1. /\ h \in Proc /\ Return(h, routing, "none")
        /\ UNCHANGED <<hubVars, cacheVars>>
    BY <1>1 DEF ServeCached, Proc
  <2>2. RepliesAreYoung' /\ RepliesAreNoOlderThanHeld' /\ NothingFromTheFuture'
    BY <2>1, ReturnKeeps DEF Inv, NothingFromTheFuture, cacheVars
  <2> QED
    BY <1>0, <2>1, <2>2 DEF Inv, CacheAge, EmptyCacheHasError, hubVars, cacheVars
<1>2. ASSUME NEW h \in Handler, MissCache(h) PROVE Inv'
  BY <1>0, <1>2, BeginKeeps DEF MissCache, Proc
<1>3. CASE BackgroundRefresh
  BY <1>0, <1>3, BeginKeeps DEF BackgroundRefresh, Proc
<1>4. ASSUME NEW p \in Proc, FetchFails(p) \/ ReceiveEmpty(p) PROVE Inv'
  <2>1. /\ UNCHANGED <<hubVars, routing, sinceFetch, inFlight, response, heldAtSend>>
        /\ fetchErr' # "none"
        /\ \A q \in Proc : HoldsReply(q)' => HoldsReply(q)
    BY <1>4 DEF FetchFails, ReceiveEmpty, HoldsReply, Inv, TypeOK
  <2> QED
    BY <1>0, <2>1 DEF Inv, NothingFromTheFuture, RepliesAreYoung, CacheAge,
       RepliesAreNoOlderThanHeld, EmptyCacheHasError, hubVars
<1>5. ASSUME NEW p \in Proc, Fallback(p) PROVE Inv'
  <2>1. /\ \E config, err : Return(p, config, err)
        /\ UNCHANGED <<hubVars, cacheVars>>
    BY <1>5 DEF Fallback
  <2>2. RepliesAreYoung' /\ RepliesAreNoOlderThanHeld' /\ NothingFromTheFuture'
    BY <2>1, ReturnKeeps DEF Inv, NothingFromTheFuture, cacheVars
  <2> QED
    BY <1>0, <2>1, <2>2 DEF Inv, CacheAge, EmptyCacheHasError, hubVars, cacheVars
<1>6. ASSUME NEW p \in Proc, StoreEmpty(p) \/ StoreRouting(p) PROVE Inv'
  BY <1>0, <1>6, StoreKeeps
<1>7. ASSUME NEW p \in Proc, HubReplies(p) PROVE Inv'
  <2>1. /\ UNCHANGED <<hubVars, cacheVars, inFlight, heldAtSend>>
        /\ response'[p] = hubVersion
        /\ \A q \in Proc \ {p} : response'[q] = response[q] /\ pc'[q] = pc[q]
    BY <1>7 DEF HubReplies, Inv, TypeOK
  <2>2. /\ hubVersion \in Version /\ hubVersion <= hubVersion
        /\ supersededFor[hubVersion] = 0 /\ 0 <= inFlight[p]
        /\ heldAtSend[p] <= hubVersion
    BY DEF Inv, TypeOK, NothingFromTheFuture, Version
  <2>3. NothingFromTheFuture'
    BY <2>1, <2>2 DEF Inv, NothingFromTheFuture, hubVars, cacheVars
  <2>4. RepliesAreYoung' /\ RepliesAreNoOlderThanHeld'
    BY <2>1, <2>2 DEF Inv, RepliesAreYoung, RepliesAreNoOlderThanHeld,
       HoldsReply, hubVars
  <2>5. CacheAge' /\ EmptyCacheHasError'
    BY <2>1 DEF Inv, CacheAge, EmptyCacheHasError, hubVars, cacheVars
  <2> QED
    BY <1>0, <2>3, <2>4, <2>5 DEF Inv
<1>8. CASE AdminEdit
  <2>1. /\ hubVersion' = hubVersion + 1 /\ hubVersion \in Int
        /\ UNCHANGED <<supersededFor, cacheVars, procVars>>
    BY <1>8 DEF AdminEdit, Inv, TypeOK, Version
  <2>2. NothingFromTheFuture'
    <3>1. /\ routing \in Int
          /\ \A p \in Proc : response[p] \in Int /\ heldAtSend[p] \in Int
      BY DEF Inv, TypeOK, Version, NoVersion
    <3> QED
      BY <2>1, <3>1 DEF Inv, NothingFromTheFuture, cacheVars, procVars, Version
  <2> QED
    BY <1>0, <2>1, <2>2 DEF Inv, RepliesAreYoung, RepliesAreNoOlderThanHeld,
       CacheAge, EmptyCacheHasError, HoldsReply, cacheVars, procVars
<1>9. ASSUME \/ HubFlips \/ PlatformRefreshed \/ UNCHANGED vars
             \/ \E h \in Handler : ResolveRoute(h)
      PROVE  Inv'
  <2>1. /\ UNCHANGED <<hubVersion, supersededFor, cacheVars, response, heldAtSend>>
        /\ \A q \in Proc : HoldsReply(q)' => HoldsReply(q) /\ inFlight'[q] = inFlight[q]
    BY <1>9 DEF HubFlips, PlatformRefreshed, ResolveRoute, vars, hubVars, procVars,
       HoldsReply, Inv, TypeOK
  <2> QED
    BY <1>0, <2>1 DEF Inv, NothingFromTheFuture, RepliesAreYoung, CacheAge,
       RepliesAreNoOlderThanHeld, EmptyCacheHasError, cacheVars
<1>10. CASE Tick
  BY <1>0, <1>10, TickKeeps
<1> QED
  BY <1>1, <1>2, <1>3, <1>4, <1>5, <1>6, <1>7, <1>8, <1>9, <1>10
     DEF Next, HandlerStep, FetchStep

-----------------------------------------------------------------------------
(* The theorems *)

\* Every reachable state satisfies Inv.
LEMMA Invariance == Spec => []Inv
BY InvInit, InvStep, PTL DEF Spec

\* EmptyCacheHasError of RoutingCache: an unusable configuration is never
\* cached without an error, however the two critical sections of an empty
\* reply interleave with other fetches.
THEOREM EmptyCacheAlwaysHasError == Spec => []EmptyCacheHasError
<1>1. Inv => EmptyCacheHasError
  BY DEF Inv
<1> QED
  BY <1>1, Invariance, PTL

\* StalenessBounded of RoutingCache: a handler never gets a configuration the
\* admin replaced more than cacheTTL plus one fetch ago.
THEOREM StalenessIsBounded == Spec => StalenessBounded
<1> DEFINE Bounded ==
      \A h \in Handler :
        Returns(h) /\ outcome'[h].config # NoVersion
          => supersededFor[outcome'[h].config] <= TTL + FetchBound
<1>1. Inv /\ [Next]_vars => [Bounded]_vars
  <2> SUFFICES ASSUME Inv, Next, NEW h \in Handler, Returns(h),
                      outcome'[h].config # NoVersion
               PROVE  supersededFor[outcome'[h].config] <= TTL + FetchBound
    OBVIOUS
  <2>1. h \in Proc /\ h # Refresher
    BY DEF Proc
  <2>2. \A q \in Proc : \A config, err :
        Return(q, config, err)
          => /\ q = h => outcome'[h].config = config
             /\ q # h => pc'[h] = pc[h]
    BY <2>1 DEF Return, Inv, TypeOK
  <2>3. pc[h] # "returned" /\ pc'[h] = "returned"
    BY DEF Returns
  <2>4. ASSUME ServeCached(h) PROVE supersededFor[outcome'[h].config] <= TTL + FetchBound
    <3>1. outcome'[h].config = routing /\ sinceFetch <= TTL
      BY <2>1, <2>2, <2>4 DEF ServeCached, Stale, Inv, TypeOK, Age
    <3>2. routing \in Version
      BY <3>1 DEF Inv, TypeOK
    <3>3. supersededFor[routing] \in Int /\ sinceFetch \in Int
      BY <3>2 DEF Inv, TypeOK, Age
    <3> QED
      BY <3>1, <3>2, <3>3 DEF Inv, CacheAge
  <2>5. ASSUME StoreRouting(h) PROVE supersededFor[outcome'[h].config] <= TTL + FetchBound
    <3>1. outcome'[h].config = response[h] /\ HoldsReply(h)
      BY <2>1, <2>2, <2>5 DEF StoreRouting, HoldsReply
    <3>2. /\ response[h] \in Version /\ supersededFor[response[h]] <= inFlight[h]
          /\ inFlight[h] \in 0..FetchBound /\ supersededFor[response[h]] \in Int
      BY <2>1, <3>1 DEF Inv, RepliesAreYoung, TypeOK, Age
    <3> QED
      BY <3>1, <3>2
  <2>6. ServeCached(h) \/ StoreRouting(h)
    <3>1. ASSUME BeginRefresh(h) PROVE FALSE
      BY <2>1, <2>2, <2>3, <3>1 DEF BeginRefresh, Inv, TypeOK
    <3>2. ~Fallback(h) /\ ~StoreEmpty(h)
      BY <2>1, <2>2 DEF Fallback, StoreEmpty
    <3>3. ~FetchFails(h) /\ ~ReceiveEmpty(h) /\ ~HubReplies(h) /\ ~ResolveRoute(h)
      BY <2>1, <2>3 DEF FetchFails, ReceiveEmpty, HubReplies, ResolveRoute, Inv, TypeOK
    <3>4. ~AdminEdit /\ ~HubFlips /\ ~Tick /\ ~PlatformRefreshed
      BY <2>1, <2>3 DEF AdminEdit, HubFlips, Tick, PlatformRefreshed, procVars, Inv, TypeOK
    <3>5. ASSUME NEW q \in Proc \ {h}
          PROVE  /\ ~BeginRefresh(q) /\ ~ServeCached(q) /\ ~ResolveRoute(q)
                 /\ ~FetchStep(q)
      <4>1. ~(\E config, err : Return(q, config, err))
        BY <2>2, <2>3
      <4> QED
        BY <2>1, <2>3, <4>1 DEF BeginRefresh, ServeCached, ResolveRoute, FetchStep,
           FetchFails, ReceiveEmpty, HubReplies, Fallback, StoreEmpty, StoreRouting,
           Inv, TypeOK
    <3>6. Refresher \in Proc \ {h} /\ Handler \subseteq Proc
      BY <2>1 DEF Proc
    <3> QED
      BY <3>1, <3>2, <3>3, <3>4, <3>5, <3>6
         DEF Next, HandlerStep, FetchStep, MissCache, BackgroundRefresh
  <2> QED
    BY <2>4, <2>5, <2>6
<1> QED
  BY <1>1, Invariance, PTL DEF Spec, StalenessBounded

\* RegressionNeedsOverlap of RoutingCache: only overlapping fetches take the
\* cache back to an older edit.
THEOREM RegressionOnlyByOverlap == Spec => RegressionNeedsOverlap
<1> DEFINE Overlap ==
      routing' < routing =>
        \E p \in Proc : /\ pc[p] \in {"replied", "storeEmpty"}
                        /\ routing' = response[p]
                        /\ heldAtSend[p] <= routing'
<1>1. Inv /\ [Next]_vars => [Overlap]_vars
  <2> SUFFICES ASSUME Inv, Next, routing' < routing
               PROVE  \E p \in Proc : /\ pc[p] \in {"replied", "storeEmpty"}
                                      /\ routing' = response[p]
                                      /\ heldAtSend[p] <= routing'
    OBVIOUS
  <2>1. routing \in Int /\ routing' # routing
    BY DEF Inv, TypeOK, Version, NoVersion
  <2>2. PICK p \in Proc : StoreEmpty(p) \/ StoreRouting(p)
    BY <2>1 DEF Next, HandlerStep, FetchStep, ServeCached, MissCache, BeginRefresh,
       ResolveRoute, HubReplies, FetchFails, Fallback, ReceiveEmpty,
       BackgroundRefresh, PlatformRefreshed, AdminEdit, HubFlips, Tick, cacheVars
  <2>3. HoldsReply(p) /\ routing' = response[p]
    BY <2>2 DEF StoreEmpty, StoreRouting, HoldsReply
  <2> QED
    BY <2>3 DEF Inv, RepliesAreNoOlderThanHeld, HoldsReply
<1> QED
  BY <1>1, Invariance, PTL DEF Spec, RegressionNeedsOverlap

-----------------------------------------------------------------------------
(* RoutingCache implements StaleRegister *)

\* A handler holds a configuration only between its return and ResolveRoute.
HandedOnReturn == \A h \in Handler : pc[h] # "returned" => outcome[h] = Nothing

\* Return gives its result to one handler, or to nobody.
LEMMA ReturnOutcome ==
  ASSUME TypeOK, NEW p \in Proc, NEW config, NEW err, Return(p, config, err)
  PROVE  /\ \A h \in Handler \ {p} : outcome'[h] = outcome[h] /\ pc'[h] = pc[h]
         /\ p \in Handler => /\ outcome'[p] = [config |-> config, err |-> err]
                             /\ pc'[p] = "returned"
BY DEF TypeOK, Return, Proc

\* The steps that return to nobody.
LEMMA HandedQuiet ==
  ASSUME Inv, HandedOnReturn, UNCHANGED outcome,
         \A h \in Handler : pc[h] = "returned" => pc'[h] = "returned"
  PROVE  HandedOnReturn'
BY DEF HandedOnReturn

LEMMA HandedReturn ==
  ASSUME Inv, HandedOnReturn, NEW p \in Proc, NEW config, NEW err,
         Return(p, config, err)
  PROVE  HandedOnReturn'
BY ReturnOutcome DEF Inv, HandedOnReturn

LEMMA HandedStep == Inv /\ HandedOnReturn /\ [Next]_vars => HandedOnReturn'
<1> SUFFICES ASSUME Inv, HandedOnReturn, [Next]_vars PROVE HandedOnReturn'
  OBVIOUS
<1>1. ASSUME NEW h \in Handler, ServeCached(h) PROVE HandedOnReturn'
  BY <1>1, HandedReturn DEF ServeCached, Proc
<1>2. ASSUME NEW p \in Proc, pc[p] = "idle", BeginRefresh(p) PROVE HandedOnReturn'
  <2>1. CASE baseUrlOk
    <3>1. UNCHANGED outcome /\ \A h \in Handler : pc[h] = "returned" => pc'[h] = "returned"
      BY <1>2, <2>1 DEF BeginRefresh, Inv, TypeOK, Proc
    <3> QED
      BY <3>1, HandedQuiet
  <2>2. CASE ~baseUrlOk
    BY <1>2, <2>2, HandedReturn DEF BeginRefresh
  <2> QED
    BY <2>1, <2>2
<1>3. ASSUME NEW p \in Proc, FetchFails(p) \/ ReceiveEmpty(p) \/ HubReplies(p)
      PROVE  HandedOnReturn'
  <2>1. UNCHANGED outcome /\ \A h \in Handler : pc[h] = "returned" => pc'[h] = "returned"
    BY <1>3 DEF FetchFails, ReceiveEmpty, HubReplies, Inv, TypeOK, Proc
  <2> QED
    BY <2>1, HandedQuiet
<1>4. ASSUME NEW p \in Proc, Fallback(p) PROVE HandedOnReturn'
  BY <1>4, HandedReturn DEF Fallback
<1>5. ASSUME NEW p \in Proc, StoreEmpty(p) \/ StoreRouting(p) PROVE HandedOnReturn'
  BY <1>5, HandedReturn DEF StoreEmpty, StoreRouting
<1>6. ASSUME NEW g \in Handler, ResolveRoute(g) PROVE HandedOnReturn'
  <2>1. /\ outcome'[g] = Nothing
        /\ \A h \in Handler \ {g} : outcome'[h] = outcome[h] /\ pc'[h] = pc[h]
    BY <1>6 DEF ResolveRoute, Inv, TypeOK, Proc
  <2> QED
    BY <2>1 DEF HandedOnReturn
<1>7. CASE PlatformRefreshed
  <2>1. UNCHANGED outcome /\ \A h \in Handler : pc[h] = "returned" => pc'[h] = "returned"
    BY <1>7 DEF PlatformRefreshed, Inv, TypeOK, Proc
  <2> QED
    BY <2>1, HandedQuiet
<1>8. CASE AdminEdit \/ HubFlips \/ Tick \/ UNCHANGED vars
  <2>1. UNCHANGED outcome /\ UNCHANGED pc
    BY <1>8 DEF AdminEdit, HubFlips, Tick, vars, procVars
  <2> QED
    BY <2>1, HandedQuiet
<1> QED
  BY <1>1, <1>2, <1>3, <1>4, <1>5, <1>6, <1>7, <1>8
     DEF Next, HandlerStep, FetchStep, MissCache, BackgroundRefresh, Proc

LEMMA HandedInvariance == Spec => [](Inv /\ HandedOnReturn)
<1>1. Init => HandedOnReturn
  BY DEF Init, HandedOnReturn, Proc
<1> QED
  BY <1>1, InvInit, InvStep, HandedStep, PTL DEF Spec

\* A step that leaves the Hub and the results alone is no step of the register.
LEMMA RegisterStutters ==
  ASSUME UNCHANGED <<hubVersion, supersededFor>>,
         \A h \in Handler : outcome'[h].config = outcome[h].config
  PROVE  UNCHANGED RoutingRegister!vars
BY DEF RoutingRegister!vars

\* A goroutine that returns is served by the register, or is told nothing.
LEMMA ReturnServes ==
  ASSUME Inv, HandedOnReturn, NEW p \in Proc, pc[p] # "returned", UNCHANGED hubVars,
         NEW config, NEW err, Return(p, config, err),
         p \in Handler =>
           \/ config = NoVersion
           \/ config \in 0..hubVersion /\ supersededFor[config] <= TTL + FetchBound
  PROVE  [RoutingRegister!Next]_RoutingRegister!vars
<1>1. /\ \A h \in Handler \ {p} : outcome'[h] = outcome[h]
      /\ p \in Handler => outcome'[p].config = config
  <2>1. /\ \A h \in Handler \ {p} : outcome'[h] = outcome[h]
        /\ p \in Handler => outcome'[p] = [config |-> config, err |-> err]
    BY Zenon, ReturnOutcome DEF Inv
  <2> QED
    BY <2>1
<1>2. p \in Handler => outcome[p].config = NoVersion
  BY DEF HandedOnReturn, Nothing
<1>3. CASE p \notin Handler \/ config = NoVersion
  BY <1>1, <1>2, <1>3, RegisterStutters DEF hubVars
<1>4. CASE p \in Handler /\ config # NoVersion
  <2> DEFINE handed == [h \in Handler |-> outcome[h].config]
             handedNext == [h \in Handler |-> outcome'[h].config]
  <2>1. config \in 0..hubVersion /\ supersededFor[config] <= TTL + FetchBound
    BY <1>4
  <2>2. handed[p] = -1
    BY <1>2, <1>4 DEF NoVersion
  <2>3. handedNext = [handed EXCEPT ![p] = config]
    BY <1>1, <1>4
  <2>4. RoutingRegister!Serve(p)
    BY <2>1, <2>2, <2>3 DEF RoutingRegister!Serve, RoutingRegister!Nothing, hubVars
  <2> QED
    BY <1>4, <2>4 DEF RoutingRegister!Next
<1> QED
  BY <1>3, <1>4

\* Every step of RoutingCache is a step of the register or a stutter.
LEMMA RegisterStep ==
  Inv /\ HandedOnReturn /\ [Next]_vars => [RoutingRegister!Next]_RoutingRegister!vars
<1> SUFFICES ASSUME Inv, HandedOnReturn, [Next]_vars
             PROVE  [RoutingRegister!Next]_RoutingRegister!vars
  OBVIOUS
<1>1. ASSUME NEW h \in Handler, ServeCached(h)
      PROVE  [RoutingRegister!Next]_RoutingRegister!vars
  <2>1. h \in Proc /\ pc[h] = "idle" /\ UNCHANGED hubVars /\ Return(h, routing, "none")
        /\ sinceFetch <= TTL /\ sinceFetch \in Int
    BY <1>1 DEF ServeCached, Stale, Proc, Inv, TypeOK, Age
  <2>2. CASE routing = NoVersion
    BY <2>1, <2>2, ReturnServes
  <2>3. CASE routing # NoVersion
    <3>1. routing \in Version /\ supersededFor[routing] \in Int
      BY <2>3 DEF Inv, TypeOK, Age
    <3>2. routing \in 0..hubVersion /\ supersededFor[routing] <= TTL + FetchBound
      BY <2>1, <3>1 DEF Inv, NothingFromTheFuture, CacheAge, Version, TypeOK
    <3> QED
      BY <2>1, <3>2, ReturnServes
  <2> QED
    BY <2>2, <2>3
<1>2. ASSUME NEW p \in Proc, pc[p] = "idle", BeginRefresh(p), UNCHANGED hubVars
      PROVE  [RoutingRegister!Next]_RoutingRegister!vars
  <2>1. CASE baseUrlOk
    BY <1>2, <2>1, RegisterStutters DEF BeginRefresh, hubVars
  <2>2. CASE ~baseUrlOk
    BY <1>2, <2>2, ReturnServes DEF BeginRefresh
  <2> QED
    BY <2>1, <2>2
<1>3. ASSUME NEW p \in Proc, FetchFails(p) \/ ReceiveEmpty(p) \/ HubReplies(p)
      PROVE  [RoutingRegister!Next]_RoutingRegister!vars
  BY <1>3, RegisterStutters DEF FetchFails, ReceiveEmpty, HubReplies, hubVars
<1>4. ASSUME NEW p \in Proc, Fallback(p)
      PROVE  [RoutingRegister!Next]_RoutingRegister!vars
  BY <1>4, ReturnServes DEF Fallback
<1>5. ASSUME NEW p \in Proc, StoreEmpty(p)
      PROVE  [RoutingRegister!Next]_RoutingRegister!vars
  BY <1>5, ReturnServes DEF StoreEmpty
<1>6. ASSUME NEW p \in Proc, StoreRouting(p)
      PROVE  [RoutingRegister!Next]_RoutingRegister!vars
  <2>1. HoldsReply(p) /\ UNCHANGED hubVars /\ Return(p, response[p], "none")
        /\ pc[p] # "returned"
    BY <1>6 DEF StoreRouting, HoldsReply
  <2>2. /\ response[p] \in Version /\ supersededFor[response[p]] <= inFlight[p]
        /\ inFlight[p] \in 0..FetchBound /\ supersededFor[response[p]] \in Int
    BY <2>1 DEF Inv, RepliesAreYoung, TypeOK, Age
  <2>3. response[p] \in 0..hubVersion /\ supersededFor[response[p]] <= TTL + FetchBound
    BY <2>2 DEF Inv, NothingFromTheFuture, Version, TypeOK
  <2> QED
    BY <2>1, <2>3, ReturnServes
<1>7. ASSUME NEW g \in Handler, ResolveRoute(g)
      PROVE  [RoutingRegister!Next]_RoutingRegister!vars
  <2> DEFINE handed == [h \in Handler |-> outcome[h].config]
             handedNext == [h \in Handler |-> outcome'[h].config]
  <2>1. /\ UNCHANGED hubVars
        /\ outcome'[g].config = NoVersion
        /\ \A h \in Handler \ {g} : outcome'[h] = outcome[h]
    BY <1>7 DEF ResolveRoute, Inv, TypeOK, Proc, Nothing
  <2>2. CASE outcome[g].config = NoVersion
    BY <2>1, <2>2, RegisterStutters DEF hubVars
  <2>3. CASE outcome[g].config # NoVersion
    <3>1. handed[g] # -1
      BY <2>3 DEF NoVersion
    <3>2. handedNext = [handed EXCEPT ![g] = -1]
      BY <2>1 DEF NoVersion
    <3>3. RoutingRegister!Release(g)
      BY <2>1, <3>1, <3>2 DEF RoutingRegister!Release, RoutingRegister!Nothing, hubVars
    <3> QED
      BY <3>3 DEF RoutingRegister!Next
  <2> QED
    BY <2>2, <2>3
<1>8. CASE PlatformRefreshed \/ HubFlips \/ UNCHANGED vars
  BY <1>8, RegisterStutters DEF PlatformRefreshed, HubFlips, hubVars, procVars, vars
<1>9. CASE AdminEdit
  <2>1. RoutingRegister!Edit
    BY <1>9 DEF AdminEdit, RoutingRegister!Edit, procVars
  <2> QED
    BY <2>1 DEF RoutingRegister!Next
<1>10. CASE Tick
  <2>1. RoutingRegister!TimePasses
    BY <1>10 DEF Tick, RoutingRegister!TimePasses, Older, RoutingRegister!Older,
       Version, RoutingRegister!Version
  <2> QED
    BY <2>1 DEF RoutingRegister!Next
<1> QED
  BY <1>1, <1>2, <1>3, <1>4, <1>5, <1>6, <1>7, <1>8, <1>9, <1>10
     DEF Next, HandlerStep, FetchStep, MissCache, BackgroundRefresh, Proc

\* ImplementsRoutingRegister of RoutingCache: for any number of callers, any
\* TTL and any overlap of fetches, GetRouting is a register that lags by at
\* most TTL + FetchBound.
THEOREM RoutingCacheIsRegister == Spec => ImplementsRoutingRegister
<1>1. Init => RoutingRegister!Init
  BY DEF Init, RoutingRegister!Init, RoutingRegister!Nothing, NoVersion, Nothing,
     Version, RoutingRegister!Version, Proc
<1> QED
  BY <1>1, RegisterStep, HandedInvariance, PTL
     DEF Spec, ImplementsRoutingRegister, RoutingRegister!Spec

-----------------------------------------------------------------------------
(* For those who read the cache after GetRouting has returned *)

\* Once the cache has been filled it is never without a configuration again, so
\* whoever was handed one finds one there.
CacheFilled == \A h \in Handler : outcome[h].config # NoVersion => routing # NoVersion

\* A handler gets a configuration that is in the cache when it gets it.
LEMMA ReturnFills ==
  ASSUME TypeOK, CacheFilled, NEW p \in Proc, NEW config, NEW err,
         Return(p, config, err), routing # NoVersion => routing' # NoVersion,
         config # NoVersion => routing' # NoVersion
  PROVE  CacheFilled'
<1>1. /\ \A h \in Handler \ {p} : outcome'[h] = outcome[h]
      /\ p \in Handler => outcome'[p] = [config |-> config, err |-> err]
  BY ReturnOutcome
<1> QED
  BY <1>1 DEF CacheFilled, NoVersion

LEMMA FilledStep == Inv /\ CacheFilled /\ [Next]_vars => CacheFilled'
<1> SUFFICES ASSUME Inv, CacheFilled, [Next]_vars PROVE CacheFilled'
  OBVIOUS
<1>1. ASSUME NEW h \in Handler, ServeCached(h) PROVE CacheFilled'
  <2>1. routing' = routing /\ routing # NoVersion
    BY <1>1, UsableVersion DEF ServeCached, cacheVars
  <2> QED
    BY <1>1, <2>1, ReturnFills DEF ServeCached, Proc, Inv
<1>2. ASSUME NEW p \in Proc, BeginRefresh(p) PROVE CacheFilled'
  <2>1. CASE baseUrlOk
    BY <1>2, <2>1 DEF BeginRefresh, cacheVars, CacheFilled, NoVersion
  <2>2. CASE ~baseUrlOk
    BY <1>2, <2>2, ReturnFills DEF BeginRefresh, Inv
  <2> QED
    BY <2>1, <2>2
<1>3. ASSUME NEW p \in Proc, FetchFails(p) \/ ReceiveEmpty(p) \/ HubReplies(p)
      PROVE  CacheFilled'
  BY <1>3 DEF FetchFails, ReceiveEmpty, HubReplies, cacheVars, CacheFilled, NoVersion
<1>4. ASSUME NEW p \in Proc, Fallback(p) PROVE CacheFilled'
  BY <1>4, ReturnFills DEF Fallback, cacheVars, Inv
<1>5. ASSUME NEW p \in Proc, StoreEmpty(p) \/ StoreRouting(p) PROVE CacheFilled'
  <2>1. routing' = response[p] /\ HoldsReply(p)
    BY <1>5 DEF StoreEmpty, StoreRouting, HoldsReply
  <2>2. routing' # NoVersion
    BY <2>1 DEF Inv, RepliesAreYoung, Version, NoVersion
  <2> QED
    BY <2>2 DEF CacheFilled
<1>6. ASSUME NEW g \in Handler, ResolveRoute(g) PROVE CacheFilled'
  <2>1. /\ routing' = routing /\ outcome'[g].config = NoVersion
        /\ \A h \in Handler \ {g} : outcome'[h] = outcome[h]
    BY <1>6 DEF ResolveRoute, Inv, TypeOK, Proc, cacheVars, Nothing
  <2> QED
    BY <2>1 DEF CacheFilled
<1>7. CASE PlatformRefreshed \/ AdminEdit \/ HubFlips \/ Tick \/ UNCHANGED vars
  BY <1>7 DEF PlatformRefreshed, AdminEdit, HubFlips, Tick, vars, cacheVars, procVars,
     CacheFilled, NoVersion
<1> QED
  BY <1>1, <1>2, <1>3, <1>4, <1>5, <1>6, <1>7
     DEF Next, HandlerStep, FetchStep, MissCache, BackgroundRefresh, Proc

LEMMA FilledInvariance == Spec => [](Inv /\ CacheFilled)
<1>1. Init => CacheFilled
  BY DEF Init, CacheFilled, Nothing, Proc
<1> QED
  BY <1>1, InvInit, InvStep, FilledStep, PTL DEF Spec
=============================================================================
