-------------------------- MODULE RateLimiterProofs --------------------------
(***************************************************************************)
(* Proofs about RateLimiter, for any number of goroutines, any limits and  *)
(* any number of retries.                                                  *)
(***************************************************************************)
EXTENDS RateLimiter, FiniteSetTheorems, TLAPS

\* What a window has granted and what its counter has left add up to no more
\* than its budget.
CounterFits ==
  \A w \in Window : granted[w] + Limit[w] <= budget[w] + Min2(count[w], Limit[w])

\* A goroutine past the INCR of a window holds that window's grant exactly if
\* its count came back within the limit; when failing closed it has the
\* minute's grant before it counts the day.  Check starts with the minute.
GrantHeld(p) ==
  /\ ~InCheck(p) => win[p] = "minute"
  /\ pc[p] \in {"expire", "reply"} /\ got[p] <= Limit[win[p]] => win[p] \in grants[p]
  /\ failClosed /\ InCheck(p) /\ win[p] = "day" => "minute" \in grants[p]
  /\ failClosed /\ pc[p] \in {"read", "admitted"} => grants[p] = Window

GrantsHeld == \A p \in Client : GrantHeld(p)

Inv == TypeOK /\ CounterFits /\ GrantsHeld

-----------------------------------------------------------------------------
\* Limits are positive, whatever the window.
LEMMA LimitType == \A w \in Window : Limit[w] \in Nat /\ Limit[w] >= 1
BY LimitAssumption DEF LimitAssumption

\* The initial states satisfy the type invariant.
LEMMA TypeInit == Init => TypeOK
<1> SUFFICES ASSUME Init PROVE TypeOK
  OBVIOUS
<1>1. /\ failClosed \in BOOLEAN
      /\ expires \in [Window -> BOOLEAN]
  BY Zenon DEF Init
<1>2. /\ count \in [Window -> Nat]
      /\ \A w \in Window : count[w] <= Limit[w] + 1
      /\ granted \in [Window -> Nat]
      /\ budget \in [Window -> Nat]
  BY LimitType, LimitAssumption DEF Init, LimitAssumption
<1>3. /\ pc \in [Client -> {"idle", "incr", "expire", "reply", "read", "admitted",
                            "limited", "unavailable"}]
      /\ win \in [Client -> Window]
      /\ late \in [Client -> SUBSET Window]
      /\ grants \in [Client -> SUBSET Window]
  BY DEF Init, Window
<1>4. /\ attempts \in [Client -> 0..MaxRetries]
      /\ got \in [Client -> Nat]
      /\ remaining \in [Client -> 0..Limit["minute"]]
  BY LimitType, RetryAssumption DEF Init, RetryAssumption, Window
<1> QED
  BY <1>1, <1>2, <1>3, <1>4 DEF TypeOK

\* Leaving a window keeps the types.
LEMMA LeaveType ==
  ASSUME TypeOK, NEW p \in Client, LeaveWindow(p)
  PROVE  attempts' \in [Client -> 0..MaxRetries] /\ got' \in [Client -> Nat]
BY RetryAssumption DEF TypeOK, LeaveWindow, RetryAssumption

\* Every step keeps the types.
LEMMA TypeStep == TypeOK /\ [Next]_vars => TypeOK'
<1> SUFFICES ASSUME TypeOK, [Next]_vars PROVE TypeOK'
  OBVIOUS
<1> USE DEF redisVars, historyVars
<1>1. ASSUME NEW p \in Client, Begin(p) \/ UnknownBucket(p) PROVE TypeOK'
  BY <1>1 DEF Begin, UnknownBucket, TypeOK
<1>2. ASSUME NEW p \in Client, Incr(p) PROVE TypeOK'
  <2>1. win[p] \in Window /\ count[win[p]] \in Nat /\ Limit[win[p]] \in Nat
    BY LimitType DEF TypeOK
  <2>2. /\ Min2(count[win[p]] + 1, Limit[win[p]] + 1) \in Nat
        /\ Min2(count[win[p]] + 1, Limit[win[p]] + 1) <= Limit[win[p]] + 1
    BY <2>1 DEF Min2
  <2>3. /\ count' \in [Window -> Nat]
        /\ \A w \in Window : count'[w] <= Limit[w] + 1
        /\ got' \in [Client -> Nat]
    BY <1>2, <2>1, <2>2 DEF Incr, TypeOK
  <2>4. granted' \in [Window -> Nat] /\ grants' \in [Client -> SUBSET Window]
    BY <1>2, <2>1 DEF Incr, TypeOK
  <2>5. pc' \in [Client -> {"idle", "incr", "expire", "reply", "read", "admitted",
                            "limited", "unavailable"}]
    BY <1>2 DEF Incr, TypeOK
  <2> QED
    BY <1>2, <2>3, <2>4, <2>5 DEF Incr, TypeOK
<1>3. ASSUME NEW p \in Client, ExpireAt(p) PROVE TypeOK'
  <2>1. win[p] \in Window /\ Limit[win[p]] \in Nat
    BY LimitType DEF TypeOK
  <2>2. /\ count' \in [Window -> Nat] /\ budget' \in [Window -> Nat]
        /\ \A w \in Window : count'[w] <= Limit[w] + 1
    BY <1>3, <2>1, LimitType DEF ExpireAt, TypeOK
  <2>3. expires' \in [Window -> BOOLEAN]
    BY <1>3 DEF ExpireAt, TypeOK
  <2>4. pc' \in [Client -> {"idle", "incr", "expire", "reply", "read", "admitted",
                            "limited", "unavailable"}]
    BY <1>3 DEF ExpireAt, TypeOK
  <2> QED
    BY <1>3, <2>2, <2>3, <2>4 DEF ExpireAt, TypeOK
<1>4. ASSUME NEW p \in Client, NextWindow(p),
             UNCHANGED <<failClosed, redisVars, remaining, historyVars>>
      PROVE  TypeOK'
  <2>1. win' \in [Client -> Window] /\ late' \in [Client -> SUBSET Window]
    BY <1>4 DEF NextWindow, TypeOK, Window
  <2>2. pc' \in [Client -> {"idle", "incr", "expire", "reply", "read", "admitted",
                            "limited", "unavailable"}]
    BY <1>4 DEF NextWindow, TypeOK
  <2>3. LeaveWindow(p)
    BY <1>4 DEF NextWindow
  <2> QED
    BY <1>4, <2>1, <2>2, <2>3, LeaveType DEF NextWindow, TypeOK
<1>5. ASSUME NEW p \in Client, NEW answer \in {"limited", "unavailable"},
             Reject(p, answer),
             UNCHANGED <<failClosed, redisVars, remaining, historyVars>>
      PROVE  TypeOK'
  <2>1. win' \in [Client -> Window] /\ late' \in [Client -> SUBSET Window]
    BY <1>5 DEF Reject, TypeOK, Window
  <2>2. pc' \in [Client -> {"idle", "incr", "expire", "reply", "read", "admitted",
                            "limited", "unavailable"}]
    BY <1>5 DEF Reject, TypeOK
  <2>3. LeaveWindow(p)
    BY <1>5 DEF Reject
  <2> QED
    BY <1>5, <2>1, <2>2, <2>3, LeaveType DEF TypeOK
<1>6. ASSUME NEW p \in Client, Decide(p) PROVE TypeOK'
  <2>1. CASE NextWindow(p)
    BY <1>4, <1>6, <2>1 DEF Decide
  <2>2. CASE Reject(p, "limited")
    BY <1>5, <1>6, <2>2 DEF Decide
  <2> QED
    BY <1>6, <2>1, <2>2 DEF Decide
<1>7. ASSUME NEW p \in Client, Resend(p) PROVE TypeOK'
  BY <1>7, RetryAssumption DEF Resend, TypeOK, RetryAssumption
<1>8. ASSUME NEW p \in Client, PipelineFails(p) PROVE TypeOK'
  <2>1. CASE NextWindow(p)
    BY <1>4, <1>8, <2>1 DEF PipelineFails
  <2>2. CASE Reject(p, "unavailable")
    BY <1>5, <1>8, <2>2 DEF PipelineFails, TypeOK
  <2> QED
    BY <1>8, <2>1, <2>2 DEF PipelineFails
<1>9. ASSUME NEW p \in Client, Read(p) \/ ReadFails(p) PROVE TypeOK'
  <2>1. /\ Limit["minute"] \in Nat /\ count["minute"] \in Nat
        /\ Limit["minute"] \in 0..Limit["minute"]
        /\ Max2(Limit["minute"] - count["minute"], 0) \in 0..Limit["minute"]
    BY LimitType DEF TypeOK, Window, Max2
  <2>2. remaining' \in [Client -> 0..Limit["minute"]]
    BY <1>9, <2>1 DEF Read, ReadFails, TypeOK
  <2> QED
    BY <1>9, <2>2 DEF Read, ReadFails, TypeOK
<1>10. ASSUME NEW p \in Client, Finish(p) PROVE TypeOK'
  BY <1>10, LimitType DEF Finish, TypeOK, Window
<1>11. ASSUME NEW over \in SUBSET Window, Rollover(over) PROVE TypeOK'
  <2>1. /\ count' \in [Window -> Nat]
        /\ \A w \in Window : count'[w] <= Limit[w] + 1
        /\ granted' \in [Window -> Nat] /\ budget' \in [Window -> Nat]
    BY <1>11, LimitType DEF Rollover, TypeOK
  <2>2. expires' \in [Window -> BOOLEAN]
    BY <1>11 DEF Rollover, TypeOK
  <2>3. late' \in [Client -> SUBSET Window]
    BY <1>11 DEF Rollover, TypeOK
  <2> QED
    BY <1>11, <2>1, <2>2, <2>3 DEF Rollover, TypeOK
<1>12. CASE MinuteEnds \/ DayEnds
  BY <1>11, <1>12 DEF MinuteEnds, DayEnds, Window
<1>13. CASE UNCHANGED vars
  BY <1>13 DEF vars, procVars, TypeOK
<1> QED
  BY <1>1, <1>2, <1>3, <1>6, <1>7, <1>8, <1>9, <1>10, <1>12, <1>13
     DEF Next, ClientStep, Failure

\* TypeOK of RateLimiter, for every instance.
THEOREM TypeCorrect == Spec => []TypeOK
BY TypeInit, TypeStep, PTL DEF Spec

-----------------------------------------------------------------------------
(* What the counters let through *)

\* The initial states satisfy Inv.
LEMMA InvInit == Init => Inv
<1> SUFFICES ASSUME Init PROVE Inv
  OBVIOUS
<1>1. CounterFits
  BY LimitType DEF Init, CounterFits, Min2
<1>2. GrantsHeld
  BY DEF Init, GrantsHeld, GrantHeld, InCheck
<1> QED
  BY <1>1, <1>2, TypeInit DEF Inv

\* An INCR takes from what the counter has left what it adds to the grants; an
\* EXPIREAT that deletes a counter adds a limit to the budget.
LEMMA QuotaStep == TypeOK /\ CounterFits /\ [Next]_vars => CounterFits'
<1> SUFFICES ASSUME TypeOK, CounterFits, [Next]_vars, NEW w \in Window
             PROVE  granted'[w] + Limit[w] <= budget'[w] + Min2(count'[w], Limit[w])
  BY DEF CounterFits
<1>0. /\ Limit[w] \in Nat /\ count[w] \in Nat /\ granted[w] \in Nat
      /\ budget[w] \in Nat
      /\ granted[w] + Limit[w] <= budget[w] + Min2(count[w], Limit[w])
  BY LimitType DEF TypeOK, CounterFits
<1>1. ASSUME NEW p \in Client, Incr(p)
      PROVE  granted'[w] + Limit[w] <= budget'[w] + Min2(count'[w], Limit[w])
  <2>1. CASE w # win[p]
    BY <1>0, <1>1, <2>1 DEF Incr, TypeOK
  <2>2. CASE w = win[p]
    <3>1. /\ count'[w] = Min2(count[w] + 1, Limit[w] + 1)
          /\ budget'[w] = budget[w]
          /\ granted'[w] = IF count[w] + 1 <= Limit[w] /\ w \notin late[p]
                           THEN granted[w] + 1 ELSE granted[w]
      BY <1>1, <2>2 DEF Incr, TypeOK
    <3> QED
      BY <1>0, <3>1 DEF Min2
  <2> QED
    BY <2>1, <2>2
<1>2. ASSUME NEW p \in Client, ExpireAt(p)
      PROVE  granted'[w] + Limit[w] <= budget'[w] + Min2(count'[w], Limit[w])
  <2>1. CASE w # win[p]
    BY <1>0, <1>2, <2>1 DEF ExpireAt, TypeOK
  <2>2. CASE w = win[p]
    <3>1. /\ count'[w] = IF w \in late[p] THEN 0 ELSE count[w]
          /\ budget'[w] = IF w \in late[p] /\ count[w] > 0
                          THEN budget[w] + Limit[w] ELSE budget[w]
          /\ granted'[w] = granted[w]
      BY <1>2, <2>2 DEF ExpireAt, TypeOK
    <3> QED
      BY <1>0, <3>1 DEF Min2
  <2> QED
    BY <2>1, <2>2
<1>3. ASSUME NEW over \in SUBSET Window, Rollover(over)
      PROVE  granted'[w] + Limit[w] <= budget'[w] + Min2(count'[w], Limit[w])
  <2>1. /\ count'[w] = IF w \in over /\ expires[w] THEN 0 ELSE count[w]
        /\ granted'[w] = IF w \in over THEN 0 ELSE granted[w]
        /\ budget'[w] = IF w \in over THEN Limit[w] ELSE budget[w]
    BY <1>3 DEF Rollover
  <2> QED
    BY <1>0, <2>1 DEF Min2
<1>4. CASE UNCHANGED <<count, granted, budget>>
  BY <1>0, <1>4
<1> QED
  <2>1. ASSUME NEW p \in Client,
               \/ Begin(p) \/ UnknownBucket(p) \/ Decide(p) \/ Read(p)
               \/ Finish(p) \/ Failure(p)
        PROVE  UNCHANGED <<count, granted, budget>>
    BY <2>1 DEF Begin, UnknownBucket, Decide, Read, Finish, Failure, Resend,
       PipelineFails, ReadFails, redisVars, historyVars
  <2>2. CASE MinuteEnds \/ DayEnds
    BY <1>3, <2>2 DEF MinuteEnds, DayEnds, Window
  <2>3. CASE UNCHANGED vars
    BY <1>4, <2>3 DEF vars, redisVars, historyVars
  <2> QED
    BY <1>1, <1>2, <1>4, <2>1, <2>2, <2>3 DEF Next, ClientStep

\* Every step keeps what a goroutine knows of its own grants: no other
\* goroutine, and no rollover, touches them.
LEMMA GrantsStep == TypeOK /\ GrantsHeld /\ [Next]_vars => GrantsHeld'
<1> SUFFICES ASSUME TypeOK, GrantsHeld, [Next]_vars, NEW q \in Client
             PROVE  GrantHeld(q)'
  BY DEF GrantsHeld
<1> USE DEF GrantHeld, InCheck
<1>0. GrantHeld(q)
  BY DEF GrantsHeld
<1>1. CASE UNCHANGED <<failClosed, pc, win, got, grants>>
  BY <1>0, <1>1
<1>2. ASSUME NEW p \in Client, p # q, UNCHANGED failClosed,
             pc'[q] = pc[q], win'[q] = win[q], got'[q] = got[q],
             grants'[q] = grants[q]
      PROVE  GrantHeld(q)'
  BY <1>0, <1>2
<1>3. CASE Begin(q) \/ UnknownBucket(q)
  BY <1>0, <1>3 DEF Begin, UnknownBucket, historyVars, TypeOK
<1>4. CASE Incr(q)
  <2>1. /\ win[q] \in Window /\ pc[q] = "incr" /\ pc'[q] = "expire"
        /\ got'[q] = Min2(count[win[q]] + 1, Limit[win[q]] + 1)
        /\ grants'[q] = IF count[win[q]] + 1 <= Limit[win[q]]
                        THEN grants[q] \cup {win[q]} ELSE grants[q] \ {win[q]}
        /\ UNCHANGED <<failClosed, win>>
    BY <1>4 DEF Incr, TypeOK
  <2>2. got'[q] <= Limit[win[q]] => count[win[q]] + 1 <= Limit[win[q]]
    BY <2>1, LimitType DEF Min2, TypeOK
  <2>3. failClosed /\ win[q] = "day" => "minute" \in grants'[q]
    BY <1>0, <2>1
  <2> QED
    BY <2>1, <2>2, <2>3
<1>5. CASE ExpireAt(q)
  BY <1>0, <1>5 DEF ExpireAt, TypeOK
<1>6. ASSUME NextWindow(q), UNCHANGED <<failClosed, grants>>,
             failClosed => win[q] \in grants[q], InCheck(q)
      PROVE  GrantHeld(q)'
  <2>1. /\ pc'[q] = IF win[q] = "minute" THEN "incr" ELSE "read"
        /\ win'[q] = IF win[q] = "minute" THEN "day" ELSE "minute"
        /\ win[q] \in Window /\ grants[q] \in SUBSET Window
    BY <1>6 DEF NextWindow, TypeOK
  <2>2. CASE win[q] = "minute"
    BY <1>6, <2>1, <2>2
  <2>3. CASE win[q] = "day"
    <3>1. failClosed => grants[q] = Window
      BY <1>0, <1>6, <2>1, <2>3 DEF Window
    <3> QED
      BY <1>6, <2>1, <2>3, <3>1
  <2> QED
    BY <2>1, <2>2, <2>3 DEF Window
<1>7. ASSUME NEW answer \in {"limited", "unavailable"}, Reject(q, answer)
      PROVE  GrantHeld(q)'
  BY <1>7 DEF Reject, TypeOK
<1>8. CASE Decide(q)
  <2>1. UNCHANGED <<failClosed, grants>> /\ InCheck(q)
    BY <1>8 DEF Decide, historyVars
  <2>2. CASE got[q] <= Limit[win[q]] /\ NextWindow(q)
    BY <1>0, <1>6, <1>8, <2>1, <2>2 DEF Decide
  <2>3. CASE Reject(q, "limited")
    BY <1>7, <2>3
  <2> QED
    BY <1>8, <2>2, <2>3 DEF Decide
<1>9. CASE Resend(q)
  BY <1>0, <1>9 DEF Resend, historyVars, TypeOK
<1>10. CASE PipelineFails(q)
  <2>1. UNCHANGED <<failClosed, grants>> /\ InCheck(q)
    BY <1>10 DEF PipelineFails, historyVars
  <2>2. CASE ~failClosed /\ NextWindow(q)
    BY <1>6, <2>1, <2>2
  <2>3. CASE Reject(q, "unavailable")
    BY <1>7, <2>3
  <2> QED
    BY <1>10, <2>2, <2>3 DEF PipelineFails
<1>11. CASE Read(q) \/ ReadFails(q) \/ Finish(q)
  BY <1>0, <1>11 DEF Read, ReadFails, Finish, historyVars, TypeOK
<1>12. ASSUME NEW p \in Client, p # q,
              \/ Begin(p) \/ UnknownBucket(p) \/ ClientStep(p) \/ Failure(p)
       PROVE  GrantHeld(q)'
  <2>1. /\ UNCHANGED failClosed
        /\ pc'[q] = pc[q] /\ win'[q] = win[q]
        /\ got'[q] = got[q] /\ grants'[q] = grants[q]
    <3>1. CASE Begin(p) \/ UnknownBucket(p) \/ Read(p) \/ ReadFails(p) \/ Finish(p)
      BY <1>12, <3>1 DEF Begin, UnknownBucket, Read, ReadFails, Finish, historyVars, TypeOK
    <3>2. CASE Incr(p) \/ ExpireAt(p) \/ Resend(p)
      BY <1>12, <3>2 DEF Incr, ExpireAt, Resend, historyVars, TypeOK
    <3>3. CASE Decide(p) \/ PipelineFails(p)
      <4>1. UNCHANGED <<failClosed, grants>>
        BY <3>3 DEF Decide, PipelineFails, historyVars
      <4>2. NextWindow(p) \/ Reject(p, "limited") \/ Reject(p, "unavailable")
        BY <3>3 DEF Decide, PipelineFails
      <4> QED
        BY <1>12, <4>1, <4>2 DEF NextWindow, Reject, LeaveWindow, TypeOK
    <3> QED
      BY <1>12, <3>1, <3>2, <3>3 DEF ClientStep, Failure
  <2> QED
    BY <1>2, <1>12, <2>1
<1>13. CASE MinuteEnds \/ DayEnds \/ UNCHANGED vars
  BY <1>1, <1>13 DEF MinuteEnds, DayEnds, Rollover, vars, procVars, historyVars
<1> QED
  BY <1>3, <1>4, <1>5, <1>8, <1>9, <1>10, <1>11, <1>12, <1>13
     DEF Next, ClientStep, Failure

\* Every reachable state satisfies Inv.
LEMMA Invariance == Spec => []Inv
<1>1. Inv /\ [Next]_vars => Inv'
  BY TypeStep, QuotaStep, GrantsStep DEF Inv
<1> QED
  BY <1>1, InvInit, PTL DEF Spec

-----------------------------------------------------------------------------
(* The theorems *)

\* GrantsWithinBudget of RateLimiter: only a straggler's EXPIREAT lets a window
\* grant more than its limit, and each lets it grant one limit more.
THEOREM GrantsAreWithinBudget == Spec => []GrantsWithinBudget
<1>1. Inv => GrantsWithinBudget
  <2> SUFFICES ASSUME Inv, NEW w \in Window PROVE granted[w] <= budget[w]
    BY DEF GrantsWithinBudget
  <2>1. /\ granted[w] \in Nat /\ budget[w] \in Nat /\ count[w] \in Nat
        /\ Limit[w] \in Nat
        /\ granted[w] + Limit[w] <= budget[w] + Min2(count[w], Limit[w])
    BY LimitType DEF Inv, TypeOK, CounterFits
  <2> QED
    BY <2>1 DEF Min2
<1> QED
  BY <1>1, Invariance, PTL

\* FailClosedAdmitsOnlyGranted of RateLimiter: failing closed, nothing passes
\* Check that Redis did not count within the limit in both windows.
THEOREM FailClosedIsClosed == Spec => []FailClosedAdmitsOnlyGranted
<1>1. Inv => FailClosedAdmitsOnlyGranted
  BY DEF Inv, GrantsHeld, GrantHeld, FailClosedAdmitsOnlyGranted
<1> QED
  BY <1>1, Invariance, PTL

\* RemainingIsNoPromise of RateLimiter: failing closed, the remaining requests
\* reported fit into what the minute may still grant.
THEOREM RemainingFitsBudget == Spec => RemainingIsNoPromise
<1> DEFINE Fits ==
      \A p \in Client :
        /\ failClosed
        /\ pc[p] # "admitted"
        /\ pc'[p] = "admitted"
        => granted["minute"] + remaining'[p] <= budget["minute"]
<1>1. Inv /\ [Next]_vars => [Fits]_vars
  <2> SUFFICES ASSUME Inv, Next, NEW p \in Client, failClosed,
                      pc[p] # "admitted", pc'[p] = "admitted"
               PROVE  granted["minute"] + remaining'[p] <= budget["minute"]
    OBVIOUS
  <2>1. Read(p)
    <3>1. ASSUME NEW q \in Client, q # p,
                 Begin(q) \/ UnknownBucket(q) \/ ClientStep(q) \/ Failure(q)
          PROVE  pc'[p] = pc[p]
      BY <3>1 DEF Begin, UnknownBucket, ClientStep, Failure, Incr, ExpireAt, Decide,
         Read, Finish, Resend, PipelineFails, ReadFails, NextWindow, Reject, Inv, TypeOK
    <3>2. ~MinuteEnds /\ ~DayEnds
      BY DEF MinuteEnds, DayEnds, Rollover
    <3>3. /\ ~Begin(p) /\ ~UnknownBucket(p) /\ ~Incr(p) /\ ~ExpireAt(p)
          /\ ~Decide(p) /\ ~Finish(p) /\ ~Resend(p) /\ ~PipelineFails(p)
      BY DEF Begin, UnknownBucket, Incr, ExpireAt, Decide, Finish, Resend,
         PipelineFails, NextWindow, Reject, Inv, TypeOK
    <3>4. ~ReadFails(p)
      BY DEF ReadFails, Inv, TypeOK
    <3> QED
      BY <3>1, <3>2, <3>3, <3>4 DEF Next, ClientStep, Failure
  <2>2. remaining'[p] = Max2(Limit["minute"] - count["minute"], 0)
    BY <2>1 DEF Read, Inv, TypeOK
  <2>3. /\ granted["minute"] \in Nat /\ budget["minute"] \in Nat
        /\ count["minute"] \in Nat /\ Limit["minute"] \in Nat
        /\ granted["minute"] + Limit["minute"]
             <= budget["minute"] + Min2(count["minute"], Limit["minute"])
    BY LimitType DEF Inv, TypeOK, CounterFits, Window
  <2> QED
    BY <2>2, <2>3 DEF Min2, Max2
<1> QED
  BY <1>1, Invariance, PTL DEF Spec, RemainingIsNoPromise

-----------------------------------------------------------------------------
(* How far stragglers can raise the quota *)

Attempt == Client \X (0..MaxRetries)

\* The attempts by which goroutines that are late for w may yet delete its
\* counter: all of them until the check of w begins, in it those that have not
\* come past their EXPIREAT.
Pending(w) ==
  {x \in Attempt :
     /\ w \in late[x[1]]
     /\ win[x[1]] = w => \/ x[2] > attempts[x[1]]
                         \/ x[2] = attempts[x[1]] /\ pc[x[1]] \in {"incr", "expire"}}

\* Each pending attempt is worth one more limit at most.
PendingBound(w) ==
  budget[w] + Limit[w] * Cardinality(Pending(w))
    <= Limit[w] * (1 + Cardinality(Attempt))

\* Nobody is late for a window that it has not ahead, and a check starts with
\* the first attempt.
LateIsAhead(p) ==
  /\ late[p] \subseteq Ahead(p)
  /\ ~InCheck(p) => attempts[p] = 0
  /\ ~InCheck(p) => win[p] = "minute"

OvershootInv ==
  /\ \A w \in Window : PendingBound(w)
  /\ \A p \in Client : LateIsAhead(p)

\* Multiplication by a limit keeps the order and distributes over a successor.
LEMMA TimesMonotonic ==
  ASSUME NEW m \in Nat, NEW a \in Nat, NEW b \in Nat, a <= b
  PROVE  m * a <= m * b
<1>1. PICK d \in Nat : b = a + d
  <2>1. b - a \in Nat /\ b = a + (b - a)
    OBVIOUS
  <2> QED
    BY <2>1
<1>2. m * b = m * a + m * d /\ m * d \in Nat /\ m * a \in Nat
  BY <1>1
<1> QED
  BY <1>2

LEMMA TimesSuccessor ==
  \A m, a \in Nat : m * (1 + a) = m + m * a /\ m * a \in Nat
OBVIOUS

\* There are finitely many attempts, one for each goroutine and number.
LEMMA AttemptCardinality ==
  /\ IsFiniteSet(Attempt)
  /\ Cardinality(Attempt) = MaxAdded
<1>1. /\ IsFiniteSet(0..MaxRetries)
      /\ Cardinality(0..MaxRetries) = MaxRetries + 1
  BY FS_Interval, RetryAssumption DEF RetryAssumption
<1> QED
  BY <1>1, FS_Product, ClientAssumption DEF Attempt, ClientAssumption, MaxAdded

LEMMA PendingFinite ==
  ASSUME NEW w \in Window
  PROVE  /\ IsFiniteSet(Pending(w))
         /\ Cardinality(Pending(w)) \in Nat
         /\ Cardinality(Pending(w)) <= Cardinality(Attempt)
         /\ Cardinality(Attempt) \in Nat
<1>1. Pending(w) \subseteq Attempt
  BY DEF Pending
<1> QED
  BY <1>1, AttemptCardinality, FS_Subset, FS_CardinalityType

LEMMA PendingFiniteNext ==
  ASSUME NEW w \in Window
  PROVE  /\ IsFiniteSet(Pending(w)')
         /\ Cardinality(Pending(w)') \in Nat
         /\ Cardinality(Pending(w)') <= Cardinality(Attempt)
<1>1. Pending(w)' \subseteq Attempt
  BY DEF Pending, Attempt
<1> QED
  BY <1>1, AttemptCardinality, FS_Subset, FS_CardinalityType

\* A step that makes no attempt pending and leaves the budget keeps the bound.
LEMMA ShrinkKeepsBound ==
  ASSUME NEW w \in Window, TypeOK, PendingBound(w), budget'[w] = budget[w],
         Pending(w)' \subseteq Pending(w)
  PROVE  PendingBound(w)'
<1>1. Cardinality(Pending(w)') <= Cardinality(Pending(w))
  BY PendingFinite, FS_Subset
<1>2. Limit[w] * Cardinality(Pending(w)') <= Limit[w] * Cardinality(Pending(w))
  BY <1>1, TimesMonotonic, LimitType, PendingFinite, PendingFiniteNext
<1>3. /\ budget[w] \in Nat
      /\ Limit[w] * Cardinality(Pending(w)') \in Nat
      /\ Limit[w] * Cardinality(Pending(w)) \in Nat
      /\ Limit[w] * (1 + Cardinality(Attempt)) \in Nat
  BY LimitType, PendingFinite, PendingFiniteNext, TimesSuccessor DEF TypeOK
<1>4. budget[w] + Limit[w] * Cardinality(Pending(w))
        <= Limit[w] * (1 + Cardinality(Attempt))
  BY DEF PendingBound
<1>5. budget'[w] + Limit[w] * Cardinality(Pending(w)')
        <= Limit[w] * (1 + Cardinality(Attempt))
  BY <1>2, <1>3, <1>4
<1> QED
  BY <1>5 DEF PendingBound, Attempt

\* An attempt of a goroutine that a step leaves alone stays as it was.
LEMMA OthersPending ==
  ASSUME NEW w \in Window, NEW x \in Pending(w)',
         late'[x[1]] = late[x[1]], win'[x[1]] = win[x[1]],
         attempts'[x[1]] = attempts[x[1]], pc'[x[1]] = pc[x[1]]
  PROVE  x \in Pending(w)
BY DEF Pending, Attempt

\* A goroutine that leaves a window's check drops its attempts there, and has
\* all of them in the next one.
LEMMA LeavingShrinks ==
  ASSUME NEW w \in Window, TypeOK, NEW p \in Client, InCheck(p), LateIsAhead(p),
         \/ NextWindow(p)
         \/ Reject(p, "limited")
         \/ Reject(p, "unavailable")
  PROVE  Pending(w)' \subseteq Pending(w)
<1> SUFFICES ASSUME NEW x \in Pending(w)' PROVE x \in Pending(w)
  OBVIOUS
<1>1. x \in Attempt /\ x[1] \in Client /\ x[2] \in 0..MaxRetries /\ w \in late'[x[1]]
  BY DEF Pending, Attempt
<1>2. CASE x[1] # p
  BY <1>1, <1>2, OthersPending DEF NextWindow, Reject, LeaveWindow, TypeOK
<1>3. CASE x[1] = p
  <2>1. CASE Reject(p, "limited") \/ Reject(p, "unavailable")
    BY <1>1, <1>3, <2>1 DEF Reject, TypeOK
  <2>2. CASE NextWindow(p)
    BY <1>1, <1>3, <2>2 DEF NextWindow, TypeOK, Pending
  <2> QED
    BY <2>1, <2>2
<1> QED
  BY <1>2, <1>3

\* Apart from an EXPIREAT, nothing that a goroutine does makes an attempt
\* pending; a resent pipeline is one that was still to come.
LEMMA ClientShrinks ==
  ASSUME NEW w \in Window, TypeOK, NEW p \in Client, LateIsAhead(p),
         \/ Begin(p) \/ UnknownBucket(p) \/ Incr(p) \/ Decide(p) \/ Read(p)
         \/ Finish(p) \/ Failure(p)
  PROVE  budget'[w] = budget[w] /\ Pending(w)' \subseteq Pending(w)
<1> USE DEF redisVars, historyVars
<1>1. budget'[w] = budget[w]
  BY DEF Begin, UnknownBucket, Incr, Decide, Read, Finish, Failure, Resend,
     PipelineFails, ReadFails
<1>2. CASE Decide(p) \/ PipelineFails(p)
  BY <1>1, <1>2, LeavingShrinks DEF Decide, PipelineFails, InCheck
<1>3. ASSUME NEW x \in Pending(w)',
             \/ Begin(p) \/ UnknownBucket(p) \/ Incr(p) \/ Read(p)
             \/ Finish(p) \/ Resend(p) \/ ReadFails(p)
      PROVE  x \in Pending(w)
  <2>1. x \in Attempt /\ x[1] \in Client /\ x[2] \in 0..MaxRetries
    BY DEF Pending, Attempt
  <2>2. CASE x[1] # p
    BY <1>3, <2>1, <2>2, OthersPending
       DEF Begin, UnknownBucket, Incr, Read, Finish, Resend, ReadFails, TypeOK
  <2>3. CASE x[1] = p
    <3>1. w \in late'[p] /\ late'[p] = late[p] /\ win'[p] = win[p]
      BY <1>3, <2>3 DEF Begin, UnknownBucket, Incr, Read, Finish, Resend, ReadFails,
         Pending
    <3>2. pc[p] \in {"incr", "expire", "reply"}
      BY <3>1 DEF LateIsAhead, Ahead, InCheck
    <3>3. CASE Incr(p)
      BY <2>1, <2>3, <3>1, <3>3 DEF Incr, Pending, TypeOK
    <3>4. CASE Resend(p)
      <4>1. attempts'[p] = attempts[p] + 1 /\ attempts[p] \in Int
        BY <3>4 DEF Resend, TypeOK
      <4>2. win'[p] = w => x[2] >= attempts'[p]
        BY <2>1, <2>3, <4>1 DEF Pending
      <4>3. win[p] = w => x[2] > attempts[p]
        BY <2>1, <3>1, <4>1, <4>2
      <4> QED
        BY <2>1, <2>3, <3>1, <4>3 DEF Pending
    <3> QED
      BY <1>3, <3>2, <3>3, <3>4 DEF Begin, UnknownBucket, Read, Finish, ReadFails
  <2> QED
    BY <2>2, <2>3
<1> QED
  BY <1>1, <1>2, <1>3 DEF Failure

\* An EXPIREAT that comes late uses up the attempt it belongs to.
LEMMA ExpireUsesAttempt ==
  ASSUME NEW w \in Window, TypeOK, NEW p \in Client, ExpireAt(p), PendingBound(w)
  PROVE  PendingBound(w)'
<1>1. Pending(w)' \subseteq Pending(w)
  <2> SUFFICES ASSUME NEW x \in Pending(w)' PROVE x \in Pending(w)
    OBVIOUS
  <2>1. x \in Attempt /\ x[1] \in Client
    BY DEF Pending, Attempt
  <2> QED
    BY <2>1, OthersPending DEF ExpireAt, TypeOK, Pending
<1>2. CASE budget'[w] = budget[w]
  BY <1>1, <1>2, ShrinkKeepsBound
<1>3. CASE budget'[w] # budget[w]
  <2>1. /\ w = win[p] /\ w \in late[p] /\ budget[w] \in Nat
        /\ budget'[w] = budget[w] + Limit[w]
    BY <1>3 DEF ExpireAt, TypeOK
  <2> DEFINE mine == <<p, attempts[p]>>
  <2>2. mine \in Pending(w)
    BY <2>1 DEF ExpireAt, Pending, Attempt, TypeOK
  <2>3. Pending(w)' \subseteq Pending(w) \ {mine}
    <3> SUFFICES ASSUME mine \in Pending(w)' PROVE FALSE
      BY <1>1
    <3>1. /\ pc'[p] = "reply" /\ attempts'[p] = attempts[p] /\ win'[p] = w
          /\ attempts[p] \in Int
      BY <2>1 DEF ExpireAt, TypeOK
    <3> QED
      BY <3>1 DEF Pending
  <2>4. /\ IsFiniteSet(Pending(w) \ {mine})
        /\ Cardinality(Pending(w) \ {mine}) = Cardinality(Pending(w)) - 1
    BY <2>2, PendingFinite, FS_RemoveElement
  <2>5. 1 + Cardinality(Pending(w)') <= Cardinality(Pending(w))
    BY <2>3, <2>4, FS_Subset, PendingFinite, PendingFiniteNext
  <2>6. Limit[w] * (1 + Cardinality(Pending(w)')) <= Limit[w] * Cardinality(Pending(w))
    BY <2>5, TimesMonotonic, LimitType, PendingFinite, PendingFiniteNext
  <2>7. /\ Limit[w] * (1 + Cardinality(Pending(w)'))
              = Limit[w] + Limit[w] * Cardinality(Pending(w)')
        /\ Limit[w] \in Nat
        /\ Limit[w] * Cardinality(Pending(w)') \in Nat
        /\ Limit[w] * Cardinality(Pending(w)) \in Nat
        /\ Limit[w] * (1 + Cardinality(Attempt)) \in Nat
    BY TimesSuccessor, LimitType, PendingFinite, PendingFiniteNext
  <2>8. budget[w] + Limit[w] * Cardinality(Pending(w))
          <= Limit[w] * (1 + Cardinality(Attempt))
    BY DEF PendingBound
  <2>9. budget'[w] + Limit[w] * Cardinality(Pending(w)')
          <= Limit[w] * (1 + Cardinality(Attempt))
    BY <2>1, <2>6, <2>7, <2>8
  <2> QED
    BY <2>9 DEF PendingBound, Attempt
<1> QED
  BY <1>2, <1>3

\* When a window ends, its next one starts with its limit, and at worst every
\* goroutine has every attempt pending.
LEMMA RolloverKeepsBound ==
  ASSUME NEW w \in Window, TypeOK, NEW over \in SUBSET Window, Rollover(over),
         PendingBound(w)
  PROVE  PendingBound(w)'
<1>1. CASE w \notin over
  <2>1. budget'[w] = budget[w]
    BY <1>1 DEF Rollover
  <2>2. Pending(w)' \subseteq Pending(w)
    BY <1>1 DEF Rollover, Pending, Attempt
  <2> QED
    BY <2>1, <2>2, ShrinkKeepsBound
<1>2. CASE w \in over
  <2>1. budget'[w] = Limit[w]
    BY <1>2 DEF Rollover
  <2>2. Limit[w] * Cardinality(Pending(w)') <= Limit[w] * Cardinality(Attempt)
    BY TimesMonotonic, LimitType, PendingFinite, PendingFiniteNext
  <2>3. /\ Limit[w] * (1 + Cardinality(Attempt))
              = Limit[w] + Limit[w] * Cardinality(Attempt)
        /\ Limit[w] \in Nat
        /\ Limit[w] * Cardinality(Pending(w)') \in Nat
        /\ Limit[w] * Cardinality(Attempt) \in Nat
    BY TimesSuccessor, LimitType, PendingFinite, PendingFiniteNext
  <2>4. budget'[w] + Limit[w] * Cardinality(Pending(w)')
          <= Limit[w] * (1 + Cardinality(Attempt))
    BY <2>1, <2>2, <2>3
  <2> QED
    BY <2>4 DEF PendingBound, Attempt
<1> QED
  BY <1>1, <1>2

\* The initial states satisfy OvershootInv: nothing is pending yet.
LEMMA OvershootInit == Init => OvershootInv
<1> SUFFICES ASSUME Init PROVE OvershootInv
  OBVIOUS
<1>1. ASSUME NEW w \in Window PROVE PendingBound(w)
  <2>1. budget[w] = Limit[w] /\ Cardinality(Pending(w)) = 0
    <3>1. Pending(w) = {}
      BY DEF Init, Pending, Attempt
    <3> QED
      BY <3>1, FS_EmptySet DEF Init
  <2>2. /\ Limit[w] * (1 + Cardinality(Attempt))
              = Limit[w] + Limit[w] * Cardinality(Attempt)
        /\ Limit[w] * Cardinality(Attempt) \in Nat
        /\ Limit[w] \in Nat /\ Limit[w] * 0 = 0
    BY TimesSuccessor, LimitType, PendingFinite
  <2> QED
    BY <2>1, <2>2 DEF PendingBound
<1>2. ASSUME NEW p \in Client PROVE LateIsAhead(p)
  BY DEF Init, LateIsAhead, InCheck
<1> QED
  BY <1>1, <1>2 DEF OvershootInv

\* Every step keeps where a goroutine can be late: Rollover adds what it has
\* ahead, and passing a window removes it.
LEMMA LateStep ==
  ASSUME TypeOK, [Next]_vars, \A p \in Client : LateIsAhead(p), NEW q \in Client
  PROVE  LateIsAhead(q)'
<1> USE DEF LateIsAhead, InCheck, Ahead, redisVars, historyVars
<1>0. LateIsAhead(q) /\ win[q] \in Window
  BY DEF TypeOK
<1>1. ASSUME pc'[q] = pc[q], win'[q] = win[q], late'[q] = late[q],
             attempts'[q] = attempts[q]
      PROVE  LateIsAhead(q)'
  BY <1>0, <1>1
<1>2. CASE \E over \in SUBSET Window : Rollover(over)
  BY <1>0, <1>2 DEF Rollover
<1>3. ASSUME NEW p \in Client, p # q,
             \/ Begin(p) \/ UnknownBucket(p) \/ ClientStep(p) \/ Failure(p)
      PROVE  LateIsAhead(q)'
  <2>1. CASE Begin(p) \/ UnknownBucket(p) \/ Read(p) \/ ReadFails(p) \/ Finish(p)
    BY <1>1, <1>3, <2>1 DEF Begin, UnknownBucket, Read, ReadFails, Finish, TypeOK
  <2>2. CASE Incr(p) \/ ExpireAt(p) \/ Resend(p)
    BY <1>1, <1>3, <2>2 DEF Incr, ExpireAt, Resend, TypeOK
  <2>3. CASE Decide(p) \/ PipelineFails(p)
    <3>1. NextWindow(p) \/ Reject(p, "limited") \/ Reject(p, "unavailable")
      BY <2>3 DEF Decide, PipelineFails
    <3> QED
      BY <1>1, <1>3, <3>1 DEF NextWindow, Reject, LeaveWindow, TypeOK
  <2> QED
    BY <1>3, <2>1, <2>2, <2>3 DEF ClientStep, Failure
<1>4. CASE Begin(q) \/ UnknownBucket(q) \/ Read(q) \/ ReadFails(q) \/ Finish(q)
  BY <1>0, <1>4 DEF Begin, UnknownBucket, Read, ReadFails, Finish, TypeOK
<1>5. CASE Incr(q) \/ ExpireAt(q) \/ Resend(q)
  BY <1>0, <1>5 DEF Incr, ExpireAt, Resend, TypeOK
<1>6. CASE Decide(q) \/ PipelineFails(q)
  <2>1. CASE NextWindow(q)
    BY <1>0, <1>6, <2>1 DEF Decide, PipelineFails, NextWindow, LeaveWindow, TypeOK, Window
  <2>2. CASE Reject(q, "limited") \/ Reject(q, "unavailable")
    BY <1>0, <2>2 DEF Reject, LeaveWindow, TypeOK
  <2> QED
    BY <1>6, <2>1, <2>2 DEF Decide, PipelineFails
<1>7. CASE UNCHANGED vars
  BY <1>1, <1>7 DEF vars, procVars
<1> QED
  BY <1>2, <1>3, <1>4, <1>5, <1>6, <1>7
     DEF Next, ClientStep, Failure, MinuteEnds, DayEnds, Window

\* Every step keeps OvershootInv.
LEMMA OvershootStep == TypeOK /\ OvershootInv /\ [Next]_vars => OvershootInv'
<1> SUFFICES ASSUME TypeOK, OvershootInv, [Next]_vars PROVE OvershootInv'
  OBVIOUS
<1>1. ASSUME NEW w \in Window PROVE PendingBound(w)'
  <2>0. PendingBound(w) /\ \A p \in Client : LateIsAhead(p)
    BY DEF OvershootInv
  <2>1. ASSUME NEW p \in Client, ExpireAt(p) PROVE PendingBound(w)'
    BY <2>0, <2>1, ExpireUsesAttempt
  <2>2. ASSUME NEW p \in Client,
               \/ Begin(p) \/ UnknownBucket(p) \/ Incr(p) \/ Decide(p) \/ Read(p)
               \/ Finish(p) \/ Failure(p)
        PROVE  PendingBound(w)'
    BY <2>0, <2>2, ClientShrinks, ShrinkKeepsBound
  <2>3. CASE MinuteEnds \/ DayEnds
    BY <2>0, <2>3, RolloverKeepsBound DEF MinuteEnds, DayEnds, Window
  <2>4. CASE UNCHANGED vars
    <3>1. budget'[w] = budget[w] /\ Pending(w)' = Pending(w)
      BY <2>4 DEF vars, procVars, historyVars, Pending, Attempt
    <3> QED
      BY <2>0, <3>1, ShrinkKeepsBound
  <2> QED
    BY <2>1, <2>2, <2>3, <2>4 DEF Next, ClientStep
<1>2. ASSUME NEW p \in Client PROVE LateIsAhead(p)'
  BY LateStep DEF OvershootInv
<1> QED
  BY <1>1, <1>2 DEF OvershootInv

\* OvershootBounded of RateLimiter: what stragglers can add to a window's quota
\* is bounded by the number of goroutines and of retries.
THEOREM OvershootIsBounded == Spec => []OvershootBounded
<1>1. TypeOK /\ OvershootInv => OvershootBounded
  <2> SUFFICES ASSUME TypeOK, OvershootInv, NEW w \in Window
               PROVE  budget[w] <= Limit[w] * (1 + MaxAdded)
    BY DEF OvershootBounded
  <2>1. /\ budget[w] \in Nat
        /\ Limit[w] * Cardinality(Pending(w)) \in Nat
        /\ Limit[w] * (1 + Cardinality(Attempt)) \in Nat
    BY LimitType, PendingFinite, TimesSuccessor DEF TypeOK
  <2>2. budget[w] <= Limit[w] * (1 + Cardinality(Attempt))
    BY <2>1 DEF OvershootInv, PendingBound
  <2> QED
    BY <2>2, AttemptCardinality
<1> QED
  BY <1>1, OvershootInit, OvershootStep, TypeInit, TypeStep, PTL DEF Spec

\* Between them the last two invariants bound the requests themselves: no
\* window ever lets through more than this many.
THEOREM GrantsAreBounded ==
  Spec => [](\A w \in Window :
               granted[w] <= Limit[w] * (1 + MaxAdded))
<1>1. TypeOK /\ GrantsWithinBudget /\ OvershootBounded
        => \A w \in Window :
             granted[w] <= Limit[w] * (1 + MaxAdded)
  <2> SUFFICES ASSUME TypeOK, GrantsWithinBudget, OvershootBounded, NEW w \in Window
               PROVE  granted[w] <= Limit[w] * (1 + MaxAdded)
    OBVIOUS
  <2>1. /\ granted[w] \in Nat /\ budget[w] \in Nat /\ Limit[w] \in Nat
        /\ Limit[w] * (1 + Cardinality(Attempt)) \in Nat
        /\ Cardinality(Attempt) = MaxAdded
    BY LimitType, PendingFinite, TimesSuccessor, AttemptCardinality DEF TypeOK
  <2>2. /\ granted[w] <= budget[w]
        /\ budget[w] <= Limit[w] * (1 + Cardinality(Attempt))
    BY <2>1 DEF GrantsWithinBudget, OvershootBounded
  <2>3. granted[w] <= Limit[w] * (1 + Cardinality(Attempt))
    BY <2>1, <2>2
  <2> QED
    BY <2>1, <2>3
<1> QED
  BY <1>1, TypeCorrect, GrantsAreWithinBudget, OvershootIsBounded, PTL

-----------------------------------------------------------------------------
(* RateLimiter implements Allowance *)

\* The multiples of limits that Allowance and the bound count in.
LEMMA AddedTypes ==
  ASSUME NEW w \in Window
  PROVE  /\ Limit[w] \in Nat /\ MaxAdded \in Nat
         /\ Limit[w] * MaxAdded \in Nat /\ Limit[w] * (1 + MaxAdded) \in Nat
         /\ Limit[w] * (1 + MaxAdded) = Limit[w] + Limit[w] * MaxAdded
<1>1. Limit[w] \in Nat /\ MaxAdded \in Nat
  BY LimitType, AttemptCardinality, PendingFinite
<1> QED
  BY <1>1, TimesSuccessor

\* A step that leaves grants and budgets alone is a stuttering step.
LEMMA AllowanceStutters ==
  ASSUME UNCHANGED <<granted, budget>>
  PROVE  UNCHANGED Quota!vars
BY DEF Quota!vars, MaxAdded

\* A grant takes one of the requests that are left.
LEMMA GrantStep ==
  ASSUME TypeOK, CounterFits, NEW p \in Client, Incr(p)
  PROVE  [Quota!Next]_Quota!vars
<1>0. PICK w \in Window : w = win[p]
  BY DEF TypeOK
<1>1. /\ budget' = budget
      /\ granted \in [Window -> Nat] /\ budget \in [Window -> Nat]
  BY DEF Incr, TypeOK
<1>2. CASE granted' = granted
  BY <1>1, <1>2, AllowanceStutters
<1>3. CASE granted' # granted
  <2>1. /\ granted' = [granted EXCEPT ![w] = @ + 1]
        /\ count[w] + 1 <= Limit[w]
    BY <1>0, <1>1, <1>3 DEF Incr
  <2>2. budget[w] - granted[w] > 0
    <3>1. /\ granted[w] + Limit[w] <= budget[w] + Min2(count[w], Limit[w])
          /\ granted[w] \in Nat /\ budget[w] \in Nat /\ count[w] \in Nat
          /\ Limit[w] \in Nat
      BY <1>1, LimitType DEF CounterFits, TypeOK
    <3> QED
      BY <2>1, <3>1 DEF Min2
  <2>3. [v \in Window |-> budget[v] - granted[v]]'
          = [[v \in Window |-> budget[v] - granted[v]] EXCEPT ![w] = @ - 1]
    <3>1. \A v \in Window : granted'[v] = IF v = w THEN granted[v] + 1 ELSE granted[v]
      BY <1>1, <2>1
    <3>2. \A v \in Window : granted[v] \in Nat /\ budget[v] \in Nat
      BY <1>1
    <3>3. \A v \in Window :
            budget'[v] - granted'[v]
              = IF v = w THEN (budget[v] - granted[v]) - 1 ELSE budget[v] - granted[v]
      BY <1>1, <3>1, <3>2
    <3> QED
      BY <3>3
  <2>4. [v \in Window |-> Limit[v] * (1 + MaxAdded) - budget[v]]'
          = [v \in Window |-> Limit[v] * (1 + MaxAdded) - budget[v]]
    BY <1>1 DEF MaxAdded
  <2>5. Quota!Grant(w)
    BY <1>1, <2>2, <2>3, <2>4 DEF Quota!Grant
  <2> QED
    BY <1>1, <2>5 DEF Quota!Next
<1> QED
  BY <1>2, <1>3

\* A straggler's EXPIREAT tops a window up, if it changes anything.
LEMMA StraggleStep ==
  ASSUME TypeOK, OvershootBounded', NEW p \in Client, ExpireAt(p)
  PROVE  [Quota!Next]_Quota!vars
<1>0. PICK w \in Window : w = win[p]
  BY DEF TypeOK
<1>1. /\ granted' = granted
      /\ granted \in [Window -> Nat] /\ budget \in [Window -> Nat]
  BY DEF ExpireAt, TypeOK
<1>2. CASE budget' = budget
  BY <1>1, <1>2, AllowanceStutters
<1>3. CASE budget' # budget
  <2>1. budget' = [budget EXCEPT ![w] = @ + Limit[w]]
    BY <1>0, <1>1, <1>3 DEF ExpireAt
  <2>2. \A v \in Window :
          /\ budget'[v] = IF v = w THEN budget[v] + Limit[v] ELSE budget[v]
          /\ granted[v] \in Nat /\ budget[v] \in Nat
          /\ Limit[v] \in Nat /\ Limit[v] * (1 + MaxAdded) \in Nat
    BY <1>1, <2>1, AddedTypes
  <2>3. Limit[w] * (1 + MaxAdded) - budget[w] >= Limit[w]
    <3>1. budget'[w] <= Limit[w] * (1 + MaxAdded)
      BY <1>1 DEF OvershootBounded, MaxAdded
    <3> QED
      BY <1>1, <2>2, <3>1
  <2>4. [v \in Window |-> budget[v] - granted[v]]'
          = [[v \in Window |-> budget[v] - granted[v]] EXCEPT ![w] = @ + Limit[w]]
    <3>1. \A v \in Window :
            budget'[v] - granted'[v]
              = IF v = w THEN (budget[v] - granted[v]) + Limit[v]
                ELSE budget[v] - granted[v]
      BY <1>1, <2>2
    <3> QED
      BY <3>1
  <2>5. [v \in Window |-> Limit[v] * (1 + MaxAdded) - budget[v]]'
          = [[v \in Window |-> Limit[v] * (1 + MaxAdded) - budget[v]]
               EXCEPT ![w] = @ - Limit[w]]
    <3>1. \A v \in Window :
            Limit[v] * (1 + MaxAdded) - budget'[v]
              = IF v = w THEN Limit[v] * (1 + MaxAdded) - budget[v] - Limit[v]
                ELSE Limit[v] * (1 + MaxAdded) - budget[v]
      <4> SUFFICES ASSUME NEW v \in Window, NEW b \in Nat, b = Limit[v] * (1 + MaxAdded)
                   PROVE  b - budget'[v] = IF v = w THEN b - budget[v] - Limit[v]
                                           ELSE b - budget[v]
        BY <2>2
      <4> QED
        BY <2>2
    <3> QED
      BY <1>1, <3>1 DEF MaxAdded
  <2>6. Quota!Straggle(w)
    BY <1>1, <2>3, <2>4, <2>5 DEF Quota!Straggle
  <2> QED
    BY <1>1, <2>6 DEF Quota!Next
<1> QED
  BY <1>2, <1>3

\* The end of a window renews it.
LEMMA RenewStep ==
  ASSUME NEW over \in SUBSET Window, Rollover(over)
  PROVE  Quota!Next
<1>1. \A v \in Window :
        /\ granted'[v] = IF v \in over THEN 0 ELSE granted[v]
        /\ budget'[v] = IF v \in over THEN Limit[v] ELSE budget[v]
        /\ Limit[v] - 0 = Limit[v]
        /\ Limit[v] * (1 + MaxAdded) - Limit[v] = Limit[v] * MaxAdded
  <2>1. \A v \in Window :
          /\ Limit[v] \in Nat /\ Limit[v] * MaxAdded \in Nat
          /\ Limit[v] * (1 + MaxAdded) = Limit[v] + Limit[v] * MaxAdded
    BY AddedTypes
  <2>2. \A v \in Window : /\ Limit[v] - 0 = Limit[v]
                          /\ Limit[v] * (1 + MaxAdded) - Limit[v] = Limit[v] * MaxAdded
    BY <2>1
  <2> QED
    BY <2>2 DEF Rollover
<1>2. [v \in Window |-> budget[v] - granted[v]]'
        = [v \in Window |-> IF v \in over THEN Limit[v]
                            ELSE [u \in Window |-> budget[u] - granted[u]][v]]
  BY <1>1
<1>3. [v \in Window |-> Limit[v] * (1 + MaxAdded) - budget[v]]'
        = [v \in Window |-> IF v \in over THEN Limit[v] * MaxAdded
             ELSE [u \in Window |-> Limit[u] * (1 + MaxAdded) - budget[u]][v]]
  BY <1>1 DEF MaxAdded
<1>4. Quota!Renew(over)
  BY <1>2, <1>3 DEF Quota!Renew
<1> QED
  BY <1>4 DEF Quota!Next

\* ImplementsAllowance of RateLimiter: what a subject may do is an allowance.
THEOREM AllowanceImplemented == Spec => ImplementsAllowance
<1>1. Init => Quota!Init
  <2> SUFFICES ASSUME Init PROVE Quota!Init
    OBVIOUS
  <2>1. \A v \in Window :
          /\ budget[v] - granted[v] = Limit[v]
          /\ Limit[v] * (1 + MaxAdded) - budget[v] = Limit[v] * MaxAdded
    <3>1. \A v \in Window : budget[v] = Limit[v] /\ granted[v] = 0
      BY DEF Init
    <3>2. \A v \in Window :
            /\ Limit[v] \in Nat /\ Limit[v] * MaxAdded \in Nat
            /\ Limit[v] * (1 + MaxAdded) = Limit[v] + Limit[v] * MaxAdded
      BY AddedTypes
    <3> QED
      BY <3>1, <3>2
  <2> QED
    BY <2>1, LimitAssumption DEF Quota!Init, LimitAssumption
<1>2. Inv /\ OvershootBounded' /\ [Next]_vars => [Quota!Next]_Quota!vars
  <2> SUFFICES ASSUME Inv, OvershootBounded', [Next]_vars PROVE [Quota!Next]_Quota!vars
    OBVIOUS
  <2>1. ASSUME NEW p \in Client, Incr(p) PROVE [Quota!Next]_Quota!vars
    BY <2>1, GrantStep DEF Inv
  <2>2. ASSUME NEW p \in Client, ExpireAt(p) PROVE [Quota!Next]_Quota!vars
    BY <2>2, StraggleStep DEF Inv
  <2>3. CASE MinuteEnds \/ DayEnds
    BY <2>3, RenewStep DEF MinuteEnds, DayEnds, Window
  <2>4. ASSUME NEW p \in Client,
               \/ Begin(p) \/ UnknownBucket(p) \/ Decide(p) \/ Read(p)
               \/ Finish(p) \/ Failure(p)
        PROVE  [Quota!Next]_Quota!vars
    <3>1. UNCHANGED <<granted, budget>>
      BY <2>4 DEF Begin, UnknownBucket, Decide, Read, Finish, Failure, Resend,
         PipelineFails, ReadFails, historyVars
    <3> QED
      BY <3>1, AllowanceStutters
  <2>5. CASE UNCHANGED vars
    BY <2>5, AllowanceStutters DEF vars, historyVars
  <2> QED
    BY <2>1, <2>2, <2>3, <2>4, <2>5 DEF Next, ClientStep
<1> QED
  BY <1>1, <1>2, Invariance, OvershootIsBounded, PTL
     DEF Spec, ImplementsAllowance, Quota!Spec
=============================================================================
