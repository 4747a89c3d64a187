----------------------------- MODULE RateLimiter -----------------------------
(***************************************************************************)
(* The quota check of ratelimit.Limiter (internal/ratelimit/limiter.go)    *)
(* against Redis.                                                          *)
(*                                                                         *)
(* Check counts a request in two fixed windows, the minute and the day,    *)
(* by a pipeline of INCR and EXPIREAT on a key per window, and then reads  *)
(* the minute counter back for the X-RateLimit-Remaining header.  It takes *)
(* the time once, at the start; the pipeline is not a transaction; and the *)
(* keys carry no window number, so a window ends only by its expiry.       *)
(*                                                                         *)
(* Keys of different subjects and buckets never meet: the module is about  *)
(* one (bucket, subject) pair, whose requests are handled by several       *)
(* goroutines (Client), maybe of several replicas.  All clocks agree.  A   *)
(* counter stops at one above its limit, beyond which Check tells nothing  *)
(* apart.                                                                  *)
(*                                                                         *)
(* A pipeline that its sender has given up, to send it again or for good,  *)
(* is executed as far as it has been and no further.  A late one on the    *)
(* broken connection would count, and delete, once more than MaxAdded      *)
(* knows of.                                                               *)
(***************************************************************************)
EXTENDS Integers, FiniteSets

CONSTANTS
  Client,       \* goroutines running Check for this bucket and subject
  Limit,        \* bucketLimits: Limit[w] for each window
  MaxRetries    \* how often go-redis sends a failed pipeline again

Window == {"minute", "day"}

ASSUME ClientAssumption == IsFiniteSet(Client)
ASSUME LimitAssumption == Limit \in [Window -> Nat \ {0}]
ASSUME RetryAssumption == MaxRetries \in Nat

VARIABLES
  failClosed,   \* RATE_LIMIT_FAIL_CLOSED
  count,        \* the value of each window's key; 0 when there is none
  expires,      \* whether the key has an expiry: the end of this window
  pc,           \* where each goroutine is in Check
  win,          \* the window whose checkWindow it runs
  late,         \* windows that it has not yet passed and that have ended
                \* since its time.Now()
  attempts,     \* pipelines it has sent again
  got,          \* the reply of its INCR
  remaining,    \* CheckResult.Remaining
  grants,       \* history: windows whose INCR returned it at most the limit
  granted,      \* history: grants to requests that began in the present
                \* minute and in the present day
  budget        \* history: what the present minute and day may grant

redisVars == <<count, expires>>
procVars == <<pc, win, late, attempts, got, remaining>>
historyVars == <<grants, granted, budget>>
vars == <<failClosed, redisVars, procVars, historyVars>>

TypeOK ==
  /\ failClosed \in BOOLEAN
  /\ count \in [Window -> Nat]
  /\ \A w \in Window : count[w] <= Limit[w] + 1
  /\ expires \in [Window -> BOOLEAN]
  /\ pc \in [Client -> {"idle", "incr", "expire", "reply", "read", "admitted",
                        "limited", "unavailable"}]
  /\ win \in [Client -> Window]
  /\ late \in [Client -> SUBSET Window]
  /\ attempts \in [Client -> 0..MaxRetries]
  /\ got \in [Client -> Nat]
  /\ remaining \in [Client -> 0..Limit["minute"]]
  /\ grants \in [Client -> SUBSET Window]
  /\ granted \in [Window -> Nat]
  /\ budget \in [Window -> Nat]

Init ==
  /\ failClosed \in BOOLEAN
  /\ count = [w \in Window |-> 0]
  /\ expires = [w \in Window |-> FALSE]
  /\ pc = [p \in Client |-> "idle"]
  /\ win = [p \in Client |-> "minute"]
  /\ late = [p \in Client |-> {}]
  /\ attempts = [p \in Client |-> 0]
  /\ got = [p \in Client |-> 0]
  /\ remaining = [p \in Client |-> 0]
  /\ grants = [p \in Client |-> {}]
  /\ granted = [w \in Window |-> 0]
  /\ budget = Limit

\* p has a pipeline under way.
InCheck(p) == pc[p] \in {"incr", "expire", "reply"}

\* The windows whose check p has begun Check for and not yet passed.
Ahead(p) ==
  IF ~InCheck(p) THEN {} ELSE IF win[p] = "minute" THEN Window ELSE {"day"}

Min2(a, b) == IF a < b THEN a ELSE b
Max2(a, b) == IF a > b THEN a ELSE b

-----------------------------------------------------------------------------
(* Check *)

\* Check begins: time.Now().  Every bucket has a minute and a daily limit.
Begin(p) ==
  /\ pc[p] = "idle"
  /\ pc' = [pc EXCEPT ![p] = "incr"]
  /\ UNCHANGED <<failClosed, redisVars, win, late, attempts, got, remaining,
                 historyVars>>

\* A bucket that bucketLimits does not know is refused without asking Redis.
UnknownBucket(p) ==
  /\ pc[p] = "idle"
  /\ pc' = [pc EXCEPT ![p] = "unavailable"]
  /\ UNCHANGED <<failClosed, redisVars, win, late, attempts, got, remaining,
                 historyVars>>

\* Mutant: the value before the increment is compared, as a GET would return.
MutantIncr(p) ==
  LET w == win[p]
      n == count[w]
  IN
  /\ pc[p] = "incr"
  /\ count' = [count EXCEPT ![w] = Min2(n + 1, Limit[w] + 1)]
  /\ got' = [got EXCEPT ![p] = n]
  /\ granted' = [granted EXCEPT ![w] =
                   IF n <= Limit[w] /\ w \notin late[p] THEN @ + 1 ELSE @]
  /\ grants' = [grants EXCEPT ![p] =
                  IF n <= Limit[w] THEN @ \cup {w} ELSE @ \ {w}]
  /\ pc' = [pc EXCEPT ![p] = "expire"]
  /\ UNCHANGED <<failClosed, expires, win, late, attempts, remaining, budget>>

\* Redis executes the INCR of p's pipeline, in whatever window it is then.
Incr(p) ==
  LET w == win[p]
      n == count[w] + 1
  IN
  /\ pc[p] = "incr"
  /\ count' = [count EXCEPT ![w] = Min2(n, Limit[w] + 1)]
  /\ got' = [got EXCEPT ![p] = count'[w]]
  /\ granted' = [granted EXCEPT ![w] =
                   IF n <= Limit[w] /\ w \notin late[p] THEN @ + 1 ELSE @]
  /\ grants' = [grants EXCEPT ![p] =
                  IF n <= Limit[w] THEN @ \cup {w} ELSE @ \ {w}]
  /\ pc' = [pc EXCEPT ![p] = "expire"]
  /\ UNCHANGED <<failClosed, expires, win, late, attempts, remaining,
                 budget>>

\* Mutant: only the request that creates the counter gives it an expiry.
MutantExpireAt(p) ==
  LET w == win[p]
      first == got[p] = 1
  IN
  /\ pc[p] = "expire"
  /\ count' = [count EXCEPT ![w] = IF first /\ w \in late[p] THEN 0 ELSE @]
  /\ expires' = [expires EXCEPT ![w] =
                   IF first THEN w \notin late[p] /\ count[w] > 0 ELSE @]
  /\ budget' = [budget EXCEPT ![w] =
                  IF first /\ w \in late[p] /\ count[w] > 0 THEN @ + Limit[w] ELSE @]
  /\ pc' = [pc EXCEPT ![p] = "reply"]
  /\ UNCHANGED <<failClosed, win, late, attempts, got, remaining, grants, granted>>

\* Redis executes the EXPIREAT.  It names the end of the window that p's
\* time.Now() was in: if that has passed, Redis deletes the key at once.
ExpireAt(p) ==
  LET w == win[p] IN
  /\ pc[p] = "expire"
  /\ count' = [count EXCEPT ![w] = IF w \in late[p] THEN 0 ELSE @]
  /\ expires' = [expires EXCEPT ![w] = w \notin late[p] /\ count[w] > 0]
  /\ budget' = [budget EXCEPT ![w] =
                  IF w \in late[p] /\ count[w] > 0 THEN @ + Limit[w] ELSE @]
  /\ pc' = [pc EXCEPT ![p] = "reply"]
  /\ UNCHANGED <<failClosed, win, late, attempts, got, remaining, grants, granted>>

\* checkWindow returns: its locals are gone.
LeaveWindow(p) ==
  /\ attempts' = [attempts EXCEPT ![p] = 0]
  /\ got' = [got EXCEPT ![p] = 0]

\* checkWindow returns nil: on to the day, or to reading the counter back.
NextWindow(p) ==
  /\ pc' = [pc EXCEPT ![p] = IF win[p] = "minute" THEN "incr" ELSE "read"]
  /\ win' = [win EXCEPT ![p] = IF @ = "minute" THEN "day" ELSE "minute"]
  /\ late' = [late EXCEPT ![p] = @ \ {win[p]}]
  /\ LeaveWindow(p)

\* checkWindow returns an error, and so does Check.
Reject(p, answer) ==
  /\ pc' = [pc EXCEPT ![p] = answer]
  /\ win' = [win EXCEPT ![p] = "minute"]
  /\ late' = [late EXCEPT ![p] = {}]
  /\ LeaveWindow(p)

\* Mutant: the minute's reply already tells what remains, and the counter is
\* not read back.
MutantDecide(p) ==
  LET w == win[p]
      passes == got[p] <= Limit[w]
  IN
  /\ pc[p] = "reply"
  /\ \/ ~passes /\ Reject(p, "limited") /\ UNCHANGED remaining
     \/ /\ passes /\ w = "minute"
        /\ NextWindow(p)
        /\ remaining' = [remaining EXCEPT ![p] = Limit[w] - got[p]]
     \/ passes /\ w = "day" /\ Reject(p, "admitted") /\ UNCHANGED remaining
  /\ UNCHANGED <<failClosed, redisVars, historyVars>>

\* The pipeline's replies arrive and checkWindow compares the count.
Decide(p) ==
  /\ pc[p] = "reply"
  /\ \/ /\ got[p] <= Limit[win[p]]
        /\ NextWindow(p)
     \/ /\ got[p] > Limit[win[p]]
        /\ Reject(p, "limited")
  /\ UNCHANGED <<failClosed, redisVars, remaining, historyVars>>

\* Mutant: retries without end.
MutantResend(p) ==
  /\ InCheck(p)
  /\ attempts' = [attempts EXCEPT ![p] = @ + 1]
  /\ pc' = [pc EXCEPT ![p] = "incr"]
  /\ UNCHANGED <<failClosed, redisVars, win, late, got, remaining, historyVars>>

\* The connection breaks before the replies are in, with none, one or both
\* of the commands executed, and go-redis sends the pipeline again.  What Redis
\* has not executed by then it never does.
Resend(p) ==
  /\ InCheck(p)
  /\ attempts[p] < MaxRetries
  /\ attempts' = [attempts EXCEPT ![p] = @ + 1]
  /\ pc' = [pc EXCEPT ![p] = "incr"]
  /\ UNCHANGED <<failClosed, redisVars, win, late, got, remaining, historyVars>>

\* Mutant: a failed pipeline passes even when failing closed.
MutantPipelineFails(p) ==
  /\ InCheck(p)
  /\ NextWindow(p)
  /\ UNCHANGED <<failClosed, redisVars, remaining, historyVars>>

\* The retries are used up, or Redis answers with an error, which go-redis
\* does not retry: pipe.Exec returns an error.
PipelineFails(p) ==
  /\ InCheck(p)
  /\ \/ /\ failClosed
        /\ Reject(p, "unavailable")
     \/ /\ ~failClosed
        /\ NextWindow(p)
  /\ UNCHANGED <<failClosed, redisVars, remaining, historyVars>>

\* The GET of the minute counter; a missing key reads as zero.
Read(p) ==
  /\ pc[p] = "read"
  /\ remaining' = [remaining EXCEPT ![p] =
                     Max2(Limit["minute"] - count["minute"], 0)]
  /\ pc' = [pc EXCEPT ![p] = "admitted"]
  /\ UNCHANGED <<failClosed, redisVars, win, late, attempts, got, historyVars>>

\* The GET fails.
ReadFails(p) ==
  /\ pc[p] = "read"
  /\ \/ /\ failClosed
        /\ pc' = [pc EXCEPT ![p] = "unavailable"]
        /\ UNCHANGED remaining
     \/ /\ ~failClosed
        /\ pc' = [pc EXCEPT ![p] = "admitted"]
        /\ remaining' = [remaining EXCEPT ![p] = Limit["minute"]]
  /\ UNCHANGED <<failClosed, redisVars, win, late, attempts, got, historyVars>>

\* The handler has answered; the goroutine's locals are gone.
Finish(p) ==
  /\ pc[p] \in {"admitted", "limited", "unavailable"}
  /\ pc' = [pc EXCEPT ![p] = "idle"]
  /\ remaining' = [remaining EXCEPT ![p] = 0]
  /\ grants' = [grants EXCEPT ![p] = {}]
  /\ UNCHANGED <<failClosed, redisVars, win, late, attempts, got, granted,
                 budget>>

-----------------------------------------------------------------------------
(* Time *)

\* Windows end: a minute, or with its last minute the day.  Redis drops the
\* keys that expire then, and whoever is in Check is now late.
Rollover(over) ==
  /\ count' = [w \in Window |-> IF w \in over /\ expires[w] THEN 0 ELSE count[w]]
  /\ expires' = [w \in Window |-> w \notin over /\ expires[w]]
  /\ late' = [p \in Client |-> late[p] \cup (over \cap Ahead(p))]
  /\ granted' = [w \in Window |-> IF w \in over THEN 0 ELSE granted[w]]
  /\ budget' = [w \in Window |-> IF w \in over THEN Limit[w] ELSE budget[w]]
  /\ UNCHANGED <<failClosed, pc, win, attempts, got, remaining, grants>>

MinuteEnds == Rollover({"minute"})
DayEnds == Rollover(Window)

-----------------------------------------------------------------------------
ClientStep(p) ==
  Incr(p) \/ ExpireAt(p) \/ Decide(p) \/ Read(p) \/ Finish(p)

\* Redis, or the way to it, may fail under any call.
Failure(p) == Resend(p) \/ PipelineFails(p) \/ ReadFails(p)

Next ==
  \/ \E p \in Client :
       Begin(p) \/ UnknownBucket(p) \/ ClientStep(p) \/ Failure(p)
  \/ MinuteEnds
  \/ DayEnds

Spec == Init /\ [][Next]_vars

\* Goroutines run (or fail) and time goes on, through days as well as minutes.
\* Nothing obliges a client to call or Redis to answer.
Fairness ==
  /\ \A p \in Client : WF_vars(ClientStep(p) \/ Failure(p))
  /\ WF_vars(MinuteEnds)
  /\ WF_vars(DayEnds)

FairSpec == Spec /\ Fairness

-----------------------------------------------------------------------------
(* Properties *)

\* No window lets more requests through than its limit, but for one more
\* limit each time a straggler of an earlier window has deleted its counter:
\* lost replies, resent pipelines and counters left without an expiry never
\* add to what a subject may do.
GrantsWithinBudget ==
  \A w \in Window : granted[w] <= budget[w]

\* How often stragglers can add to a window: each goroutine with each pipeline
\* that one check may send.
MaxAdded == Cardinality(Client) * (MaxRetries + 1)

\* Stragglers are no way around the quota: one that is late for a window
\* deletes its counter at most once for each pipeline it sends, whatever the
\* rollovers, resends and rejections between, so a window lets through at most
\* its limit and one limit more for each goroutine and attempt.
OvershootBounded == \A w \in Window : budget[w] <= Limit[w] * (1 + MaxAdded)

Quota == INSTANCE Allowance WITH
  left <- [w \in Window |-> budget[w] - granted[w]],
  spare <- [w \in Window |-> Limit[w] * (1 + MaxAdded) - budget[w]]

\* To the subject, counters, expiries, lost replies and resent pipelines are an
\* allowance for each window that is spent one request at a time, that
\* stragglers may top up so often, and that only the end of the window renews.
ImplementsAllowance == Quota!Spec

\* When failing closed, a request gets past Check only if Redis counted it
\* within the limit in both windows, however the connection broke between
\* the commands.
FailClosedAdmitsOnlyGranted ==
  failClosed =>
    \A p \in Client : pc[p] \in {"read", "admitted"} => grants[p] = Window

\* When failing closed, a request is never admitted with an
\* X-RateLimit-Remaining that promises more than the present minute has left,
\* although others may have been counted, and the minute may have rolled over,
\* since it was counted itself.
RemainingIsNoPromise ==
  [][\A p \in Client :
       /\ failClosed
       /\ pc[p] # "admitted"
       /\ pc'[p] = "admitted"
       => granted["minute"] + remaining'[p] <= budget["minute"]]_vars

\* Nobody is locked out for good: if Redis and the connection stop failing and
\* requests keep being rejected, requests keep being admitted too, whatever
\* counters without an expiry the failures left behind.
NoPermanentLockout ==
  /\ <>[][\A p \in Client : ~Failure(p)]_vars
  /\ []<>(\E p \in Client : pc[p] = "limited")
  => []<>(\E p \in Client : pc[p] = "admitted")

\* limiter.go, bucketLimits: "Windowing is fixed-window per minute and per
\* day".  No window lets more requests through than its limit.
FixedWindowQuota ==
  \A w \in Window : granted[w] <= Limit[w]
=============================================================================
