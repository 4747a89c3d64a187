# yadra-bridge in TLA+

Models, model-checking runs and machine-checked proofs for the Yadra proxy: the
Go service that authenticates a client, counts its request against a quota in
Redis, looks up the provider route that the admin has configured in the Hub,
forwards the chat request and reports its usage back to the Hub.

    tlc -config RoutingCache.cfg MC_RoutingCache.tla
    tlapm RoutingCacheProofs.tla

`PROJECT.json` names every run, the source lines every definition stands for,
the hazards, the findings and the theorems.

## The system

One process (`cmd/proxy/main.go`) holds a few long-lived objects, shared by one
goroutine per request and three kinds of background goroutine.

| Component | State | Operations | Talks to |
|---|---|---|---|
| `coreclient.Client`, routing | `routing`, `expiresAt`, `lastFetch`, `fetchErr` under `mu` | `GetRouting`, `refreshRouting`, `ResolveRoute`, background loop | Hub over HTTP (10 s timeout) |
| `coreclient.Client`, platform config | the same, a second set | `GetPlatformConfig`, `refreshPlatformConfig` | Hub |
| `ratelimit.Limiter` | none of its own: two keys per (bucket, subject) in Redis | `Check`, `checkWindow`, `Ping` | Redis, shared with other replicas |
| `handler.Chat` | per request only | `Handle`, `handleBuffered`, `handleStream`, `ingestUsage` | all of the above, the router |
| `router.Router` | none | `Forward`, `ForwardStream`, three adapters | providers over HTTP (timeout configured, 130 s by default) |
| `auth.JWKSCache`, `auth.Validator` | `keys` under `mu` | `refresh` (hourly), `GetKey`, `Validate` | Hub |
| `yadmanifest.Service` | `manifest`, `configKey`, `expiresAt`, `lastFetch` under `mu` | `Get` | platform config, CDN |
| `handler.Ready` | none | reads Redis, JWKS, routing, platform config in turn | |
| `redact.Engine` | rules, fixed at start | `Redact` | |
| `main` | the listener | start, signal, `Shutdown` with 10 s | |

What is hard in it:

* **Unserialised fetches.** `mu` covers single reads and writes of the cache,
  never a fetch. Handlers and the background loop fetch at the same time and
  the last reply to be stored wins, whatever it was asked for.
* **Two critical sections for one result.** `setFetchError` and then the store,
  or `setFetchError` and then `getCachedOrError`, with others in between.
* **Time.** A configuration ages in flight and in the cache; the limiter takes
  the time once and uses it in commands executed later.
* **Redis pipelines.** INCR and EXPIREAT are not a transaction, and go-redis
  sends a pipeline again whose reply was lost.
* **Work that outlives the request.** The usage goroutine runs after the
  handler has returned; the client may leave and the process may exit at any
  point.
* **Peers that never answer.** Each client of the process has a timeout; the
  server side has one for request headers only.

What makes each component correct:

* routing cache: bounded staleness, no going back without an overlap, an empty
  cache that says so, convergence to the last edit;
* limiter: no more grants than the quota, closed when told to fail closed, an
  honest `X-RateLimit-Remaining`, no permanent lock-out;
* chat: one answer per request, no error text in a started stream, a usage event
  that agrees with what happened, calls that all come to an end;
* manifest: a manifest that belongs to the configuration the request was given,
  bounded staleness through two caches, convergence to the last edit;
* keys: never emptied, and in step with a steady Hub;
* stream: a gapless prefix for the client, an end that tells, a bill that fits
  the text;
* readiness: an answer that does not contradict itself, and that comes.

## Modules

| Module | Models | Checked by |
|---|---|---|
| `RoutingCache` | the routing half of `coreclient.Client`, the Hub, the admin, time | `MC_RoutingCache`, `RoutingCacheProofs` |
| `YadManifest` | `yadmanifest.Service` and its handler over the platform half of `coreclient.Client` | `MC_YadManifest`, `YadManifestProofs` |
| `JwksCache` | `auth.JWKSCache`, `auth.Validator`, start-up's first fetch | `MC_JwksCache`, `JwksCacheProofs` |
| `RateLimiter` | `ratelimit.Limiter` against Redis, for one (bucket, subject) | `MC_RateLimiter`, `RateLimiterProofs` |
| `Chat` | JWT middleware, `handler.Chat`, the outcomes of `router.Router`, usage goroutine, shutdown | `MC_Chat`, `ChatProofs` |
| `StreamRelay` | the loops of `forwardOpenAIStream` and `forwardAnthropicStream`, line by line | `MC_StreamRelay`, `StreamRelayProofs` |
| `Ready` | `handler.Ready` composed with the whole of `RoutingCache` | `MC_Ready`, `ReadyProofs` |
| `StaleRegister` | nothing of the code: the promise of a cache in front of the Hub | implemented by `RoutingCache` once and by `YadManifest` twice |
| `Allowance` | nothing of the code: the promise of the limiter to a subject | implemented by `RateLimiter` |
| `Metering` | nothing of the code: the promise of the proxy about a chat request and its bill | implemented by `Chat` |

Definitions marked *Mutant* are plausible bugs in the code of the definition
that comes next; `PROJECT.json` pairs each with the property that notices it, and
no specification uses them.

### RoutingCache

A configuration is the number of the admin edit that made it; `HubEntries` says
whether an edit lists a model completely, incompletely (`RouteEntry.Valid`
fails) or not at all. Each action is one critical section of `mu` or one event
of a fetch between two of them:

| Action | Code (`internal/coreclient/client.go`) |
|---|---|
| `ServeCached`, `MissCache` | `GetRouting`: the cache is young and not empty, or `refreshRouting` begins |
| `BackgroundRefresh`, `PlatformRefreshed` | the body of the ticker loop: routing, then platform configuration |
| `FetchFails`, `Fallback` | an error, then `getCachedOrError`, whose configuration is dropped |
| `ReceiveEmpty`, `StoreEmpty` | `ErrRoutingEmpty`: first `setFetchError`, then the store |
| `StoreRouting` | the store; the three branches on `UpdatedAt` assign the same value |
| `ResolveRoute` | the result is used and the goroutine is free |
| `HubReplies`, `AdminEdit`, `HubFlips`, `Tick` | Hub, admin, network and clock |

Time is counted in ticks and kept as ages. `FetchBound` is the longest life of a
fetch, from the HTTP client's timeout; `Tick` is what it constrains. A base URL
that does not parse makes `NewRequest` fail, which is chosen at the start.

### RateLimiter

One action per Redis command (`Incr`, `ExpireAt`, `Read`), one for the comparison
(`Decide`), one for each way to fail (`Resend`, `PipelineFails`, `ReadFails`), and
the end of a minute or a day. A goroutine is *late* for a window that ended
after its `time.Now()`. The keys of different subjects never meet, so one pair
is enough; the goroutines may be those of several replicas. `failClosed` is
chosen at the start. Redis and the clocks are assumed to agree on the time.

One more thing is assumed of go-redis and Redis: a pipeline that its sender has given
up, to send it again or for good, is executed as far as it has been by then and no
further. After a read timeout the old connection could still deliver it. Such a
pipeline's INCR only uses quota up, but its EXPIREAT may delete one counter more than
`MaxAdded` knows of: the constant in `OvershootBounded` and `Allowance` stands under this
assumption. Without it a straggler's share would have to be counted by pipelines
still under way, also those of checks that are over.

`granted` and `budget` are history: what a window has let through, and its
limit plus one limit for each counter a straggler has deleted.

### Chat

One action per stage of `Handle`. Limiter and routing cache appear by the answers
they may give, because the other two modules show that each of them is
possible and an admin edit can change the route between two questions. A request
carries who may stall for it: its client, the provider or the Hub. An error is
told apart by what `strings.Contains` looks for in its text. A provider that stalls is
cut off by the router's timeout, which may end a call in any way: the error of
`io.ReadAll` is ignored (`router.go:148`), so a status or a whole body that came before
decides, and a torn body is malformed JSON. `spoiled` says that
an error body was written after the header of a stream: `headersSent` asks for a
`Size` method that no writer of net/http has, so it never prevents that.
`called` is history.

Each of the actions in which the handler reads from or writes to its client
(`Parse`, `RelayEnds`, `Respond`) may be held up by it: `HeldByClient`.

### YadManifest

`Service.Get` first asks the client for the platform configuration and then looks
into a cache of its own or fetches from the URL it has been given. The two caches
have two mutexes and nothing is locked between them.

| Action | Code |
|---|---|
| `ServeConfig`, `MissConfig`, `BackgroundRefresh` | `GetPlatformConfig` and the second half of the loop body (`client.go`) |
| `ConfigFails`, `ConfigWithoutURL`, `StoreConfig`, `ConfigFallback` | the ends of `refreshPlatformConfig`, `getCachedPlatformOrError` |
| `CheckCache`, `CdnReplies`, `CdnFails`, `StoreManifest` | `Service.Get`, `fetchAndValidate` (`yadmanifest/service.go`) |
| `UseCached`, `Finish` | `cachedOrError`; `handler.YadManifest` writes 200, 502 or 503 |
| `HubReplies`, `AdminEdit`, `HubFlips`, `CdnFlips`, `Tick` | Hub, admin, network, what upstream serves, clock |

A configuration is the number of its edit, and so is `configKey`, which is the
URL together with `UpdatedAt`; a manifest is the edit from whose URL it was
fetched. `HubBound` and `CdnBound` are what the two HTTP timeouts leave. Unlike
the routing cache, this one does return the configuration that its fallback
finds, and for twice its TTL; the manifest's fallback does the same on top of it.
`ManifestStaleness` adds all of that up. It is not tight: the code's `<` in two
places makes the worst case up to two ticks better.

### JwksCache

`main` fetches the keys once before it listens, whatever comes of it; afterwards
one goroutine fetches at every tick of an hourly ticker whose channel buffers one
tick. `FetchFails`, `KeepKeys` and `StoreKeys` are the ends of `refresh`;
`Validate` reads the cache in one critical section and is one action. A token is
its key id and at most one other flaw. `SettlingTime`, an interval and two fetches,
is how long a rotation may go unnoticed, and it is tight: one fetch that began
just before the rotation, the interval after it, and the fetch that ends it. Keys
do not expire while the Hub is down; `fetchedAt` is never read. `SetPublicKey`
is used by tests only.

### StreamRelay

One iteration of `for scanner.Scan()` is one action: `Skip` (nothing to relay),
`Relay` (the write succeeds), `WriteFails` (it does not, and the loop breaks),
`RelayTorn` (the scanner hands out what a cut has left of a line), `LoopEnds` and
`Return`. Between two iterations the provider sends or ends, the connection is
cut with any number of lines lost, and the client stalls, goes on or leaves. Both
adapters are there, because they differ: the first relays every line as it is and
counts a delta after it has written it, the second translates deltas, counts them
before it writes them and says `[DONE]` at the end. Two things it makes visible:
that `[DONE]` tells of the scanner's end and not of the provider's, so a stream that
was cut ends like a whole one, and in-band error events of Anthropic are skipped
like blank lines. The result is "ok" in all cases. `EndTells` says what a client
may conclude all the same. Lines that are no delta, such as data without the blank
after the colon, are of kind "other".

### Ready

A probe reads Redis, the keys, the routing (which may fetch), the routing's time,
the platform configuration's time and twice whether there is one, in as many
critical sections. `RoutingCache` is composed in whole (`RC == INSTANCE
RoutingCache`): its handlers are the probes, and the step in which a handler uses
its result is the probe's `ReadRouting`. That a behaviour of `Ready` is one of
`RoutingCache` is therefore true by construction and no result. Of the JWKS cache and the platform
configuration only what a probe can see is there; that keys once there are never
lost is `KeysNeverLost`, and that a configuration is only ever replaced by another
one is the shape of `StoreConfig`.

### StaleRegister

A writer edits, and a reader is handed the present edit or one that was replaced
no longer than `Bound` ago, never one from the future. `ImplementsRoutingRegister`,
`ImplementsConfigRegister` and `ImplementsManifestRegister` are the refinements:
`Bound` is `TTL + FetchBound`, `2 * ConfigTTL + HubBound` and `ManifestStaleness`,
and `handed` is the configuration in a handler's result, in a request's hands, or
the manifest in its answer.

### Allowance

Each window has requests left, and a straggler's share that may yet be added to
them. A grant takes one, a straggler moves one limit from the second to the first,
and the end of the window restores both. `ImplementsAllowance` maps `left` to
`budget - granted` and `spare` to what `OvershootBounded` leaves above `budget`:
Redis, expiries, resent pipelines and rejections are invisible but for these three
kinds of step. `MaxAdded`, the number of goroutines times the number of pipelines
that one check may send, is how often stragglers can add to a window.

### Metering

A request calls at most one route, before anything is said about it; it has one
answer and at most one bill, in either order, which agree; the bill names the
route that was called and is sent once. `ImplementsMetering` maps them to `called`,
the HTTP status, and the usage event with its goroutine. The handler's two paths
order answer and bill differently, and a client that leaves or a process that
exits cuts either short; the module allows nothing but that.

## Runs

| Run | Instance | Shows |
|---|---|---|
| `routing` | handler and refresher, 2 edits after the first, TTL 1, FetchBound 1, Horizon 3 | staleness, no going back without an overlap, the register, fetches end, the cache converges |
| `routing_docs_interval` | TTL 2, FetchBound 2 | violation: an edit is handed out later than one interval after it was replaced |
| `routing_docs_not_found` | a model that every edit offers | violation: it is answered with 404 |
| `limiter` | 1 goroutine, minute 1, day 2, up to 3 resends | the overshoot of resends, the allowance, fail-closed, no lock-out |
| `limiter_two` | 2 goroutines, minute 2, day 2, no resend | quota, its overshoot and the remaining requests under interleaved checks |
| `limiter_docs_fixed_window` | 2 goroutines, no resend | violation: more grants than the limit |
| `chat` | 1 request, 3 routes, 3 tiers, everybody may stall | answers, calls and events fit together and are those of `Metering`, requests end, calls are reported |
| `chat_docs_timeout` | 1 request | violation: a timeout answered 502 |
| `yad` | 1 request at a time and the refresher, a URL that is set, taken back and replaced, all times 1 | the manifest answers the configuration, both registers, requests end, answers converge |
| `jwks` | 2 keys, 3 rotations, TTL 3, FetchBound 2 | keys are never lost and follow the Hub, the proxy starts, the keys converge |
| `stream` | 4 lines, deltas of 0, 3 and 9 bytes | prefix, end, bill, nothing after a torn line, the relay returns |
| `ready` | 1 probe at a time and the refresher, a routing that is repaired, TTL 1, FetchBound 1 | consistent reports, probes end and converge |

Why the bounds are enough. Each run checks its component on the smallest instance in
which the interesting cases happen, safety and liveness together, under fairness and
therefore without symmetry; only the limiter has a run for each, because its liveness
over two goroutines is too large. What holds of more actors is left to the proofs:
every safety property and every refinement that a passing run checks is also a theorem
for any number of handlers, goroutines, requests or probes, any times, limits,
retries, edits and lengths. The mutants show that each property can fail on the
instance that checks it.

* `routing`, `ready`: a handler and the refresher are the two fetches a regression
  needs, and three versions allow one in the middle. Ages matter up to `TTL +
  FetchBound` and `2 * TTL`, and `Horizon` lies beyond.
* `limiter`: the limiter compares a count with its limit only, so limits of one
  and two give every order of passing, reaching and exceeding them; a counter
  stops one above its limit. Three resends cover every combination of executed
  commands. A window that ends at any point of a Check makes its goroutine the
  straggler.
* `limiter_two`: with limits of two both goroutines can be granted, and a third check
  is rejected; so one may count while the other is between its own count and its
  reading of what remains. The mutant of `RemainingIsNoPromise`, which takes the
  remaining requests from the first count, is caught here and would pass with one
  goroutine. Symmetry in the goroutines is sound, since the run has no liveness.
  There is no resend in it: a pipeline that fails, and the check that follows, execute
  the same commands, and `limiter` has the resends.
* `chat`: requests share only the process, which may be asked to exit; that they
  do not disturb each other is proved. One of the routes asks for a tier that
  `tierRank` does not name, and a token may name it too: such a route is open to
  everybody.
* `yad`: the edits give a configuration without a URL between two with one. There is
  one request at a time (two are too many for a run): two requests that store their
  manifests in the wrong order are covered by the theorems `AnswersMatch` and
  `ManifestIsRegister` only, and `ManifestConverges` says nothing of them.
* `jwks`: an interval longer than a fetch, as in the code, and rotations through a
  publication without a usable key.
* `stream`: a line before, at and after a cut and one more; text worth no, less
  than one and more than one token.

Deadlock is checked except for `Chat` and `StreamRelay`, which end.

### What the violations are

1. `NotFoundMeansNotConfigured`. `refreshRouting` returns an empty configuration
   and the nil error of `getCachedOrError`: while the cache is younger than twice
   its TTL and the Hub fails, configured models are 404 `model_not_available`. It
   looks like a slip: the configuration it meant to return is discarded by `_`.
2. `PropagatesWithinOneInterval`. The documented bound leaves out the time in
   flight; `StalenessBounded` is the one that holds.
3. `FixedWindowQuota`. A straggler's EXPIREAT deletes the counter of the next
   window. `GrantsWithinBudget` bounds the damage: one more limit for each; and
   `OvershootBounded` says how many there can be.
4. `UpstreamTimeoutIs504`. Go writes `Client.Timeout`, the code looks for
   `timeout`.

The first has a second symptom: `Ready` takes the same empty configuration for a
routing without models and answers 503 `routing_not_configured` while the Hub is down
for a moment. `ProbesConverge` asks for a Hub that stays up and so does not see it.

Two more divergences were met and have no run, since a property would restate one
line of the code:

* `Retry-After`. The time left is truncated to whole seconds (`handler/chat.go:43`) and
  the header is written only if that is more than zero (`apierr/errors.go:56`): a
  rejection in the last second of its window has none. `docs/API.md:27` says "Tier bucket
  limit hit (`Retry-After` header set)".
* A misspelt tier. `RouteEntry.Valid` looks only for an empty `tier_min`, and a tier that
  `tierRank` does not name ranks as `free` (`router.go:70`), so such a route is open to
  every user. `docs/API.md:121` says "Invalid or incomplete admin entries (missing API
  key, base URL, tier) are **skipped**, never used as silent defaults".

### Fairness

Weak fairness only, and on what the code or its libraries guarantee:

* `RoutingCache`, `YadManifest`: goroutines run, every fetch is answered or fails (the
  HTTP clients have timeouts), the background loop comes round, time goes on.
  Nothing is assumed of the admin, the Hub, the upstream or the clients.
* `JwksCache`: the same for its one fetching goroutine and the ticker.
* `RateLimiter`: goroutines run or fail, minutes and days end.
* `Chat`: handlers run unless their client holds them up, and usage goroutines
  run, all while the process has not exited; the router's client, go-redis and the
  Hub's client have timeouts, the connection to the client has none.
* `StreamRelay`: the handler runs, and the timeout of the router's `http.Client`, which
  covers the body, cuts every answer in the end (`Cut`).
* `Ready`: that of `RoutingCache`, and the probe's goroutine runs; the ping to Redis
  has a timeout.

There is no fairness on arrivals, disconnections, signals or outages.

## Proofs

Each `*Proofs` module follows one pattern: an inductive invariant `Inv`;
`Init => Inv`; one step per action; the properties, which the runs check on small
instances, as consequences. They hold for every value of the constants under the
ASSUMEs that the module declares (`TTL` and `FetchBound` positive and `Horizon`
beyond them, limits positive, finitely many goroutines in the limiter, routes with
a provider and a tier, a fetch shorter than the interval of the key refresh).

The type invariant of every module is a theorem. The runs check it where it says
more than types: in the three caches it holds the longest life of a fetch.

* **Routing cache.** Staleness is not inductive: it needs the age of a reply
  against the time in flight (`RepliesAreYoung`), the age of the cached
  configuration against the age of the cache (`CacheAge`), that no reply is from
  the future, and that a reply is no older than what the cache held when it was
  asked for (`RepliesAreNoOlderThanHeld`), which also gives `RegressionOnlyByOverlap`.
  `RoutingCacheIsRegister` maps every step to one of `StaleRegister` or a stutter.
* **Manifest.** `Inv` follows a configuration on its way: `ProcOK` bounds its age in
  a reply, `Platform` in the client's cache, `HandlerOK` in the hands of a request,
  and `Stored` once its manifest is cached, where it also says that the manifest
  belongs to its key. `AnswersMatch` and the two refinements follow.
* **Keys.** How long the cache may differ from a steady Hub depends on where the
  fetching goroutine is; `Behind` bounds it from tick to fetch to tick, and `InStep`
  says that a fetch ends before the next tick. At the end of the chain is
  `SettlingTime`.
* **Limiter.** `CounterFits`: what a window has granted and what its counter has left
  fit its budget. Every deletion of a counter raises the budget by what the
  counter can grant again. `GrantHeld` ties a goroutine's place in `Check` to
  the grants it has. From both follow the quota, fail-closed and the honesty of
  `X-RateLimit-Remaining`. How often stragglers add to a window needs a count of
  those who still can: an *attempt* is a goroutine with one of the pipelines it may
  send, and `Pending(w)` are the attempts that have yet to delete a counter of `w`.
  `OvershootInv` says that `budget[w]` is at most the limit times one more than the
  attempts that are no longer pending (`PendingBound`), and that nobody is late for
  a window that is not ahead of it (`LateIsAhead`). A deletion uses an attempt up,
  a resend goes to the next one, and no step but the end of `w` itself makes
  an attempt pending again. `GrantsAreBounded` joins it to `GrantsWithinBudget`,
  and `AllowanceImplemented` takes a step at a time: `Incr` that counts is `Grant`,
  an `ExpireAt` that deletes is `Straggle`, whose guard is `OvershootBounded` after
  the step, a rollover is `Renew`, and the rest stutters.
* **Chat.** `ReqInv` says for every stage of a handler what has been called,
  answered, reported and found out. Requests share nothing (`Others`, `Frame`), so
  the proof looks at one request at a time. `ReqInv` alone shows why no stream is
  spoiled: a handler that has an error has never written a status.
  `MeteringImplemented` needs the same: the stage tells which of call, answer and
  bill there are, and `ReqInv` that those which are there agree.
* **Stream.** A chunk must not leave a gap before it, and what shows that there is
  none is that a client which has not gone has every line up to the scanner
  (`Staying`). `Billing` keeps four bytes a token against the text, with three bytes
  lost for each chunk at most. `FragmentsComeLast`: a torn line is the last that
  the scanner hands out (`TornAtTheEnd`), so no relaying step is left after it.
* **Ready.** Every step of `Ready` is by its definition one of `RoutingCache` or leaves its
  variables alone; the lemma `Composes` says so, and lets the invariants proved of the
  cache by itself be used under any number of probes and not proved again. `Consistent` follows a report from
  reading to reading; what makes it true is that a routing that was returned has
  filled the cache (`CacheFilled`), and that keys and platform configuration do not
  go away again. `ProbesAreHarmless` and `ProbedCacheIsRegister` carry the properties
  of the cache, and its refinement of `StaleRegister`, through `Composes`.

Model-checked only: everything under fairness (`FetchesEnd`, `CacheConverges`,
`NoPermanentLockout`, `EveryRequestEnds`, `EveryCallIsReported`, `RequestsEnd`,
`ManifestConverges`, `ProxyStarts`, `KeysConverge`, `RelayReturns`, `ProbesEnd`,
`ProbesConverge`), which is beyond the proof system's backends, and the violations.

## Not modelled

* **Redaction** (`internal/redact`). Regular expressions over text, a pure function
  that `Handle` calls once per message before it goes on: no state of its own after
  start-up, and what it computes depends on the characters, which the models
  leave out.
* **Payloads, buffered token counts and cost** (`router.go`): translation of one
  answer and arithmetic on it. `doRequest` in `router_stream.go` is called by nothing.
* **Chat over the real limiter and routing cache.** `Chat` has their possible answers
  instead; both are too large together for a model checker, and each answer is
  one that the component's own module can give.
* **Configuration, logging, version.** Read once or pure output. `README.md:53` of
  the repository calls `CORE_PLATFORM_URL` required while `config.go:35` has a default, and
  a `ROUTING_CACHE_SEC` of zero means five seconds to the client and sixty to
  the manifest service; neither is behaviour over time.
* **Start-up failures** other than a first key fetch that fails, a listener that
  cannot bind, and a panic in a handler, which chi's middleware recovers.
* **On purpose:** the text of a message, a model name's spelling, header formats
  and log lines.

## What could follow

1. `Chat` composed with an abstract limiter and `StaleRegister` in place of free
   choices, which would tie a usage event to an edit of bounded age.
2. More requests at once in `YadManifest`'s liveness.
3. Payload translation as operators with reference definitions
   (`splitAnthropicMessages`, `itoa`, `mergeCategories`).
