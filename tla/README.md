# API gateway: specification and proofs

TLA+ modules for the NestJS API gateway in `src/`: what its components do under
concurrency, retries, late messages, timeouts and restarts, checked by TLC on small
instances, and theorems about all of it, proved by TLAPS for every instance. Paths below
are relative to the repository; `src/src/` holds the implementation.

Run `tlc -config MCX.cfg MCX` for a check, `tlapm XProofs.tla` for the proofs.

## The system

A client's request passes two middlewares, three global guards, the guard of its route
and a validation pipe, and reaches a handler under three interceptors; an exception
filter turns what is thrown into the answer. Handlers call business services, which call
three downstream services through HTTP clients, Redis, and RabbitMQ. Everything runs on
one event loop: code interleaves at `await`, and a promise nobody waits for runs on.

| Component (source) | State | Operations | What must hold |
|---|---|---|---|
| HTTP clients (`integration/http/base-http.client.ts`, `integration/resilience`) | one circuit breaker per client, its rolling statistics, one loop per call | `request`, `requestWithExtraHeaders` | calls are answered; a half-open breaker neither wedges nor lets a crowd through; only the reply to the latest attempt counts |
| Signup (`business/services/signup-orchestrator.service.ts`) | none of its own: a handler's progress over two services | `execute` | what was announced or answered 201 stays true; compensations hit their own signup |
| User profiles (`business/services/user-business.service.ts`, `integration/cache`) | one Redis copy per user | get, update, delete | a stale copy has a known reason and does not last |
| Messaging (`integration/messaging`) | connection, channel, handlers, `processedIds` | connect, publish, consume, register | nothing unprocessed is dropped as a duplicate; no delivery leaks |
| Authentication calls (`business/services/auth-business.service.ts`) | none; the auth service's sessions | login, refresh, validate, logout | revocation holds for later checks; sessions are not lost without a reason |
| Request pipeline (`cross-cutting`, `main.ts`) | throttler's storage, counters, `request.user` | guards, pipe, interceptors, filter, metrics | only the entitled reach a handler; one response, counted once |
| Health, metrics (`presentation/controllers`) | none | liveness, readiness, metrics | probes are answered |
| Videos (`business/services/video-business.service.ts`) | none; the breaker of its client | list, upload, stream-url | a failure has a reason; data was served; nothing is sent for nobody but at the end of the budget |
| Configuration, tracing (`config`, `telemetry`) | `process.env`, the namespace `app` | forRoot, the factory, the import of `tracing.ts` | what was validated is what is used, by every reader |
| Bootstrap and shutdown (`main.ts`, the module hooks) | connections, hooks, the open port | start, signal, stop | what is cut short has a reason; nothing hangs; a created user is announced while there is a channel |
| DTOs, wiring | constants | | |

How they interact: the orchestrator awaits the auth client, the user client and
`publish`, which returns at once; the user service awaits Redis and its client; the
authentication service awaits the auth client. All calls of one client share its
breaker. The timeout interceptor answers a client while the handler goes on. The
consumer reads the connection's channel once, at start-up. The readiness probe is a
request of the gateway to itself. On a signal the hooks that quit Redis and close
RabbitMQ run first, while the server still listens, and the server closes after them.

What makes it hard: a request whose attempt timed out is not aborted and may be applied
after its retry, or after its call was answered; two writers and a reader of one cache
entry interleave at every await; a signup spans two services and a compensation that can
fail like anything else; a process that stops between a handler and its acknowledgement,
or is told to stop while both requests and handlers are under way.
The full list, line by line, is `hazards` in `PROJECT.json`. Where the code simply lets
the hazard happen (an event lost for want of a channel, a logout reported whatever the
auth service said), no property is claimed for it: the entry has a note, and the
properties that concern it name it as the reason they allow.

## Modules

| Module | Models | Checked by | Proved in |
|---|---|---|---|
| `RemoteCall` | the promise of a client's `request`: the abstract specification | through `HttpClient` | through `HttpClientProofs` |
| `HttpClient` | retry loop, opossum breaker, wire and service for all calls of one client; implements `RemoteCall` | `MCHttpClient` | `HttpClientProofs` |
| `Videos` | the three video operations over one `HttpClient`, with the request timeout's budget | `MCVideos` | `VideosProofs` |
| `SignupSaga` | `execute` over three `RemoteCall`s per signup, the timeout, both services | `MCSignupSaga` | `SignupSagaProofs` |
| `CachedRecord` | where copies of a profile come from: abstract | through `UserCache` | through `UserCacheProofs` |
| `UserCache` | the three profile handlers over Redis and the user service; implements `CachedRecord` | `MCUserCache` | `UserCacheProofs` |
| `EventQueue` | an at-least-once queue: abstract | through `Messaging` | through `MessagingProofs` |
| `Messaging` | both RabbitMQ services, the broker, crashes and restarts; implements `EventQueue` | `MCMessaging` | `MessagingProofs` |
| `Lifecycle` | one life of the process: start-up, requests over Redis and `Messaging`, signals and the stop | `MCLifecycle` | `LifecycleProofs` |
| `Bootstrap` | environment, `.env` file, Joi schema, factory, `tracing.ts`, `listen` | `MCBootstrap` | `LifecycleProofs` |
| `RequestPipeline` | guards, throttler, pipe, timeout, filter, metrics, probes | `MCRequestPipeline` | `RequestPipelineProofs` |
| `AuthSession` | the four authentication calls as `RemoteCall`s, the auth service's sessions | `MCAuthSession` | `AuthSessionProofs` |

`RemoteCall` is what ties them together. `HttpClient` is shown to implement it, in a run
and as a theorem; `SignupSaga`, `UserCache` and `AuthSession` instantiate it for their
calls, so their results rest on the client's. (`Videos` is composed with `HttpClient`
itself, because its questions are about the breaker and about time.) It is weak on purpose: "ok" means that the
latest attempt was applied, "refused" that the service declined it, "failed" nothing at
all, and any attempt that left may still be applied later.

State and actions are named for the code. In `HttpClient`, `attempt` is the loop
variable of `retryWithBackoff`, `FireAdmitted` and `FireRejected` are the two outcomes of
opossum's `fire`, `ReceiveBody`, `ReceiveError` and `Timeout` the three ways the promise
settles. In `SignupSaga`, `step` is the call `execute` awaits, `Registered`,
`NotRegistered`, `Profiled`, `NotProfiled` and `RollbackAnswered` the continuations of
its awaits. In `UserCache`, each of `Lookup`, `Fetch`, `Fill`, `Written`, `Flush` is the
code between two awaits. In `Messaging`, a delivery and `handleMessage` up to its first
await are one action, what follows the handler is another; `stage` maps its places to
those of `EventQueue`, where connections, acknowledgements and lives of the process are
gone. In `UserCache`, `copies` collects the cache and what readers hold on its behalf; it
maps Redis and the handlers to `CachedRecord`. In `Lifecycle`, `phase` is how far
`bootstrap()` and Nest's shutdown have come, `redis` the state of the ioredis client, a
`step` the await of a handler; everything about RabbitMQ is an action of `Messaging`. In
`Bootstrap`, each action is one reader of the variables; a value is a digit string's
parts or a kind of word, which is all that Joi and `parseInt` tell apart. In `RequestPipeline`, `stage`
is the next guard or the handler. In `AuthSession`, a session is the pair of tokens the
service issued to one attempt. Code between two awaits is one action, always. Operators
named `...OneTooMany`, `...Unchecked` and the like are faulty forms of the definition
that follows them; no action uses one, they serve to show that the property notices.

Outside the code, and assumed:

- The services take an attempt at any time after it was sent, or never. A 2xx body
  without `success` is one with `success: true`, as the client reads it.
- The auth service keeps one account per address under a fresh id; the user service at
  most one profile per id. Neither has idempotency keys; the gateway sends none.
- opossum: one trial when half-open (`pendingClose`), reopening at its first failure, a
  rate over a rolling window otherwise, a rejection when open.
- RabbitMQ requeues what is unacknowledged when a channel ends, and dead-letters what is
  rejected. Node stops the process on an unhandled rejection.
- On a signal Nest awaits the destroy hooks module by module, then closes the server,
  then sends itself the signal again; if a hook throws it exits. Node's `server.close()`
  waits for open connections, not for handlers: a client that got its answer or closed
  its connection no longer holds it up, and a connection kept alive may bring requests
  until all are closed. ioredis queues commands while offline, ends at once on a QUIT with
  nothing queued, and gives the queue up in the end.
- `forRoot` lets the environment take precedence over the file, and assigns validated
  values only to what `process.env` lacks.
- The throttler keeps a quota per handler and address; when hits expire is left open.
- The auth service's `reason` is one of those that are true of the token; whether a
  refresh spends the old refresh token is left open.

## Runs

Passing runs. Each property is named, with its statement, at the end of its module.
`TypeOK` of `Videos` and `Lifecycle`, and `BootTypeOK` of `Bootstrap`, say what the variables
are and are not among the runs' properties; the first two are proved (`TypeCorrect`).

| Run | Instance | Shows |
|---|---|---|
| `http` | 2 calls, 2 attempts, default timeouts, threshold 50 %, a window of one bucket | a half-open breaker always has its trial, only one, and only the trial closes it; every call is answered; the client is a `RemoteCall` |
| `videos` | a listing and an upload, 3 attempts each, 5 s and 10 s | only another's failed attempt turns an operation away; data comes from the attempt that waited; after a 408 the last attempt may still go out, no other |
| `signup` | 2 signups for one address, 2 attempts a call | an announced or confirmed user keeps both records; a confirmed rollback is final; an account outlives a failed signup only by a failed rollback, or because the orchestrator never heard of it |
| `cache` | a read, an update, a delete, 2 attempts | a stale copy has one of four reasons, goes in the end, and a deleted profile is forgotten; the cache is a `CachedRecord` |
| `messaging` | 4 copies: two of one event, one of the gateway's own, one that does not parse; room for one id; 2 restarts | unacknowledged copies are those whose handlers run; the id set is bounded and true; a copy is handled once per life; deliveries are settled; the services are an `EventQueue`, which skips only what was handled |
| `lifecycle` | a signup, a read, a message of another service; the queue unbound, as `connect()` leaves it | a request is cut only by a kill, a failed hook, the dead channel, or a SIGINT after its client got a 408 or left; the event of a completed signup is on its way as long as there is a channel; a signal ends the process |
| `pipeline` | 2 requests for one profile by any of 4 users, quota of one, a probe and its ping | only the entitled reach a handler, quota is not spent by the refused, each response is counted once under its code, whatever comes after it, everyone is answered |
| `auth` | a login, a refresh, a check, a logout, 2 attempts | no check that begins after a revocation or ban says valid (unless the token had expired), "revoked" and "banned" are true, confirmed logouts have effect, a session is lost only to the gateway's own retry |
| `bootstrap` | every variable in turn, with every kind of value in both places | numbers are those that were validated, but for fractions and exponents; what was given is what is used; traces go to the configured endpoint unless that is in the file alone |

Runs that fail as expected, each a statement of the repository that the code does not
keep:

| Run | Statement | What happens |
|---|---|---|
| `signup_orphan` | ARCHITECTURE.md:47, "If user-service fails after auth-service succeeds, the orchestrator calls auth-service to delete the created user, preventing orphan records." | a profile creation times out, the account is deleted, the delete confirmed; then the user service takes the request, and the profile stays |
| `pipeline_admins` | `role-throttler.guard.ts:18`, "Skip rate limiting for admins" | the role is compared as spelled, the auth service spells it in upper case |
| `auth_valid` | `auth-business.service.ts:37`, "Throws appropriate exceptions if token is invalid" | `data.valid` is never looked at: an expired token is answered `valid: true` |

### Bounds

`videos` keeps the three attempts, because the two timeouts' defaults are about the third:
the calls make five attempts between them, of which two may be on their way, one may be
answered by an error, and two are in one window. Elsewhere, two attempts instead of three: the second is both "a later attempt than the first" and
"the last one", and no rule tells further attempts apart. Two calls share a breaker: one
to open it and one in flight from before, or one trial and one that is rejected. One
bucket is the window at its extreme; rates over more buckets take more calls. Two signups
for one address are the conflict; signups for different addresses share nothing.
`MCSignupSaga` bounds the requests on their way to two, and the retries of both signups
together to two. One profile is enough because keys do not interact; one
writer of each kind and a reader give every overlap of two handlers and a late attempt.
Room for one id evicts at the second event. Two restarts let a copy come back to a
consumer that has forgotten it, twice. In `lifecycle` one request of each kind is enough:
they meet in the process, not in each other; one foreign message gives the handler that
settles on a dead channel. In `bootstrap` one variable at a time is out of the ordinary;
that variables do not interact is the theorem `AnyConfiguration`. `MCAuthSession` retries one request other than the
login, expires one token, and has two attempts on their way. `MCRequestPipeline` lets the
quota of the two profile requests expire, that of the probe and its ping not. With one request per route
in `auth`, a refresh races a logout of the same session, which is the conflict over its
refresh token. Where a proof exists, no bound matters.

### Fairness

Assumed where the code has a timer or a promise that settles by itself, of nothing else:
opossum's timeout and reset timer and the sleep between attempts (`HttpClient`); Redis
expiry and the continuation of handlers, whose client calls are answered by the above
(`UserCache`); start-up hooks, delivery on an open channel, handlers that settle, a
supervisor that restarts the process (`Messaging`); synchronous guards and the
interceptor's timer (`RequestPipeline`, where a handler may hang for ever); hooks that are
answered or rejected, and handlers that go on (`Lifecycle`, whose requests are finitely
many: clients that kept their connections and never stopped sending could put the close
off for ever). Nothing is
assumed of services, the network, clients or connections. `SignupSaga` and `AuthSession`
state safety only: their calls end because `HttpClient`'s do.

## Proofs

`HttpClientProofs`, for any calls, retries, threshold (the schema bounds it nowhere) and
window:

- `TypeCorrect`, and with it `NeverWedged` (`HalfOpenHasTrial`): inductive with the type
  invariant. The step that matters is a settled call: if the breaker was half-open, it
  either closes or opens, so the last call in flight cannot leave it half-open.
- `OneTrial`, inductive given that the reset timer is longer than a call's timeout (the
  default): no call is in flight when the breaker becomes half-open, and admitting one
  clears `pendingClose`. `TrialCloses` follows for each closing step.
- `Implementation`: every behaviour is one of `RemoteCall`. It needs `SentSoFar`: a call
  has sent no attempt beyond its loop variable, so the attempt it waits for is the latest
  and its reply is the one that counts. Breaker, window and sleep steps stutter.
- `CallsRunOut`, the part of `EveryCallAnswered` that is about steps: `Left` counts two
  for each attempt to come, one to fire it and one to settle it; every step of the client
  lowers it for its call, and none raises any.

`SignupSagaProofs`, for any signups, addresses and retries. The four properties are not
inductive: that a created account stays depends on which deletes can still be applied.
`IInv` adds `Progress` (a signup's step says which of its calls were made; it was told
the id of an applied registration), `Accounts` (an account is there exactly if its
registration was applied and no delete of it was), `Announced` (only signups that are
done are announced, and their profiles exist) and `Heard` (a registration that was
answered by the service tells of the latest attempt: every other one that is or may become
an account was sent before it). A late delete of one signup can then not
hit another's account, because ids are not reused and a done signup never sent one. The
theorems are `TypeCorrect`, `EventsAreTrue`, `CreatedIsTrue`, `RollbackIsFinal` and
`OrphansExplained`; the last covers every attempt's account, not only the one the
orchestrator was told of, and rests on `Heard`. One lemma per action (`...Effect`) says what it does to the state;
the invariant's parts are then preserved pointwise.

`UserCacheProofs`, for any requests, retries and time to live:

- `TypeCorrect`.
- `StaleCopies` (`StaleHasReason`). The property speaks of moments at which no write is
  under way; the invariant `StaleExplained` speaks of all: without a mishap, a stale copy
  has a writer whose call was applied and who has yet to flush (`ToBeFlushed`). The
  steps that matter are those that could take the last such writer away: `Flush`, which
  empties the cache or is a mishap, and an answer other than "ok" to a call that was
  applied, which is one too. `CallPlaced` says that no call runs for a writer that waits
  for nothing.
- `Implementation`: every behaviour is one of `CachedRecord`, with Redis, handlers and
  calls out of sight. It needs `Holding`, that a reader who fills has something to fill.
- `StaysGone`, the part of `DeletedIsForgotten` that is about steps: with the row gone,
  the cache empty and no fill under way, no step fills the cache or answers a read.

`MessagingProofs`, for any messages, handlers, bound on the ids and number of restarts:

- `TypeCorrect` and `ProcessedCorrect` (`ProcessedIdsSound`): the ids are distinct, no
  more than the bound, and each was handled in this life. The lemmas are about the
  insertion and the eviction that `addProcessedId` makes of a JavaScript `Set`.
- `NoLeak` (`UnackedIsRunning`). `RunningSound` relates the broker's view to the
  process's for each state of the connection; with the channel gone, a handler may
  still run for a copy that is back in the queue.
- `HandledOnce` (`HandledOncePerLife`). `Counted` bounds the effects of an event by its
  copies times the lives that are over, plus its copies acknowledged in this one; what
  acknowledges a copy and what counts its effect are one step, so neither runs ahead.
- `Implementation`: every behaviour is one of `EventQueue`, under the map `stage`. A
  start, a crash, a lost connection and an eviction stutter or requeue; that a copy is
  skipped only when its event was handled (`SkipIsEarned`) is `ProcessedSound`.
- `NoRedelivery`, the part of `QueuedIsSettled` that is about steps: on an open channel a
  copy is handed over once, its handler settles it, and it stays settled. It needs
  `NoLeak`: what a handler settles is what the broker holds.

`LifecycleProofs`, for any requests, messages and handlers:

- `TypeCorrect`, for the process from `StopInv` and for the queue from its own steps
  (`QueueTypes`).
- `StopNeverStuck` (`StopGoesOn`), the part of `StopsAtLast` that is about states. While
  hooks are outstanding, one of them may be called, or a QUIT is on its way and is
  answered or given up; and a process that has swallowed SIGTERM has closed both
  connections. `HooksInOrder` is why: the server listens only after the start-up hooks, a
  destroy hook returns only with its connection over, and neither connection comes back
  (`LinkOneWay`).
- `Cuts` (`CutHasReason`) and `SilentUsers` (`SilentUserHasReason`) from one invariant:
  no request is accepted before RabbitMQ's start-up hook has ended (`Started`), so no
  event is published to a channel that comes later; a request stays on its route, and its
  client got the handler's last word or a 408, or left (`OnRoute`); the event of a signup that is
  not done has not been published, and that of one that is has not been lost while the
  channel lives (`Told`). What any of `Messaging`'s steps does to such an event is one
  lemma, `MessagingCarries`.
- `UsesMessaging`: the composed system's behaviours are behaviours of `Messaging`. So
  each theorem of `MessagingProofs` holds of it too. That last step is made here, on
  paper: the prover cannot cite theorems of an instantiated module.

and about `Bootstrap`, which is how the process comes to be one, for any texts of numbers
and any kinds of words. The module extends both, so `Bootstrap`'s `Init`, `Next` and `Spec`
have names of their own, `BootInit`, `BootNext` and `BootSpec`.

- `Configuration` (`ConfigAsGiven`) and `StrayTraces` (`TracesGoAstrayOnlyByFile`) from
  `BootInv`: what each reader has read is a function of the variables as they were given,
  at the stage it read them, and `process.env` is what `Assigned` makes of them. The
  properties compare two such functions for one variable, by the kinds of its values.
- `AnyConfiguration`: the same from any combination of variables in both places
  (`AnyStart`), where `BootInit` lets one at a time be out of the ordinary.

`RequestPipelineProofs`, for any requests, tokens, routes and quotas:

- `TypeCorrect`.
- `MetricsAreRight` (`MetricsAgree`). `MetricsSound` counts sets of requests: per code,
  no more were counted than answered, and no fewer than were answered and stayed. A
  response enlarges one set and its counter together.
- `OnlyEntitled` (`EntitledOnly`). `Admitted` says what each guard has established for a
  request at its stage; nobody but `Authenticate` writes `request.user`, so it lasts.
- `QuotasAreEarned` (`HitsAreEarned`): the hits of a key are at most the requests that
  have been through its throttler.

`AuthSessionProofs`, for any requests to the four routes and any retries: `TypeCorrect`,
`Condemned` (`CondemnedIsNotValid`), `Forbidden` (`ForbiddenIsTrue`), `ConfirmedLogouts`
(`LoggedOutHasEffect`) and `LostSessions` (`LostSessionHasReason`), all from one
invariant. `Placed` says which tokens a request may carry at each point; `CheckOf`,
`LogoutOf` and `RefreshOf` what the service must have known when it answered an attempt,
and that this is still so, since it never forgets a revocation; `SpentBy` that every
spent refresh token has a request that spent it. A step is shown to touch one request
and to leave the others as they were (`Same`), and the service only to add to its sets
(`Grows`).

`VideosProofs`, for any requests, retries, timeouts and settings of the breaker:

- `AnswersHaveReasons` (`AnswerHasReason`): the breaker leaves the closed state for a
  failed attempt only (`BreakerHasReason`), attempts that failed stay failed, and a reply
  with data goes with an attempt that was applied (`Replied`).
- `TypeCorrect`, which bounds `timedOut` by the attempts made (`CountedOnce`).
- `LateSends` (`LateSendIsLast`), about steps: a 408 implies that the attempts made so
  far may have used the budget up (`MayHaveElapsed`), which stays true with one more.

Between the modules: `UsesRemoteCall` in `SignupSagaProofs`, `UserCacheProofs` and
`AuthSessionProofs` says that every call there is made and served as `RemoteCall` allows,
which `HttpClientProofs` shows the client to implement; `UsesHttpClient` that `Videos` is
a behaviour of `HttpClient` once replies and the request timer are hidden, so that `NeverWedged`,
`OneTrial` and `TrialCloses` hold of its breaker (carried over on paper, as above).

Assumptions: those stated by `ASSUME` in the modules, evaluated by the runs. Two are worth
naming. An event has finitely many copies (`Messaging`): a network duplicates, but not
for ever, and otherwise there is nothing to count. `Lifecycle` and `Videos` assume of
their constants what the modules they instantiate do.

Only model-checked: the six liveness properties, `EveryCallAnswered`, `StaleIsTemporary`,
`DeletedIsForgotten`, `QueuedIsSettled`, `EveryRequestAnswered` and `StopsAtLast`, since
arguments from fairness are out of the prover's reach. What four of them rest on apart from
fairness is proved (`CallsRunOut`, `StaysGone`, `NoRedelivery`, `StopNeverStuck`): the
remaining step is that an action which stays possible is taken. `BootTypeOK` is
not proved: that a power of ten is a natural number is an induction, and no property
needs it.

## Disagreements met without a run

Seen while reading, each a matter of a line, so no run is spent on them:

- A POST that was applied but timed out is retried, and may be applied twice
  (ARCHITECTURE.md:44, "Safe/idempotent operations are retried"): `HttpClient` has the
  behaviour, `RemoteCall` allows it.
- A reader that missed before an update refills the cache with the old profile after the
  `DEL` (ARCHITECTURE.md:57, "Cache is invalidated on mutations"): one of the four
  `mishaps` of `UserCache`.
- Two copies of one event are both looked up before either is remembered
  (ARCHITECTURE.md:53, "Consumer checks idempotency keys to prevent duplicate
  processing"); `HandledOncePerLife` says what does hold.
- The stop (PROJECT-GUIDE.md:456, "Graceful shutdown on `SIGTERM`") quits Redis and
  closes the channel before it closes the server: requests accepted meanwhile fail, or
  create users nobody hears of, and a message handler that is still running ends the
  process on the dead channel, with the requests under way. Nor does the close wait for a
  handler whose client got a 408 or went away: after a SIGINT the process ends under it,
  perhaps with a signup between account and profile. `Lifecycle` has all of it;
  `CutHasReason` lists the ways.
- The endpoint of the exporter is read before `.env` is loaded, though ONBOARDING.md and
  `.env.example` put it there: `TracesGoAstrayOnlyByFile`.
- The factory reads numbers with `parseInt`, after Joi accepted more than it understands:
  `CIRCUIT_BREAKER_TIMEOUT=1e4` in the environment is a timeout of 1 ms.
- A rejection by an open breaker is slept on and retried like any error, for every
  method; ARCHITECTURE.md:44 says non-idempotent operations fail at once.
- Without `volumeThreshold` one failure of one call opens the circuit; ARCHITECTURE.md:41
  says "repeatedly".
- A registration whose answer was lost, or whose rollback failed, leaves an account. The
  code logs the second case and cannot know of the first; PROJECT-GUIDE.md:283 says "This
  prevents orphaned data!". `OrphanHasReason` says that there is no third.
- `CACHE_TTL_SECONDS=0` passes the schema and caches without expiry.
- `gateway.events` is not bound to the exchange that `publish` sends to, so its own
  events never reach it (PROJECT-GUIDE.md:350). `Messaging` has the constant
  `QueueBound`; its runs assume that somebody bound the queue.
- A consumer whose start-up hook runs before the channel is there never consumes.
- A 408 does not cancel its handler, against the comment at `cross-cutting.module.ts:59`:
  a signup may create its user, and announce it, afterwards.
- The readiness probe says "checks downstream dependencies" and pings the gateway itself,
  on port 3000 whatever the configuration.

## Not modelled

Spans, log lines, trace ids, path normalisation and the duration histogram (formatting);
helmet, CORS and Swagger; DTO field rules (a body is accepted or not); `isHealthy` of
`RedisService`, which nobody calls; a signal that comes before the server listens.

## Plan

Order: the client first, since every service awaits it; then the services that keep
state across awaits (signup, cache, messaging); then the pipeline and the sessions; then
what composes them (videos, the life of the process) and the configuration they start
from. That is written and checked, with the abstract specifications of the client, the
cache and the queue; every invariant, action property and refinement that a passing run
checks is proved. What is left is liveness, for a prover that has `ENABLED`, and to make by machine
the step from the theorems of `HttpClient` and `Messaging` to what composes them.
