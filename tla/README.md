# Formal model of the Docker Compose template

This directory holds TLA+ models of the program in this repository (a NestJS
backend, a Next.js frontend, a Flask reports-api, Redis, PostgreSQL, and the
Makefile, scripts and workflows that deploy and operate them), the TLC
configurations that check the models on small instances, and TLAPS proofs of
what matters most for every value of the constants.

    tlc -config session_redis.cfg MCSessionAuth     # a run; PROJECT.json lists them
    tlapm SessionAuthProofs.tla                     # the proofs of a component

Paths below are relative to the repository's root.

## 1. Inventory

### reports-api (Python, Flask, gunicorn)

| part | state | operations | what is hard | what makes it correct |
|------|-------|------------|--------------|-----------------------|
| session validation, `middleware/auth.py` | a circuit breaker per worker process, the session cache (Redis, or a dictionary per worker), request threads | `require_auth`, `_validate_session`, `_call_auth_backend` | threads of a worker share the breaker; cache read, call and cache write are separate steps; timeouts race late answers; what a client sends can make the call itself raise; workers are recycled | bounded staleness of an admission; one call per worker; the breaker's policy; every request is answered; the breaker recovers |
| cache invalidation, `routes/auth.py` | the same cache | `POST /internal/cache/invalidate` | races with refills; without Redis it reaches one worker's dictionary | an invalidated session is not served again |
| rate limiting, `main.py` | counters in Redis, which decide nothing | `AlertingLimiter._check_request_limit` | one `except` for Redis's failures and for the refusal | |
| health, `routes/health.py` | none | `/health`, `/health/ready` | which dependency fails which check | a deployment waits for the right thing |
| configuration, `utils.py`, `config/config.py`, `main.py`, `db.py` | environment, secret files | `read_secret`, `get_settings`, `create_db_engine` | precedence and validation | a service that can start does |
| request validation, `schemas.py`, `utils.py` | none | `validate_request` | pure | |
| database pool, `db.py`, `gunicorn.conf.py` | SQLAlchemy's pool | `create_db_engine`, `post_fork` | a pool inherited across fork | |

### backend (TypeScript, NestJS)

| part | state | operations | what is hard | what makes it correct |
|------|-------|------------|--------------|-----------------------|
| guards, `app.module.ts`, `auth/guards`, `common/guards` | throttle counters (the library's), `req.user` | throttler, JWT, roles, local-only and metrics guards | their order; a role outside the hierarchy | what a guard reads was set by an earlier one; a refusal has its cause |
| auth, `auth.controller.ts`, `auth.service.ts` | cookies | register, login, refresh, me, logout | most of it answers 501; logout revokes nothing | a status tells whether the work was done |
| health, `health.controller.ts` | none | `/health`, `/health/ready` | | |
| start-up, `main.ts`, `config/*.ts`, `auth.module.ts` | environment, secret files, copies in memory | `bootstrap`, `readSecret`, `validateAppConfig` | order and completeness of the checks; several readings of a file | a backend that listens is real |
| filters, interceptors, middleware | none | error mapping, request ids | formatting | |

### frontend (TypeScript, Next.js)

| part | state | operations | what is hard | what makes it correct |
|------|-------|------------|--------------|-----------------------|
| API clients, `src/lib/api.ts`, `src/lib/reports.ts`, and `backend/lib/api.ts` | the calls in progress, abort timers, the page | `apiRequest`, `apiClient.fetch`, `reportsRequest` | timeouts race answers, refresh and retry after a 401, a redirect ends other calls | work done at most once; an outcome tells the truth; the session ends for a cause; every call ends |
| CSP middleware, pages, components | none | rendering | user interface | |

### operations (Makefile, scripts, workflows, compose files)

| part | state | operations | what is hard | what makes it correct |
|------|-------|------------|--------------|-----------------------|
| deployment, `deploy.yml`, `deploy-prod.sh` | checkout, images, schema, containers | checks, migrations, build, up, health wait | partial failure, waiting runs, reused tags, two deployers | code never runs ahead of its schema; production never goes back; a good end means a consistent stack |
| secrets, `make secrets-init`, `secrets-check`, `secrets-rotate-generated` | files, backups | create, check, rotate | interruption between two files or inside one, a failing `openssl`; readers of old values | no value in use is lost |
| compose dependencies, health, restart policy | container states | start, health check, restart | start order, a dependency that never gets healthy, a failure between two containers | waits end; a half-done release is never announced; services come back |
| backups, `backup-db`, `rollback-db` | dump files | dump, encrypt, restore | the recipes fail in the shell before they do anything | |

The parts interact as follows. A browser's request to reports-api carries the
`access_token` cookie; `require_auth` looks it up in the session cache and, on a
miss, asks `GET /api/auth/me` of the backend. Both services read their secrets
from files that the operator's `make` targets create and rotate, and their
settings from `.env` and `.env.production`, merged by docker compose when the
containers are created. Containers are created by `deploy-prod.sh`, started by
the workflow or by `make prod`, which passes checks first, migrates the
database, builds and replaces the containers, and waits for health checks.

## 2. Modules

| module | models | properties of | proofs |
|--------|--------|---------------|--------|
| `Breaker` | pybreaker's `CircuitBreaker` as `auth.py:44` uses it (operators) | | |
| `CallPolicy` | abstract: what the backend may expect of one worker's calls | | |
| `SessionPromise` | abstract: session validation as its clients see it, one decision per request | | |
| `SessionAuth` | session validation, cache, invalidation, workers (extends `Breaker`, instantiates `CallPolicy` and `SessionPromise`) | staleness, calls, policy, promise, progress | `SessionAuthProofs`, `SessionPromiseProofs` |
| `MCSessionAuth`, `MCInvalidate` | instances; the second with a history of invalidations | invalidation | |
| `Production` | abstract: production as its users see it, services replaced one by one, and announcements | | |
| `Deploy` | workflow, operator, `deploy-prod.sh`, compose up (instantiates `Production` twice) | schema, consistency, order, production, progress | `DeployProofs`, `ProductionProofs` |
| `MCDeploy` | instances | | |
| `VersionedSecrets` | abstract: secrets as growing sets of versions | | |
| `StartUp` | settings, secret files, rotation, compose up, service start (instantiates `VersionedSecrets`) | secrets, versions, start-up checks, restart | `StartUpProofs`, `SecretsProofs` |
| `MCStartUp` | instances | | |
| `BackendRequests` | what the backend may answer a request: routes, guards, pipe, handlers, filter (operators) | | |
| `ReportRequests` | what reports-api may answer (operators; extends `BackendRequests`) | | |
| `RemoteCall` | abstract: what a caller may conclude from the outcome of a call | | |
| `ApiClient` | the clients' calls over a lossy network (extends `ReportRequests`, instantiates `RemoteCall`) | truth of outcomes, causes, progress | `ApiClientProofs` |
| `MCApiClient` | an instance: two calls of one page | | |

### SessionAuth

A thread's `request` goes through `lookup` (before `cache.get`), `call` (before
the decorated `_call_auth_backend`), `wait` (request sent), `answered` (the
backend has decided), `handle` (before the `if response.status_code == 200` of
`_validate_session`) and `replied`. Between any two, other threads, other
workers, the backend, Redis or the clock may act; these are the places where
the Python code can be preempted or blocks.

- `breaker` and `lock` are per worker: `_AUTH_BREAKER` is a module global of a
  forked process. pybreaker holds its lock for the whole decorated call, so a
  second thread queues at `EnterBreaker`. pybreaker is external; it appears in
  the code only as the decorator and the `CircuitBreakerError` handler, and is
  modelled as a consecutive-failure breaker with those two parameters
  (`FailMax`, `ResetTimeout`).
- Any response is a success for the breaker, whatever its status; any exception
  of the decorated function is a failure (`EndInException`). There are two
  sources. `CallFails` is `TimeoutException` or `RequestError` from a backend
  that is away or slow. `CallRaises` is a request of the client's that httpx
  cannot send on: `X-Request-Id` (`main.py:126`, `auth.py:107-111`) and the
  cookie become headers of the call, and a character that is not ASCII raises
  `UnicodeEncodeError`, which nothing catches (500), a control character
  `LocalProtocolError`, a `RequestError` (503). `sendable` says of each request
  whether it is one of these; it costs everybody a counted failure with every
  service working. A failure that trips the breaker is raised as
  `CircuitBreakerError`.
- `ttl` counts down the entries of each store. `CacheType` gives one store
  (Redis) or one per worker (`SimpleCache`), as `main.py:113-119` does.
- `WorkerRestart` is `max_requests` recycling or a killed worker: its requests,
  breaker and own cache are gone, Redis's entries are not.
- `InvalidateSessionCache` is the endpoint with a full 32-character hash. The
  endpoint also accepts 10 to 31 characters, which name no entry, and does
  nothing then. Nothing in the repository calls the endpoint.
- The backend is its answer to `GET /api/auth/me`: `valid` says whether it
  would accept the token, `Revoke` ends that, and a 429 or 5xx ("error") may
  answer any token. In this version the real guard accepts no token and the
  development guard accepts all (`jwt-auth.guard.ts:84-97`); `Init` covers both
  and anything between.
- An accepted user is cached only if Redis answers; `cache.set` raising inside
  the `try` turns the answer into 401, and `cache.get` raising gives 500.

`MaxLag` is the one timing assumption: an accepting answer is acted upon within
`MaxLag` ticks of the backend's decision (`_AUTH_TIMEOUT` is 1 s, and what
follows is local). `Tick` does not let an answer grow older.

`SessionPromise` has no threads' labels, caches, locks or breaker modes. A
client's request is `due`, or `odd` when it cannot be sent on, until it is
`admitted`, `refused` or has `failed` (`Outcome`), or `unsure` when the backend
has answered without a verdict.
`trusted` is the set of tokens that are valid or that an entry or an accepting
answer still vouches for (`Trusted`): it only shrinks. `paused` is the
breaker's cooldown (`Pauses`): the one thing of the breaker that a client can
come to feel.

### Deploy

A deployer's `run` follows the commands that read or change shared state:
`FetchAndCheckout` (workflow only), `Checks` (sections 1 to 4), `ResolveImage`
and `RunMigrations` (section 5b: `docker compose run` takes the tag's image,
building it only if there is none), `BuildImages`, `CreateContainer`,
`StartService`, `DependencyFails` and `UpFails` (section 6: `up -d --build`
with `depends_on: service_healthy`), `Verify` (section 7) and, for the
workflow, `Smoke`. `up -d` goes through the services twice, one at a time and
dependencies first (`Turn`, `waiting`): it replaces the containers whose image
has changed, then starts each service when what it needs is healthy. It may
fail between any two of these steps (`UpFails`), also after it has stopped a
container and before it has replaced it, or because a dependency is unhealthy
(`DependencyFails`): the stack is left as it stands, with services of two
commits and containers that are created and not started (`health` is "none"),
until the next deployment. Commits are numbers in main's order; `images`, `schema` and
`container` hold the commit they come from. GitHub's side is `Push`,
`CiSucceeds`, `CiFails`, `Review` and `NextInGroup`, with one run in progress
and one waiting per concurrency group.

Choices where the code leaves open or goes wrong before it gets there:

- `SessionTag` is the TAG in the SSH session's environment. The workflow never
  sets it there, so that `deploy-prod.sh:51` would stop every workflow
  deployment; `deploy_ci` supposes that the server's administrator has put a
  fixed tag there, without which nothing after that line would ever run.
  `deploy_untested` keeps the session as it is.
- Some files as they stand would stop a deployment earlier: the unescaped
  `$(cat ...)` in `docker-compose.prod.yml:261`, the first line of
  `redis-entrypoint.sh` not being its `#!`, the check for a `.env.production`
  that git ignores in `deploy.yml:43-49`. `Checks`, `Review` and `StartService`
  may fail or not proceed, which covers them; the model does not make them
  certain, since then nothing after them could be examined.
- A migration succeeds or fails; one that fails leaves the schema (TypeORM
  rolls its transaction back) and aborts the script.
- reports-api's `/health/ready` always answers 503 (`engine.text` does not
  exist, `routes/health.py`), hence `Verdicts`.
- The script's `grep -c "healthy"` counts lines that contain the word,
  `unhealthy` included, and Redis's line with the others (`GrepHealthy`).

`Production` has main's head, the migrated commit, the commit each service
runs, which services have been started (`Started`), and what each deployer has
announced (`Announced`: its `run` is at `done`). The run that follows withdraws
the last announcement, `RunMigrations` migrates, `CreateContainer` replaces a
service, `UpFails` may stop one, `StartService` starts one, and the last look
of `Verify` or `Smoke` announces; everything else stutters. A failed
deployment may leave services of different commits; what `Production` promises
is that a service is replaced and started only after the services it depends
on have the same commit and are up, and that what is announced is what all of
them run. `ForwardOnly` holds for the workflow, `SchemaFirst` for an operator
with a tag per commit; neither holds for the other (`deploy_schema` is why).

### StartUp

`Composed` is compose's merge: `environment:` entries interpolate `.env` and
win over `env_file: .env.production`. The environment is fixed when a container
is created (`ComposeUp`); the files are read each time a process starts. The
backend's start is three actions, `BackendImports` (guard module and
`JwtModule`), `BackendCreates` (`NestFactory.create`: configuration, database,
`AuthService`) and `BackendListens` (the rest of `bootstrap`), because each
reads `JWT_SECRET` anew; what each demands has a name of its own
(`AppConfigValid`, `LoggerLoads`, `DatabaseConfigured`, `CanListen`).
reports-api's start is one action, since it keeps nothing that a rotation
replaces. `BackendFails` and `Crash` go back to `starting`
(`restart: unless-stopped`). `ComposeUp` creates containers, which are `new`;
`UpStarts` starts them, reports-api's once backend and Redis run; a deployment
that fails in between (`DeploymentFails`) leaves the rest `new`, and no restart
policy starts a container that was never started.

`command > file` is two actions, because the shell empties the file before the
command runs: `SecretsInit` (only when the file does not exist) and
`SecretsInitWrites`, `RotateTruncate` and `RotateWrite`; `filling` is the file in
between. A rotation starts with `RotateBackup`; a copy of an empty file is left
out of `backup`, since it keeps nothing. `Interrupted` ends either anywhere.
When `openssl` fails (`OpensslFails`) the file stays empty; `secrets-init` then
fails, and a rotation goes on with the next secret, since `-e` does not look at
the first command of an `&&` list.

`EditSecret` is the operator's editor: on the secrets of `Manual`, which
`secrets-init` makes from a template, and on those of `Overtyped`, generated
ones that the operator also types (the check at `main.ts:55` is there for
them). What is typed has a kind in `Typed`; two typed values of a kind are not
told apart. The operator does not type into a generated secret while a rotation
of the operator's own is running.

`VersionedSecrets` has a set of version numbers for each generated secret
(`Versions`: the generated contents in its file or in a backup) and the version
in each copy in memory (`InUse`). Minting adds a version newer than all others,
typing over a secret may take its newest away, reading takes the newest or a
typed value, a process that ends drops its copies, and a rotation's other steps
stutter: emptying a file loses nothing that is not in a backup.

In production with `NODE_ENV` other than `production` the backend fails
(`pino-pretty` is a development dependency that `Dockerfile.prod` does not
install), and `AUTH_MODE` unset in `.env` becomes `development`.

### BackendRequests and ReportRequests

Neither service's request handling keeps state between requests, other than
what `SessionAuth` models and counters; a request is therefore an operator from
a route and its sender to the set of answers it may get: a status, whether the
handler did its work (`ran`), and whether the answer is about the services
rather than about the request (`trouble`: a 429, a 5xx nobody planned, or a 401
that reports-api makes of one of them).

- `Refusal` is the chain of `app.module.ts:65-70` in its order. `UserOf` is what
  the JWT guard has written to `req.user` by the time `RolesAllow` reads it;
  with `AUTH_MODE` other than `development` `JwtAllows` admits public routes
  only (`jwt-auth.guard.ts:94-95`), and a guard that returns false is a 403.
- `Throttled` comes before all of them, so that `req.user` is not there yet and
  the tracker is the address. The counters are `@nestjs/throttler`'s: a
  throttled route may refuse any request.
- In this version the guard of `AUTH_MODE=real` accepts nobody, so that every
  401 and 403 has its cause there: what `ExpiredIsToldForACause`,
  `ForbiddenIsToldForACause` and `LeavesForACause` say of a cause constrains the
  development mode. (They are stated for both: a guard written as the comments
  of `jwt-auth.guard.ts` outline would be held to them, too.)
- `AuthStatuses` are the statuses of the handlers as they are. `RefreshStatuses`
  is a constant: `refresh` answers 501 today, and declares 200 and 401 for the
  time when it is written (`auth.controller.ts:158-159`); the clients are
  written for that.
- `ReportAnswers` composes `require_auth` with the backend's answers: `AfterMe`
  is what becomes of each. The threads, the cache and the breaker behind it are
  `SessionAuth`'s subject.

### ApiClient

Each of `Calls` is one promise. Its `at` is where it is suspended: `fetch` (the
first request), `body` (`response.json()` or `blob()`), `refresh`, `retry`,
then `settled` with a `result` (`data`, `nothing` for null, `response`, `http`
for an `ApiError` with a status, `network`, `broken` for an exception of
`json()`, `abandoned` with its page). `wire` is the request the call has under
way; it outlives a call that has timed out, and `Serve` may still handle it.
`work` counts how often the handler ran for the call.

- `TimerFires` is `controller.abort()` (`backend/lib/api.ts:62`). While the body
  is being read the abort rejects `response.json()`, whose `catch` takes it for
  an answer without a body (`Abort`): the call then succeeds with null. `via`
  `libSignal` is a call whose options have a signal: `...fetchOptions` (72)
  follows `signal` (71) and replaces it.
- `ClientAnswered`, `RefreshAnswered`, `RetryAnswered` and `FetchFails` are
  `apiClient.fetch`. `ToLogin` starts a navigation, which ends every call of
  the page when it happens (`Navigate`); until then they go on.
- `setting` is fixed: `AUTH_MODE`, whether the browser holds the cookie, and
  which calls run in a browser (`typeof window`). That a cookie expires between
  two requests of one call is left out: no handler sets or clears one in a
  refresh.

## 3. Runs

Every property of a passing run comes with a definition, marked "Mutant" in the
modules, that changes one action the way a plausible bug would; with it in
place of the action the run finds the property violated. PROJECT.json pairs
them.

"pass" runs find no error; "violation" runs check what a comment or message of
the repository says, and find a behaviour of the code that contradicts it.

| run | instance | checks | shows |
|-----|----------|--------|-------|
| `session_redis` | two workers with a thread each, one token, Redis; TTL 3, lag 1, two failures, cooldown 2 | `TypeOK`, `EntriesExpire`, `StaleAdmissionBounded`, `ForgottenForGood`, `RefusedForACause`, `ClientsSeePromise` | a revoked token is never admitted `SessionTTL + MaxLag` ticks after its revocation or later; once nothing vouches for it, never; a token is called invalid only if it is, or the backend gave no verdict, or the cache could not be written; 500 and 503 come only while a service is away, to a request that cannot be sent on, or within the cooldown of a call that failed for one of these reasons (a refusal by the open breaker does not prolong it); and all of it together is one decision per request, as in `SessionPromise` |
| `session_threads` | two threads of one worker, one token, `SimpleCache`; TTL 2, lag 1, two failures, cooldown 3 | `OneCallPerWorker`, `CallPolicyHolds`, `WorkerAnswers`, `BreakerRecovers`, `IndInv` | one call at a time, one trial while half open, every call ends, the breaker closes for good once calls stop failing |
| `session_invalidate` | as `session_redis` | `InvalidationIsImmediate` | violated |
| `deploy_operator` | three commits, a tag each, one operator | `TypeOK`, `SchemaReady`, `OperatorImplementsProduction` | the schema is never behind the code; services are replaced and started one by one, in the order of their dependencies, with failures between any two, and an announced commit is what all of them run until the next deployment |
| `deploy_ci` | three commits, one tag, the workflow, two polls | `DeployedIsConsistent`, `UpCanProceed`, `NeverBackwards`, `WorkflowImplementsProduction`, `DeploymentEnds` | with a reused tag, a good end leaves every service on its commit, no run goes back, `up -d` waits only for what has been started though earlier ones failed half way, every deployment ends; each service only ever moves forward, and what is announced is what all run |
| `deploy_untested` | two commits, the workflow | `DeployedPassedCi` | violated |
| `deploy_schema` | two commits, one tag, one operator | `SchemaReady` | violated |
| `deploy_reported` | two commits, a tag each, one operator | `ReportedHealthyIsHealthy` | violated |
| `startup` | three `.env`, two generated secrets, one of which is also typed over, and one typed; interruptions, failing `openssl`; three generated values | `TypeOK`, `LiveValuesRecoverable`, `RunningBackendIsReal`, `SecretsAreVersioned`, `ServicesComeBack`, `IndInv` | no secret in use, and no value ever generated, is lost other than by typing over it, or used twice; who starts takes the newest; a backend that listens is real, though weak secrets come and go; services that were started come back |
| `api_calls` | two calls of a page or its server, one with a network that may fall silent; any outcome of any request | `TypeOK`, `ExpiredIsToldForACause`, `ForbiddenIsToldForACause`, `CallsAreRemoteCalls`, `LeavesForACause`, `LibCallsSettle`, `BrowserCallsSettle`, `IndInv` | work is done at most once and an outcome tells the truth about it; session and page end for a cause; every call ends |
| `startup_jwt` | `.env` for production, no interruption, six generated values | `OneJwtSecret` | violated |
| `startup_empty` | `.env` for production, interruptions and failing `openssl`, four generated values | `CheckedSecretsHaveValues` | violated, already by `secrets-init` |

### Bounds, and why they are enough

- Two threads: every race in `SessionAuth` is between a request and one other
  actor (a second request, an invalidation, a restart). With two workers they
  share Redis only, with one worker the breaker only, and the two runs take one
  each. One token: tokens interact only through the breaker, which does not
  look at them.
- `FailMax` 2 is the least that distinguishes a counted failure from a tripping
  one; TTL 3 and lag 1 let an entry be refilled from an aged answer and still
  expire; `since` stops at `SessionTTL + MaxLag` (`SinceCap`), beyond which all
  ages are alike.
- Three commits: one deployed, one waiting, one newer, all of which may meet in
  one half-replaced stack. Two polls: a look that
  is not the last and one that is. Retrying later is a new run.
- `MaxGen` 3: a rotation starts while it leaves room for two values, so that one
  secret may be initialised and a rotation follow, and any number of rotations
  that are interrupted or whose `openssl` fails come before, between and after.
  Six in `startup_jwt` allow a rotation after a rotation of two initialised
  secrets. What the third value would be followed by, the proofs cover.
- `Typed` is {"short"}, the weak kind, which is accepted by every check but
  bootstrap's; an empty or a placeholder one is what `openssl` leaves and
  what is refused at the first reading. The proofs have all kinds.
- Two calls: calls meet only in the page's redirect, which needs one that
  fails its refresh and one that is cut off. `MCUses` gives one of them every
  client of the browser, with destinations that can refuse, fail and answer 204,
  the other `apiClient` as well, so that both can refresh, or backend/lib's.
  `RefreshStatuses` is {200, 501}: with 501 alone no retry would ever happen.
- The proofs of section 5 need none of these bounds.

`CHECK_DEADLOCK FALSE` appears in the deployment runs only: when main has
received its last commit and nothing is left to deploy, the system stops.

### Fairness

- `SessionAuth`: weak fairness of each thread's own steps and of `Tick`. A
  thread that can go on is scheduled, and httpx gives up on a call by itself.
  The breaker's lock is not assumed fair, so `WorkerAnswers` promises an answer
  to one of the threads that queue, not to a given one. Nothing is assumed of
  the backend, of Redis or of clients.
- `Deploy`: weak fairness of each script's steps (a started command ends) and of
  the verdict of a container that is `starting`. None of pushes, reviews,
  failures of `up -d` (`UpFails`), or of the operator.
- `StartUp`: weak fairness of the services' start steps
  (`restart: unless-stopped`). None of edits, of make's steps, of deployments or
  of crashes. `ServicesComeBack` says nothing while deployments go on or settings
  and secrets stay wrong; that is its premise. It is about services that have
  been started; one that is left `new` waits for a deployment.
- `ApiClient`: weak fairness of `TimerFires` (a `setTimeout` fires), for every
  call, and of the exchange (serving, answering, reading) for the calls in
  `Answering` only. `LibCallsSettle` rests on the timer alone: c2's network may
  stay silent. The frontend's clients have no timeout, so that
  `BrowserCallsSettle` is about `Answering`; without it their calls need not
  end.

## 4. What the code contradicts

Each of these has a violation run:

- `session_invalidate`. `auth.py:123` names the endpoint as immediate
  invalidation. A request whose accepting answer is under way while the token
  is revoked and its entry deleted writes the entry back with a full TTL.
- `deploy_untested`. `deploy.yml:32` requires that CI has succeeded; the
  workflow deploys `github.sha`, which under `workflow_run` is the head of the
  default branch, not the commit that CI ran on.
- `deploy_schema`. `deploy-prod.sh:194-195` runs migrations first so that no
  code meets an old schema; they run from the image the tag already has, and
  `up --build` replaces it afterwards.
- `deploy_reported`. `deploy-prod.sh:228` reports healthy services when
  `grep -c "healthy"` counted unhealthy ones.
- `startup_jwt`. `secrets.ts:5-6` promises one consistent reading of a secret;
  `JWT_SECRET` is read three times during a start.
- `startup_empty`. `secrets-check` (`Makefile:746`) says all secrets are
  configured when `secrets-init` or a rotation, interrupted or with an `openssl`
  that failed, has left one empty.

Met while modelling and part of the models, without a run of their own because
each follows from one line:

- `_validate_session`'s docstring (`auth.py:79`) says None is for invalid
  sessions; it is also the result for a valid one when the backend answers 429
  or 5xx, or when `cache.set` raises (126-136).
- `auth.py:160` takes an open circuit to mean that the backend does not answer;
  requests that httpx cannot send on open it with every service working
  (`CallRaises`).
- `auth.py:122` says that the cache forgets a session after 60 s at most; the
  entry may be made from an answer that is older than the revocation, so that
  the bound is the TTL plus the answer's age (`StaleAdmissionBounded`).
- `auth.controller.ts:191` and `test/auth.integration.spec.ts:5` say that `me`
  without a cookie is a 401; the guard that returns false makes it a 403 in the
  real mode (`jwt-auth.guard.ts:94-95`).
- `main.ts:20-22` says that the settings are checked before any module is
  initialised, a weak `JWT_SECRET` being a breach; the checks come after
  `NestFactory.create` (17), and judge a reading of their own (24). A weak secret
  that `auth.module.ts:30` or `auth.service.ts:21` has read is kept when a strong
  one has taken its place by then (`StrongSecretIfItStands` has what prevents it).
- `main.ts:137` passes `origins`, which is no option of `enableCors`; the option is
  `origin`.
- `ci.yml:606` needs a job `build` that the workflow does not have, so that
  GitHub rejects the file and no CI run succeeds. The models take CI as repaired:
  `CiSucceeds` is what `deploy.yml` is written for.
- `deploy.yml:104` announces a deployment with `TAG=${EXPECTED_SHA}`; line 105
  writes it to `.env.production`, and `deploy-prod.sh:51` reads the environment.
- `.env.prod.example:110-115` says its `AUTH_MODE` controls the guard;
  `docker-compose.yml:43` sets it from `.env`, which wins. (A backend that
  listens is real all the same: that is `RunningBackendIsReal`.)
- `.env.prod.example:133` says not to define `REDIS_PASSWORD`; `main.py:48`
  requires it, and the production compose file sets no `REDIS_PASSWORD_FILE`.
- `utils.py:60` calls `read_secret` equivalent to `readSecret()`; it returns a
  file's content without the checks it applies to a variable (79-82).
- `csp-report.controller.ts:24-26` limits reports to five a minute through a
  throttler named `default`; `app.module.ts:38-41` names its two `short` and
  `medium`, so the limit is not applied. For the same reason `@SkipThrottle()`
  skips nothing, and "sin rate limit" (`auth.controller.ts:218`) does not hold
  (`Skipped`).
- `app.module.ts:66-67` registers the throttler before the guard annotated
  "primero autenticar": `getTracker` never finds a user and counts by address
  (`user-throttler.guard.ts:8-9`). All of reports-api's validations share one
  address; beyond its limit valid users get 401 from reports-api, and
  `apiClient` sends them to `/login`.
- `metrics-auth.guard.ts:10` compares the path with `/metrics`; the endpoint is
  under the prefix, `/api/metrics`, where the guard does not apply and the JWT
  guard does.
- `roles.guard.ts:7-14` is typed as a record over all roles and lacks
  `MODERATOR`, which the compiler's type check rejects; the model takes the
  program as it runs, with no role below it (`?? []`, line 17).
- `frontend/src/lib/api.ts:106` and 161 take every failed refresh for an expired
  refresh cookie; 429 and 501 are failures too.
- `backend/lib/api.ts:96-101` reports a timeout; one within the body is a
  success with null (75-81, 88).
- `main.py:68-76` announces Redis to be away whenever a limit is reached, and
  lets the request pass; the 429 that both clients have a message for never
  comes from reports-api.

## 5. Proofs

All theorems hold for any values of the constants that satisfy the `ASSUME` of
the module: any number of workers, threads, tokens, commits, tags, secrets.

**SessionAuthProofs.** `IndInv == TypeOK /\ BreakerInv /\ ClockInv /\ AnswerInv
/\ EntriesExpire`. `EntriesExpire` alone is not inductive: a refill is safe only
if the answer it comes from is young, which `AnswerInv` says (a token whose
accepting answer is under way is valid, or was revoked no longer ago than the
answer's age), and a new answer is young because the clock of a valid token
stands at zero (`ClockInv`). `OneCallPerWorker` needs `BreakerInv`: the lock is
held by exactly the thread that is in the call, and the breaker's mode agrees
with the lock. From `IndInv` follow `Invariance`, `TypeCorrect`, `OneCall`,
`EntriesExpireInTime`, the action properties `StaleAdmission` and
`ForgottenStays`, and the refinement `PolicyImplemented`: under the mapping
`calling <- lock[w] # NoThread`, each worker's initial state and every step is
one of `CallPolicy` or a stutter. `RefusalsHaveACause` needs one more fact,
`RejectInv`: a token whose rejecting answer is under way is not valid (a
revocation is not undone).

**SessionPromiseProofs.** `PromiseKept`: `SessionAuth` implements
`SessionPromise`, from `IndInv` and `RejectInv`, without further assumptions.
`OutcomeFacts` and `OneMoves` say what a client sees when its thread moves;
then there is a lemma per handler (a lookup is `Admit`, `Refuse`, `Fail` or
nothing, a call that fails is `Fail` and may set the pause, and so on), one for
restarts and one for the clock. `TrustOnlyShrinks` is the conjunct that every
step shares; it rests on `AnswerOrigin` and `EntryOrigin`, which trace an answer
or an entry back one step.

**DeployProofs.** `TypeInv` (with: a run past its checks has a tag) gives
`TypeCorrect`. `SchemaIsReady` assumes one operator and a tag per commit, and
shows that the image the migrations ran from is the one started; `deploy_schema`
shows that the assumption is needed. `DeploymentIsConsistent` assumes one
deployer, and follows its `run` through the script (`DeployerState`: what the
checkout, the images and the containers hold at each label).
`WorkflowNeverGoesBack` assumes that only the workflow deploys, and shows that
the commits of every container, in progress and waiting are in order
(`Forward`), also where a failed run has left them mixed.
`UpNeverWaitsInVain` assumes one deployer and follows from `DeployerState`: while
`up -d` starts services, whatever is not started is among those it has yet to
deal with (`waiting`), however the stack looked when it began. It is the safety
behind `DeploymentEnds`: what `up -d` waits for has a verdict to come. With two
deployers it does not hold: the one may replace a container that the other
waits for, whose `up -d` then fails (`DependencyFails`).

**ProductionProofs.** `WorkflowProduction` assumes that only the workflow
deploys, `OperatorProduction` one operator and a tag per commit. Each step of
`Deploy` is a step of `Production` or a stutter: `MovesOf` shows what any step
can do to the five abstract variables (`ProductionMove`: a service is replaced
when those it depends on have the commit already, stopped, or started when they
are up; a commit is announced when all run it), from `DeployerState` (which
services a deployment has dealt with, and that these have its commit) and
`FromMain` (what is built, migrated and released are commits of main);
`WorkflowMoves` and `OperatorMoves` show that such a move is allowed, by
`Forward` for the one, by `SchemaInv` for the other.

**StartUpProofs.** `IndInv == TypeOK /\ RotationInv /\ BackendInv`. A rotation
may empty a file only because its value has been copied, and between the
copying and the emptying nobody else writes one (`RotationInv`; `secrets-init`
and a rotation are taken to be run by one operator, one after the other).
`BackendInv` records what a starting backend has passed. Each action's lemma
shows that it keeps `IndInv` and loses nothing (`NoneLost`), or that it is the
operator's typing over the secret that is lost; `StepKeeps` collects them, and
gives `LiveValuesAreRecoverable`. `BackendRunsReal` follows from `BackendInv`.

**SecretsProofs.** `SecretsKeepTheirVersions`: `StartUp` implements
`VersionedSecrets`. Besides `IndInv` it needs `VersionInv`: values are numbered
as they are generated, up to `minted`, and a file that holds one holds the newest
of its secret; so a reader takes the newest, a new one is newer than every
version of every secret, and emptying a file loses nothing because of
`RotationInv`. Then come the other sides of what is violated.
`CheckedSecretsAreNotEmpty`, of `startup_empty`: with no interruption, no failing
`openssl`, and nobody typing an empty secret, a file is empty only while it is
about to be filled (`EmptyInv`), and `CheckedSecretsHaveValues` holds.
`OneSecretIfItStands`, of `startup_jwt`: the backend has one JWT secret if the
file stays as it is between `BackendImports` and `BackendCreates`, and writing
it at any other time of the start does no harm. `StrongSecretIfItStands`: its
secrets are strong if the file stays as it is until `BackendListens`; without
that, TLC finds a weak one kept in the instance of `startup`, which is why
`RunningBackendIsReal` says that the copies are acceptable, and not that they are
strong.

**ApiClientProofs.** `IndInv == TypeOK /\ \A c \in Calls : CallOk(c)`, where
`CallOk` says for one call what is on the wire at each point (`WireOk`), when
its timer runs (`TimerOk`), what a status on the wire, in a body being read or
in the outcome says of the work (`WorkOk`), and that a 401 or a 403 has its
cause from the moment it is sent (`CauseOk`). None of the properties is
inductive without it: a verdict is right because the answer it came from was,
and an `unknown` one may not rule out a request that is still under way. The
lemmas at the start prove what the services' answers satisfy (`Candid`, and the
grounds of 401 and 403), through guards, filter and `require_auth`; then each
action is shown to keep `CallOk` for its own call and to leave the others alone.
`Invariance`, `TypeCorrect`, `ExpiredHasACause` and `ForbiddenHasACause` follow,
the action property `LeavesOnlyForACause`, and the refinement
`RemoteCallsImplemented`: `Serve` is `Work` or a stutter, whatever settles a
call is `Close`, `Navigate` is `Abandon`. They hold for any calls, any uses of
the clients and any `RefreshStatuses` among 200, 401 and 501.

Only model-checked: liveness (`WorkerAnswers`, `BreakerRecovers`,
`DeploymentEnds`, `ServicesComeBack`, `LibCallsSettle`, `BrowserCallsSettle`),
which TLAPS does not cover.

## 6. Not modelled

- What two deployers at once may expect of each other. `Deploy` has both and can
  be run with both; nothing in the repository says it, so the properties about
  commits are checked, and proved, for one. `TypeCorrect` holds for any number.
- Containers that die during a deployment; in `StartUp` they do.
- PostgreSQL's own availability; the `postgres` name check of `db_user`,
  `SWAGGER_ENABLED`, `ALLOWED_ORIGINS`, `metrics_password`'s reader and the
  frontend's settings, which are further checks of the same kind. A shell that
  exports these variables before `docker compose`.
- Redis's protocol and memory accounting, SQLAlchemy's pool, gunicorn's
  arbiter, Docker's and GitHub's own code: modelled as far as this
  repository's files make use of them.
- The throttler's and the limiter's counters, which are the libraries': in the
  model a throttled route may refuse at any time, and reports-api's limiter
  refuses nobody. Cookies that a written login or refresh would set and logout
  clears. The page that calls the clients, `middleware.ts` (CSP headers) and
  `error.tsx`: no page in this version calls an API.
- Pure code (rules of request validation, reports-api's address predicate,
  password hashing, which no module imports), formatting, logging, metrics, rendering.
- `backup-db` and `rollback-db`: their recipes pass a line that begins with `@`
  to the shell in mid-command and fail before they touch anything.

## 7. Plan

Done: session validation, deployment, start-up, and the clients with both
services' request handling; an abstract specification for each of them, and the
proof that it is implemented. What would come next, in this order:

1. `StartUp` composed with `Deploy`: which environment a half-replaced stack
   runs with, and the `REDIS_URL` (`main.py:48-93`) of limiter and cache.
2. `SessionAuth` composed with `ApiClient`, with `SessionPromise` in place of
   reports-api: the cookie's life from login to logout, once the backend's
   login, refresh and logout are written.
3. What is left of `Production` with two deployers, who replace each other's
   containers half way.
4. Theorems for these.
