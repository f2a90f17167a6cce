# Verification of the gin skeleton

TLA+ models of the parts of this service that concurrent requests, failures,
restarts and the clock can break, the TLC runs that check them on small
instances, and TLAPS proofs of every safety invariant, action property and
refinement of the runs that pass, for any number of accounts, requests, rows and
processes. Every definition follows the Go source (and the SQL schema it is
written against); `PROJECT.json` names the lines behind each of them.

## The system

A Gin server (`internal/router`) with a chain of middlewares in front of a few
routes, one MySQL database, optionally Redis. net/http serves every request in
a goroutine of its own; there is no queue and no background job. Start-up and
shutdown run beside each other: `OnStart` leaves the connection check, the
migration and `ListenAndServe` to a goroutine that a signal does not wait for.
Everything the requests share is in the database, in Redis, in the pool of
database connections, or in the in-memory store of the rate limiter; several
instances of the process share the database and its migration lock.

    gin.Default (logger, recovery) -> RequestID -> CORS -> ErrorHandler
      -> Idempotency -> Sentry -> route:
           POST /login, /login/refresh   RateLimit(10/min) -> handler
           POST /logout                  handler
           /users ...                    RateLimit(200/min) -> JWT
                                           -> DBTransaction (POST only) -> handler
           GET /profile                  JWT -> handler

| Component | State | Operations | Hard because | Correct when |
|---|---|---|---|---|
| Tokens (`api/auth`, `internal/auth`) | table `refresh_tokens`; tokens in clients' hands | login, refresh (find, revoke, sign, store), reuse detection, logout | each handler is several autocommitted statements that interleave; a token is a function of user and second | a dead token issues nothing and no token is issued twice; rotation, logout and reuse detection end what they say they end, and no session ends without a cause; a 200 is backed by a row |
| Idempotency (`internal/middlewares/idempotency.go`, `internal/idempotency`) | MySQL or Redis records with an expiry | lookup, run handler and capture, record | lookup and record are far apart with no reservation; errors are misses; the context dies with the client | a replay is the key's own first answer; an answer is recorded before it is sent; no 5xx is kept |
| Users and transactions (`api/admin/user`, `internal/middlewares/transaction.go`) | table `users`, open transactions, connection pool | Begin, look up email, look up phone, insert, Commit or Rollback | check-then-insert under snapshots; row-lock waits; the commit follows the written answer; recovered panics | unique accounts; the answer tells the outcome; connections return; nobody waits for ever |
| Rate limiter (`internal/middlewares/rate_limit.go`) | counters in memory | count, compare, reset | windows, restarts, keys | at most the limit per window and key, fewer than twice the limit in any period |
| Start-up and shutdown (`main.go`, `bootstrap`, `internal/config`, `cli`) | fx hooks, serving goroutine, database handle, version of the schema, migration lock | connect, migrate, seed, listen, answer probes, menu, shut down | the goroutine runs beside `OnStop`; instances race for the migration; kills | serves only a migrated schema; a request keeps its database; stops end |
| Reading users (`api/admin/user`, `pagination.go`) | none beyond the request | list a page and count | pages are separate snapshots ordered by a stamp of whole seconds taken before the commit | no row is missed; the count covers the page |
| Uploads (`api/utility`, `services/aws_services`, image helpers) | objects in buckets | store original, thumbnail, file; sign a URL | two calls under one name from the clock; a failed S3 upload ends the process | what was reported stored stays; no thumbnail alone |
| Calls of providers (Twilio, Stripe, Gmail, billing, Firebase, seeds) | what the provider did; what the caller was told | call, refuse, report | the connection breaks after the effect; refusals that come without an error | a success that is reported happened |
| Router, JWT middleware, error envelope | none beyond the request | dispatch, authenticate, format | order of the middlewares | |
| Config, logging, validation, swagger, faker | none that changes | parse, format | | |

The upload, billing and Firebase routes and the provider services are in the
repository but not wired into the present build (`api/module.go`,
`services/module.go`).

## Modules

| Module | What it is |
|---|---|
| `TokenStore` | abstract specification: what the token table promises, with atomic Open, Exchange and Revoke |
| `RefreshTokens` | the handlers of `jwt_controller.go` statement by statement over the table of `refresh_token_repository.go`; implements `TokenStore` |
| `RefreshTokensProofs`, `RefreshTokensSafety` | theorems about `RefreshTokens` |
| `Idempotency` | the middleware over the three stores |
| `IdempotencyProofs` | theorems about `Idempotency` |
| `UserCreation` | transaction middleware, controller, service and repository of `POST /users` |
| `Accounts` | abstract specification: accounts are added one at a time and never in conflict; `UserCreation` implements it |
| `UserCreationProofs` | theorems about `UserCreation` |
| `RateLimit` | the counters of the limiter of one route: count, admit, reject, restart |
| `Pipeline` | `POST /users` through Idempotency, limiter, JWT check and transaction; composes `Idempotency` and `RateLimit` |
| `PipelineProofs` | theorems about `Pipeline`; uses those of `IdempotencyProofs` |
| `Startup` | processes from construction to exit: migration over a shared database, serving, probes, `OnStop`, the command line |
| `StartupProofs` | theorems about `Startup` |
| `Directory` | a client that walks the pages of `GET /users` beside writers |
| `DirectoryProofs` | theorems about `Directory` |
| `Uploads` | the handlers of `api/utility` over external buckets |
| `Outbound` | calls to providers: effect there, result here |
| `Services` | composes `Uploads` and `Outbound` in one process, which a failed S3 upload ends |
| `ServicesProofs` | theorems about `Services`, and so about `Uploads` and `Outbound` |
| `MC...` | instances for TLC: symmetry sets, the view of `Pipeline`, and the negative page size of `Directory`. Modules that need neither are run as they are |

In `RefreshTokens`, `Idempotency` and `UserCreation` a request is a record `req[r]`
whose `pc` is the next statement or call of its handler; an action is one
statement with every outcome the caller distinguishes (found, not found, error)
and the local computation up to the next one. `Fault` counts failures of
statements, lost responses and crashes against the bound `MaxFaults`; a failed
write may or may not have been applied, since the caller cannot know. Operators
named `X_Y` are faulty forms of `X` that no specification uses; each breaks one
property of a run, which shows that the property depends on the code.

Correspondence of `RefreshTokens`:

| Action | Code |
|---|---|
| `Login`, `Refresh`, `Logout`, `NoToken` | the handlers up to their first statement on `refresh_tokens`: header, JWT signature and expiry, password |
| `RefreshFind`, `LogoutFind` | `FindActive` and the branches on its error |
| `RevokeAll` | the reuse branch, `RevokeAllForUser`, its error dropped |
| `RefreshRevoke`, `LogoutRevoke` | `Revoke` by id, which does not look at `revoked_at` |
| `Sign`, `Store` | `issueAccessAndRefresh`: clock and signature, then the insert under the unique `token_hash` |
| `Reply`, `LoseReply`, `Crash`, `Tick` | the response, a broken connection, a restart, the clock |

The token is the pair (user, second of issue) because the signed claims hold
nothing else. `expires_at` is a DATETIME, which rounds, and `exp` is truncated:
within those seconds `FindsActive` and `FindsNone` are both possible.

`parent`, `held`, `answers`, `sessions`, `seen` and `produced` are history
variables: they record what the properties compare and guard nothing, except
that clients present the tokens they hold.

In `Idempotency` a key is the pair (route, header value). The response of the
chain behind the middleware is one of three classes (2xx with its effects
committed, 4xx, 5xx) and the number of the request that produced it. In MySQL a
record past `expires` is invisible to `Get` but occupies the primary key for
`Set`; in Redis it is gone. `connected` is the request's context.

In `UserCreation` the look-ups read the snapshot InnoDB takes at the first of
them (REPEATABLE READ, the server's default; no code sets another), the insert
is checked against committed rows by both unique keys and waits for
uncommitted ones, and `End` is the middleware after `c.Next()`. A failed Begin
leaves a handle that carries the error, so every later statement fails. The committed
rows are the `users` of `Accounts`, two of which conflict when they share an
email or a phone number.

`Pipeline` takes the steps of `Idempotency` as they are and opens up the one that
module calls its handler: limiter, JWT check, the transaction around the
handler, its commit. Each way through the chain ends in a `Handler` step of
`Idempotency` with the class of the answer: that the chain refines that module
holds by the way it is written, is used in the proofs and is no claim about the
code. The limiter asks for the
user id that the JWT middleware sets, but runs before it; its key is therefore
the address. The library counts under the lock of the counter, so counting is
one step, and the request that finds the window over starts the next. Its
cleaner, which deletes counters whose window is over, changes nothing that a
request could tell, as `Absent` counts like such a counter. Counters belong to a
path, which `GET /users` shares with `POST /users`: the requests that list would
be counted here too, and only use the limit up. Clients
stay connected here: the context of the request reaches only the steps of
`Idempotency`, whose run lets them leave.

Correspondence of `Startup`, where `main` is the goroutine that runs fx and
`worker` the one that `OnStart` leaves behind:

| Action | Code |
|---|---|
| `Start`, `NewDatabase`, `NewMigrations`, `OnStart` | `main`, `NewEnv` and the constructors in their order; a failed connection is kept in `connectionError`, a failed migrator panics |
| `CheckConnection`, `Lock`, `Up`, `Apply`, `Seed`, `Listen` | the goroutine of `bootstrap`: `MigrateUp` file by file, as golang-migrate marks a version dirty, applies the file and removes the mark under an advisory lock, which may time out while another instance holds it; any of its reads and writes of the version may fail, and so may the one `MigrateUp` makes itself. A failing unlock is left out |
| `Menu` | `cli/app.go`, in place of the goroutine |
| `Accept`, `Livez`, `Readyz` | requests; the probes stand for all routes, which need the handle as `readyz` does |
| `OnStop`, `Drained`, `TimeOut`, `Close`, `Return` | `server.Shutdown` with its 15 seconds, then `appStop`, then exit |
| `Kill`, `Exit` | the process ends anywhere; MySQL frees the lock of its session |

`Files` is the number of migrations golang-migrate finds in the folder. The run
takes two. The present folder has one file, whose name golang-migrate does not
recognise, so that `Files` is 0 and no server migrates successfully: a finding
below. With 0 the safety properties say nothing of a deployment that migrates,
for none serves, and `StartServes` says so: it asks for `Files > 0` where the
environment migrates.

In `Directory` a row is stamped with whole seconds by the application before its
transaction commits, so it may become visible below rows that were already
listed. `Find` and `Count` are two statements with two snapshots. `Slice` and
`Rejected` carry out gorm's treatment of limits and offsets that are not
positive; `Search` is the request with a keyword, whose statement names a column
that does not exist.

`Uploads` and `Outbound` keep apart what a provider has done and what the caller
was told: a failed call may or may not have had its effect. The operations of
`Outbound` are the methods that call a provider, grouped by what they make of an
error: two of Stripe's pass it on (`ReturnsError`), six answer with an error of
their own of type 500 (`AnswersInternal`), the three billing handlers answer 500
(`Answers500`), `HandleAuth` 401, Twilio and Gmail each in their way
(`OfRefusal`). `SetClaims` is what the two setters of the Firebase middleware read
of the claims, and the panic when they have another type. An object's name is
the nanosecond at which its request arrived, so two requests of one nanosecond
share it. `Exit` of `Services` is `logger.Fatalf` of the S3 service, after which
every upload and call under way is `lost`. Providers are external.

## Runs

| Run | Bounds | Shows |
|---|---|---|
| `tokens_rotation` | 1 account, 2 requests, 3 seconds, lifetime 2, 1 failure | what a 200 and a 401 mean; no token is issued twice; refinement of `TokenStore` |
| `tokens_accounts` | 2 accounts, 2 requests, 2 seconds, 1 failure | no session ends without a cause |
| `tokens_single_use` | 1 account, no failure | counterexample: one token exchanged twice |
| `tokens_reuse` | 1 account, no failure | counterexample: a session survives reuse detection |
| `idempotency` | 2 keys, 2 goroutines, 3 requests, 2 ticks, 1 failure, all backends | records and replays |
| `idem_backends` | 1 key, 1 goroutine, 3 requests, no failure | counterexample: MySQL does not record an expired key again |
| `users` | 3 requests, 2 emails, 2 phones, 2 connections, 1 failure, fair, deadlock checked | uniqueness, truthful answers, no leaked connection, progress; refinement of `Accounts` |
| `pipeline` | 1 key, 1 address, limit 2, period 1, 2 goroutines, 4 requests, 2 ticks, 1 failure, all backends, histories outside the view | a success that is sent or recorded is committed; windows that meet let through fewer than twice the limit |
| `limit_key` | 2 addresses, 1 account, limit 1, no failure | counterexample: an account exceeds its limit from two addresses |
| `startup` | 2 instances, 1 request, 2 environments, 2 migrations, 3 starts, 1 failure, fair | only a migrated schema is served, an interrupted migration stays, requests keep their database, stops end, servers start |
| `services` | 2 uploads over 2 instants, 1 call, 1 failure | stored objects stay and come in pairs; reported successes happened |
| `directory` | 3 rows, 3 seconds, first page 0 or 1, size -1 to 2, up to page 5, 1 failure | a walk misses nothing, counts cover pages |

Why the bounds are enough to be of interest: two requests are needed to
separate two statements of one handler, and a third party adds only repetitions
of what the second can do between them; a goroutine serves any number of
requests one after the other, so histories are not bounded by the number of
goroutines. Three seconds with a lifetime of two let a token be issued,
rotated, collide with another one of its second, and expire. Two ticks with a
TTL of one let a record expire and its key be used again. Three requests over
two connections make one wait for the pool while the others wait for a row.
In `pipeline` a window of limit 2 and period 1 covers two ticks: one that begins
at tick 0 with one request can let a second one through at tick 1, and the next
window two more at tick 2, which makes three, one less than twice the limit,
within the period from 1 to 2; the fourth request is the one that is too many.
The bound is met there: with `Limit + 1` in place of `2 * Limit` the property
would fail. All failures (store calls, panics, commits, crashes) share one
bound, and every request carries the key; `limit_key` also has requests without
one. `WithoutHistory` takes `produced` and `sender` out of the states TLC tells
apart. No guard and no invariant of the run but `TypeOK` reads them, so states
that differ in nothing else have the same future; their types are proved.

Two instances are what a race for the migration takes, and three starts let one
of them come back after a kill or a stop. Two files let a failure strike before
and after a version that holds. In `services` two uploads at one instant share a
name, at two they do not, and one call beside them is enough for `Exit` to lose
it. In `directory` three rows over pages of one or two, from page 0 or 1, put a
row that appears during the walk before, between and behind those already
listed.

CHECK_DEADLOCK is off where the model may stop because a bound of the clock or
of the number of requests or starts is reached, or every row exists; in
`UserCreation` it is on, and the end of all requests is a step of its own.

Fairness. Liveness is claimed where a wait could last: for the pool and the row
locks (`EveryRequestEnds` of `users`), and for shutdown and start-up (`StopEnds`,
`StartServes`). There each goroutine is weakly fair in its own next statement:
the Go scheduler runs every runnable goroutine and every statement of the
database returns with a result or an error. Nothing is assumed of clients, of
the clock, of failures, or of who gets a connection or a lock first. In `Startup`
fairness covers the steps of the two goroutines of each instance, the timer of
`Shutdown` among them; signals, the user of the menu and how long a request
takes are free. `StartServes` promises an end of the start for an instance that
is not stopped, finds a clean schema, has files to find if it migrates, and
loses no statement; losing the race for the lock is no failure and is excluded
by name (`lock \notin {i, None}`). Handlers without a wait have no liveness
property, since it would say no more than the fairness does, and neither have the
calls of providers, which no timeout ends: the HTTP client of `twilio.go` has
none, and bucket calls use `context.Background()`.

## Proofs

### Tokens

TLAPS checks, for any sets of accounts and requests and any bounds (assuming
only that lifetimes are positive naturals, bounds naturals, and that `None` is
no user and no token, the four named ASSUMEs of `RefreshTokens`):

- `TypeCorrect`: `Spec => []TypeOK`;
- `TokenStoreImplemented`: `Spec => ImplementsTokenStore`;
- `IssuedOnce`, `EveryAnswerBacked`, `ReusedTokensRejected`,
  `ReuseRevokesSessions`, `AnsweredTokensAreDead`: the invariants of
  `tokens_rotation`;
- `SessionsEnd`: the action property of `tokens_accounts`.

The types are not inductive by themselves: `Store` inserts `req[r].fresh`, which
is a token only because `Sign` has run. `IInv` adds what the local variables hold
at each label (`LocalsOK`) and what the rows a handler has touched look like
(`RowsOK`): a found row still exists, a presented token is already revoked when
its successor is signed. That these survive the steps of other requests rests on
one fact about all statements, `Lawful`: nothing leaves "revoked", no row
disappears, and an existing row keeps its parent. With it each statement needs
only its own postcondition (`StatementStep`, `AnswerStep`). The refinement then
maps `RefreshRevoke`, `LogoutRevoke` and `RevokeAll` to `Revoke` of those rows
that were still active, and `Store` to `Open` or `Exchange`; `RowsOK` supplies the
guard of `Exchange`.

The answers compare the table with what it was when the request arrived.
`HistoryOK` follows this through the handler (`WorkOK`: the presented token was
among the sessions at arrival, or it is revoked already; the sessions at arrival
still have rows) and ends in one conjunct per property (`IssueOK`, `ReuseOK`,
`EndOK`). `OthersAccounted` shows once that steps of others preserve it, from
`Lawful` and from `Onward`: the clock and the failure count never decrease.

`IssuedOnce` needs `answers` beside the table: a token without a row was never
issued, so the one insert that the unique key lets pass is the only one that is
followed by a 200. `SessionsEnd` reads the cause off the invariant: a handler in
the reuse branch presented a token that was revoked or too old when it looked,
and neither changes back.

### Users

For any finite set of requests, any addresses and numbers, any pool and any
bound of failures (the named ASSUMEs of `UserCreation`), `UserCreationProofs` has:

- `TypeCorrect`, `Unique`, `Conflicts`, `Outcomes`, `Connections`: the five
  invariants of `users`;
- `Refines`: `Spec => ImplementsAccounts`.

`UniqueUsers` is not inductive: at a commit it needs to know that the row that
becomes visible conflicts with no committed row, which the insert decided some
steps earlier. `IInv` therefore keeps, beside the types and the count of
connections, `PendingOK` (an inserted row is its request's own, in a
transaction that ends next, and a request that has not ended has no row in the
table), `NoConflict` (an uncommitted row conflicts with no committed and no other
uncommitted one, because the insert waits for those), `ViewOK` (a snapshot is
part of the table, so what it finds exists), `RefusalsOK` (a handler that is
about to answer 409 has such a row) and `OutcomeOK` (without failures, an answer
agrees with whether the request's row is in the table). Steps that touch neither
the table nor an inserted row share one lemma, `MovesOnCore`. The connections in
use are the cardinality of `Holders`, so taking and giving back one needs the
requests to be finite (`RequestAssumption`). The refinement follows from
`EndAdds`: only the end of a transaction adds to the table, one row, and
`NoConflict` is the guard of `Add`.

### Idempotency

For any keys, requests, time to live, store and number of failures, with clients
that leave and clients that stay, `IdempotencyProofs` has `TypeCorrect`,
`AnswersOfKey`, `AnswersRecorded`, `Replayed`, and the action properties
`FirstWriter` and `RedisRecords`: all properties of `idempotency`. Assumed are a
positive time to live, natural bounds, and that `None` is no key, no response and
no record.

None of the invariants is inductive. A record is written from the response a
request carries, so `LocalsOK` says what it carries at each label: before `Set`
it is a response below 500 that was produced for its own key. `SeenOK` follows
the record a request saw when it arrived: until it expires it is the record of
the store, and without failures the request is at its lookup or already replays
it. That nobody else replaces it meanwhile is `PutKeepsLive`, from which
`FirstWriter` follows too. `BehindRecordOK` carries "a record was made since the
request arrived, or an expired MySQL row is in the way" from `Set` to the moment
the client has its answer, over the writes of all others, which only ever add
(`PutAdds`) or expire.

### Pipeline

`PipelineProofs` takes `IdempotencyProofs` over the variables of the chain (`P`),
since every step of the chain is written as a step of `Idempotency` or leaves its
variables alone (`StepImplements`): the inductive invariant of that module, and
with `IdempotencyHolds` its theorems, are available here without another proof.

- `Committed` (`SuccessIsCommitted`) rests on `CommittedOK`, which adds the answer
  that is about to be recorded: as long as no panic and no failed commit came
  between, a success already names a committed user when it reaches `Set`.
- `Sliding` (`SlidingLimit`) rests on `WindowOf`: the window at hand has let
  through at most what its counter says and at most the limit, and nothing after
  its end; the period before it held less than the limit, since the request that
  opened a window (which `Late` leaves out) is older than a period once the next
  one begins. A span of one period meets at most these two windows.
- `TypeCorrect` bounds the counters by the number of requests. That needs the
  requests that still wait for the limiter to be counted with those it has
  counted, hence a finite number of them (`RequestAssumption`).

### Start-up

For any number of instances, requests, files, starts and failures,
`StartupProofs` has `TypeCorrect`, `Migrated`, `DatabaseKept`, and the action
properties `Interruption` and `StoppedRefuses`.

The invariant has one part for each thing a goroutine relies on without looking.
`LifeOK`: the serving goroutine exists from `OnStart` on, and it serves only
while the main goroutine runs and `Shutdown` was not called. `HandleOK`: a
connection that was not found broken stays open until `Close`. `MigrationOK`: an
instance holds the lock exactly from `Lock` to the end of `Up`, the file it runs
is marked dirty, and whoever is past the migration saw the last version clean,
which cannot change any more since only the holder of the lock writes and finds
nothing to do. `RequestOK`: an open request has a process that runs, or waits for
it, or has given up waiting; with it `DatabaseKept` is one step.

### Uploads and calls

For any uploads, calls, instants and failures, `ServicesProofs` has
`TypeCorrect`, `ObjectsStay` and `SuccessIsReal`. `ObjectsHold` speaks of answered
uploads only, so `StoredOK` says what a handler has stored at each label, and
`KindOK` which handlers have that label. A handler under way may share its name
with another: such handlers are tied, and stay so, and an original that is
overwritten is still an original. `HandlerStep` says this once for all statements
of all handlers. `SuccessIsReal` covers every operation but `MessageSuccess`; of a
mail that is cut it says that its beginning was sent.

### Reading users

For any finite set of rows, any pages, sizes, seconds and failures,
`DirectoryProofs` has `TypeCorrect`, `CountCovers` and `NoRowMissed`.

`PageOK` keeps that the rows found are no more than the table has behind the pages
before; `Count` comes later and rows are only added. `NothingMissed` rests on
`Ahead`: a row with a stamp of its own that was there at the beginning is shown
already, or at least as many rows are newer as the pages read so far hold. Rows
that are added push it back, never forward, and `Position` says that a listing
has it right behind the newer ones. `NoRowMissed` has the hypothesis `FromFirst`
that walks start at page 1 or at one gorm takes for it, as those of the run do: a
walk that starts later does skip the pages before. `CountCovers` has no such
hypothesis.

Proving the type of `walk.page` corrected it: the page is an integer as the client
gave it, and only one reached by walking is within `MaxPage`.

### Only model-checked

- Liveness, which needs fairness and ENABLED and is out of the prover's reach:
  `EveryRequestEnds`, `StopEnds`, `StartServes`.
- The four counterexamples, which are runs of small instances by nature.

The proofs use no recursive definition and no induction over data: cardinalities
and intervals come from the library's theorems on finite sets and functions.

## Where code and documentation part

The four `violation` runs give counterexamples: refresh tokens are not single use
under concurrency; reuse detection misses a session that is being rotated; the
MySQL store never records an expired key again; the rate limit of an
authenticated user is kept per address and not per user.

Modelling met more, each read off the line that `PROJECT.json` names and quoted
there with the sentence it disagrees with:

- a keyed POST may run twice when its client leaves, and a concurrent duplicate
  user is answered 500 instead of 409;
- the migration folder has no file that golang-migrate recognises, so start-up
  with migrations fails, after which the process stays up without listening and
  its liveness probe is not answered;
- EXIT_APPLICATION does not end the process, a failed prompt ends it in a panic,
  and CREATE_SEED_DATA runs no seed;
- `MessageSuccess` reports a refused message as sent; an e-mail may be cut short
  and reported whole; a failed upload to S3 ends the process; a broken image
  panics after its original was stored; a missing key file yields an empty URL;
- `GetContext` has no deadline; the keyword search names a column that does not
  exist; `HandleAuth` without setters lets nobody through.

## Not modelled

- The token strings, hashing, password comparison, JSON, validation rules and
  error envelopes: the modules keep which branch is taken.
- `GET /users/:id` and `GET /profile`: one statement that reads one row and
  keeps no state.
- Access tokens: stateless, checked by signature and expiry only.
- The login and refresh routes behind their limiter: it only keeps requests out,
  and `RefreshTokens` lets any number of them in.
- Request id, CORS, Sentry, the error handler: they keep no state of their own.
- What the Firebase middleware stores in the request and the arguments of
  provider calls: data that is passed on.
- What the two keyed runs of a handler do when nothing is reserved at the
  lookup, when the client leaves before the record or when the process dies
  there: the code gives no guarantee that a property could state.
- Logger, validator, environment file, DSN: formatting and parsing, done once.
- The faker of seed data, which nothing calls.
- Swagger files and generated structs.

## Plan

1. An abstract `KeyedCache` (a key has at most one live answer, and who finds one
   gets it), implemented by `Idempotency` and so by `Pipeline`.
2. An abstract specification of the migration (one version at a time, applied by
   one holder), implemented by `Startup`.
3. The theorems of `UserCreation` used in `Pipeline`, whose handler abstracts them
   to its outcome.
4. The login and refresh routes behind their limiter, composed with
   `RefreshTokens`.
