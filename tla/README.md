# go-chi-bp: TLA+ models, checks and proofs

A verification development for the HTTP API of this repository: TLA+ modules
translated from the Go and SQL source, TLC configurations that check them on
small instances, and TLAPS proofs of the same properties for every value of the
constants. `PROJECT.json` maps each definition to the source lines it models.

## The system

| Component | State it keeps | Operations | Talks to |
| --- | --- | --- | --- |
| widget handler (`widgethttp`) | none | create, get, list, delete; cursor encoding and decoding; error mapping | service, JSON decoder and writers |
| widget service | none | validation; page cutting and `NextCursor` | repository |
| repository and generated queries | the `widgets` table | INSERT, SELECT, keyset SELECT, DELETE | pgx pool |
| middleware chain (`httpapi`) | per request: deadline, written status | requestTimeout, recoverPanic, logRequest, readiness | handler, log |
| database pool (`database.Open`) | connections in use | acquire, query, interrupt, close | PostgreSQL |
| app and server (`app`, `httpserver`, `cmd/api`) | `acceptingTraffic`, listener, error channel, timers | start, serve, drain, shut down, exit | pool, the router that polls readiness |
| configuration | environment | read, validate | everything, at start |
| migration job (`cmd/migrate`, `Migrate`) | `goose_db_version` | apply pending migrations | PostgreSQL |
| request decoding (`httpkit`), name rules | none | size limit, two passes of the decoder, field rules; the service's and the table's own | handler |
| edge (`requestid.go`, `logging.go`, CORS, security headers) | per request: its ID, the response header | resolve the ID, set headers, annotate records | log |
| client IP | none | choose the address's source | chi |

What is hard here is where these meet. A listing walk spans many requests while
other clients write. A request is ended by whichever of its deadline, its client
and its database comes first, and the statement may commit after that. A process
that is told to stop races the router's poll, the drain delay, the shutdown
timeout and the queries still running. Five timers of one request race each
other. A request may end by a return, a panic, an abort or a preflight that no
handler sees, and still owes its client an ID and the log a cause. A migration
job may overlap another or be ended while its COMMIT is on its way. `PROJECT.json` lists these hazards at
their lines, with the properties that catch them.

What makes each part correct:

- listing: each row once, in order, none skipped, the walk ends, the server
  accepts its own cursors;
- requests: a status tells the truth about the write, is written once, is the
  one logged and the one received; connections come back; every request ends;
- lifecycle: a drained process refuses nothing, a clean exit loses nothing, the
  stop time is bounded;
- the API as a whole: a request takes effect at most once and atomically, a
  definite answer is true and final, only an indefinite one may be followed by an
  effect;
- deadlines: no wait outlasts its limit, the answer reaches the client, a query
  is blamed on the request's deadline only if it had to wait;
- edge: response and records carry one ID, whoever writes them; each request has
  one completion record and each failure its cause;
- configuration: an accepted configuration puts every limit in force, with the
  values that were written, and never makes a constructor panic; a report blames
  the cause;
- migration: versions are recorded once and in order, a run reports what it
  committed, exit status 0 means a current schema, lock waits are bounded, runs
  end;
- decoding: what is stored is one strict object within the limit, what deserves
  to be stored is, and no name gets past the service only to fail at the table.

## Modules

### WidgetPaging

One client follows `next_cursor` while writers insert and anyone deletes.

- `widgets`, `tx`, `nextID` are the table, the INSERTs in progress and the
  identity sequence. An INSERT takes its `created_at` when its transaction
  begins (`BeginInsert`), its `id` when the row is formed (`AssignIdentity`) and
  is visible when it commits (`CommitInsert`): the three orders are independent.
- `List` is the whole request: `listLimit`, `decodeListCursor`,
  `Service.List`'s validation (`ValidPagination`), the query for one row more
  than the page (`ListQuery`), the cut (`Items`) and the cursor (`NextCursor`,
  `encodeListCursor`). `ListRejected` is the 400.
- A cursor's text is the seconds, the fraction and the identifier; encoding and
  decoding are arithmetic on microseconds, so a format that lost the fraction
  would be seen. base64 and the separator carry no more information and are left
  out, as are cursors the server never issued.
- `seen` and `atStart` are history variables of the walk. `Limit == 0` in
  `Service.List` is not an input: the handler never passes it.

### Requests

Requests of all five operations run through the chain at once. `pc` follows a
request: `idle`, `acquire` (waiting for the pool), `query`, `respond`, `return`
or `unwound` (a panic), `flush`, `done`.

- `ctx` is the handler's context, whose first cause of death stays; `gone` is
  the client's disconnect, the only thing that ends the context `logRequest`
  sees.
- `stmt` is the statement on the database's side. `Execute` may come after
  `Interrupt`: pgx's cancel request can be late.
- `slot` counts against `MaxConns` while a query runs and while a broken
  connection is being closed. That `Acquire` keeps to `MaxConns` is pgxpool's
  promise, assumed here and not shown.
- There is no time here, so `Flush` leaves out the write timeout; when that drops
  an answer is the subject of Deadlines (AnswerReachesClient).
- `Refuse` covers every answer given without a query; Decode says which body or
  name leads to which refusal. A response that cannot be marshalled
  does not occur with the payload types of this API.
- pgx, pgxpool and net/http are modelled from how the code uses them and are
  marked external in the map.

### WidgetAPI and RequestsRefinement

WidgetAPI is what a client may rely on, without handler, pool or log: `Invoke`,
`TakeEffect`, `Fail` and `Reply`. RequestsRefinement maps Requests to it:

- `effectBar`: a statement that was not sent or still runs has had no effect; an
  aborted one failed; otherwise the effect is the statement's result.
- `answerBar`: nothing until the handler has returned or panicked, then success
  (2xx), refusal (4xx) or unknown (5xx, or a connection closed without an answer).
- `op`, `target` and `rows` are Requests' own.

`Execute` maps to `TakeEffect`, also when it comes after a 504, which is why
`TakeEffect` is allowed after an unknown answer and after no other.

### Deadlines

The same requests with time, to relate the timers to each other: the read and
write timeouts of the server, the deadline of `requestTimeout`, the readiness
check's own inside it (`Limit`), and the statement limit that PostgreSQL
enforces. `age` counts ticks from a request's headers, `read` and `started` are
its age when its body had come and when its query got a connection.

- Time does not pass while a timer is due (`Due`); two timers due in one tick
  fire in either order, so a statement limit equal to the rest of the deadline
  may be reported as either.
- `ReadBody` and `BodyFails` are create's wait for its body, which looks at the
  read timeout only.
- What the queries do is Requests' subject; here they end or do not.

### Config

The process from its environment to the chain it serves with: `Load` (every
variable's parser and fallback, parse errors reported apart from `validate`'s),
`Open` and `OpenFails` (the pool's settings), `Build` (the panics of
`NewJSONDecoder`, `clientIPMiddleware` and the CORS options, and the `Chain`).

- The environment is a partial function. A duration is a number of units, a text
  a class of texts, a list a sequence of the classes of items the rules tell
  apart; what no parser accepts is `Garbage`.
- A report is a set of problems, each the set of variables it names, so that
  blaming the wrong variable is a different report.

### Decode

create from the bytes of its body to the row. A body is a sequence of symbols of
one unit each, a name a sequence of kinds of characters.

- `HasMore` and `AtEnd` are the stream a MaxBytesReader makes of the body. The
  decoder reads it in two passes: `First`, `Object` (and `Literal`) find the
  value, `Rest` is the second `Decode`, whose every outcome but the end of the
  body is `bad_request`.
- `ValidateStruct`, `Create` and `Insert` are the three places that judge the
  name: the generated type, the service's `TrimSpace` and length, the table's
  constraints with `btrim`, which strips spaces only.
- The connection may break wherever the decoder reads (`ReadFails`).
- Only create has a body.

### Edge

One request through the chain `NewRouter` installs. `Chain` is the order as data,
`layer` says who has control and `way` whether it goes in, out or unwinds a
panic. A response keeps the header as it was when its status was written; a
record takes its ID from the context of the layer that writes it (`GetReqID`).

- `requestID`, `securityHeaders`, `CORSActual` and `CORSPreflight` work on the way
  in, `recoverPanic` and `logRequest` on the way out. cors gives its headers only
  to an allowed origin and a method of `AllowedMethods`, and to a preflight only
  for headers of `AllowedHeaders`. HEAD is not listed: a cross-origin HEAD, which
  needs no preflight, runs and its response is closed to the script. `Answer` is a handler or a
  router's 404 or 405, `failRequest` and `writeJSONFails` the two error paths.
- `Loggers` holds the logger `Build` wraps and one derived from it.
- `Finish` is net/http's implicit 200.
- clientIP and requestTimeout change neither header nor ID and are left out.

### Lifecycle

`run()` from configuration to exit with discrete time. `left`, `poll`,
`probeLeft`, `work` and `teardown` count down in `Tick`, and time does not pass
while a step is due (`Due`), so that bounds on time can be stated.

- `Listen` and `ListenerFails` are the serving goroutine of `Run`; `served` is
  what it put into the buffered channel. It is read in `Run`, in `drain` (only
  with a positive delay), or never.
- A signal that arrives before `signal.NotifyContext` is set up kills the
  process.
- `Route`, `ProbeStart`, `ProbeEnd` are the orchestrator's router: it sends
  requests while its last probe passed. A request that reaches no listener is
  `refused`. A probe's headers come with its connection; were they late, it would
  meet a draining process, which answers without a ping.
- An accepted request is `reading` until its headers are complete, for at most
  `ReadHeaderTimeout`; only then is its handler called and the deadline of
  `requestTimeout` started (`ReadHeaders`), also while Shutdown waits or after it
  gave up. Shutdown waits for a connection that is being read, unless it closes it
  (`Hangup`: net/http does so at once when the connection was kept alive, and when
  a new one is five seconds old; here at any time while stopping, or never). The
  request is then `dropped`, as by `HeaderTimeout`, before it had a handler.
- A handler may outlive its deadline as long as it holds no connection (a slow
  body, for example); a query may not. An interrupted query leaves a connection
  that pgx closes within `CloseTimeout`.
- Exiting kills what is `active`; a closed pool fails requests that come for a
  connection.

### Migration

Runs of the migration image (`Jobs`) against one database, overlapping and
retried. `pc` follows a run: `idle`, `start` (building the provider), `next`
(between versions), `waiting` (for a lock), `ran` (the statements have run, the
transaction is open), `committed` (the answer to COMMIT is on its way), `done`.

- `rows` is `goose_db_version`, as the number of rows of each version. `orphans`
  are versions whose transaction is open on the server although the job behind
  it was killed, canceled or cut off; `EndOrphan` rolls it back or, when COMMIT
  had been sent, commits it.
- `Refuse` and `Launch` are `run()`: blank, malformed and out-of-range settings
  are refused before anything is opened. `lockTimeoutParam`
  is the conversion to whole milliseconds. Where no parameter is set, the role is
  assumed to have no `lock_timeout` of its own.
- `Fail` is the error path through `Migrate` and `main`, with the versions that
  goose carries in `PartialError`; `Finish` the other one, where only closing the
  database can still fail.
- goose (`List`, `Begin`, `Commit`, `Ack`, ...) and PostgreSQL are external and
  modelled from how `Migrate` configures them: versions listed once, applied from
  the lowest, each in a transaction with its row. The provider has no session
  lock, so what keeps two jobs from applying one version is that its statements
  fail where the objects exist (`Conflicts`) and wait where another open
  transaction is creating them (`Blocked`). The mutant of `AppliedOnce` writes
  the migrations with IF NOT EXISTS.
- A version's wait for locks is one wait; the creation of the version table is
  part of `StartFails` and `List`. `-- +goose NO TRANSACTION` and versions
  missing from the middle of the table do not occur with these migrations.
- `committed` is a history variable: what this run really committed.

### MC and proof modules

`MC*` modules add symmetry sets and constant values; MCRequests extends
RequestsRefinement, so that one run checks the safety properties and the
refinement on the same instance. `*Proofs` modules extend their component and
TLAPS.

## Runs

| Run | Checks | Shows |
| --- | --- | --- |
| `paging` | PagesDescend, NoRowSkipped, IssuedCursorAccepted, WalkEnds | a walk repeats and skips nothing under concurrent writes, and a persistent client ends it |
| `requests` | AnswersAreTrue, OneDeleteWins, NoPhantomResponse, LogMatchesWire, OneStatus, ImplementsAPI | answers, log and wire agree however deadline, client and database race, and a client sees no more than WidgetAPI allows |
| `requests_end` | EveryRequestEnds, SlotsReturn | a silent database blocks nobody for ever |
| `deadlines` | HandlerBounded, AnswerReachesClient, TimeoutOnlyAfterWait | the timers fit into each other, with a slow body and a probe sharing one connection |
| `edge` | EveryResponseNamed, RecordsNameTheResponse, FailuresExplained, CompletedOnce, BrowserReadsID | one ID, one completion record and a cause for every failure, on every path out of the chain |
| `decode` | TypeOK, OnlyStrictObjectsStored, RefusalsAreTrue, LayersAgree, GoodRequestsStored | the limit, the two passes and the three judges of a name fit together |
| `config` | TypeOK, AcceptedNeverPanics, NothingUnbounded, RunsAsWritten, BlamesTheCause | a process either says what is wrong or serves with every limit in force |
| `lifecycle` | NoRequestRefused, CleanExitLosesNothing, StopsWithin, Stops | draining works, a clean exit is clean, stopping is bounded and happens |
| `migration` | AppliedOnce, ReportIsTrue, SuccessMeansCurrent, LockWaitBounded, EveryRunEnds | overlapping, killed and retried jobs leave a schema that is recorded once, in order and truthfully, and end whatever holds the table |
| `abort_log` | NothingUnsentIsLogged, violated | see findings |
| `stop_time` | StopTimeAsDocumented, violated | see findings |
| `lock_timeout` | LockWaitAsDocumented, violated | see findings |

The other modules' type invariants, PageSize, QueryBounded, KeyDescends, BoundedLife
and RunsDown are proved for every instance (below) and not run.

Each property has a mutant, a plausible slip in one definition, defined next to
it, that TLC finds with that property.

Bounds:

- Paging: two writers, three identities, timestamps
  999999, 1000000 and 1000001, so that two rows may share a timestamp, a second
  or neither, page sizes 1 and 2, limits 0 and 3 to be rejected. Three rows give
  walks of up to three pages with inserts above and below the cursor. `MaxID`
  makes the identity sequence finite; it is the only bound in a guard. For
  WalkEnds it also bounds the inserts, without which a stream of rows below
  the cursor would keep a walk going for ever.
- Requests: two requests for one connection and one widget: queueing, the
  collision of two deletes and every interleaving of one request with another's
  slot. The invariants other than OneDeleteWins speak of one
  request at a time. Safety and refinement run with create, delete and
  readiness, which between them have an effect, a miss, a target and a refusal
  while draining; liveness runs with get and list, which hold a connection the
  longest. The proofs cover all five at once.
- Deadlines: two requests and one connection; read timeout 7, write timeout 6,
  request 5, statement 3, readiness 2: a body may outlast the deadline and the
  write timeout, and a statement that waited for its connection may or may not
  have its limit left.
- Edge: client IDs of up to one byte beyond the limit of 2, over two safe bytes
  and one that is not; CORS off, one origin and every origin; a method of a route
  with and one without preflight, one that is listed for no route, one that is not
  listed; requests share nothing, so one is enough.
- Decode: a limit of 4 symbols and all bodies of up to 5 over 7 symbols, so that
  a value may end before, at and beyond the limit; all names of up to one
  character beyond the limit of 3 over 4 kinds.
- Config: `DATABASE_URL` and at most two further variables, each at, below or
  beyond a bound of its own; no rule relates more than two variables besides
  their defaults. A millisecond is two units, so that half of one exists, and the
  largest 32-bit integer is 127.
- Lifecycle: two requests; drain delay 4, poll interval 3, the tightest relation
  that the README of the repository recommends; the shutdown timeout (2) below the
  header timeout and the request timeout (3 each), so that headers may come in
  while Shutdown waits, or after it gave up. The bound of StopsWithin, 10 here, is
  reached. `stopTime` is counted up to
  `StopTimeCap`, above every bound stated.
- Migration: two jobs, each started up to twice (`MaxRuns`), so that a retry may
  meet another job and an orphaned transaction of its first run; two versions, as
  in `db/migrations`, the second of which needs a lock on the application's
  table; lock timeouts of 2 ms and 0 and one environment for each refusal. A wait
  is counted up to `WaitCap`, above the lock timeout.

Fairness:

- `PersistentClient`: the client keeps following the cursor. A claim about a
  client that walks, not about the server.
- `Requests!Fairness`: timers fire, goroutines that can run do, the pool closes
  broken connections. Nothing of PostgreSQL, of the client or of the order in
  which the pool serves its waiters: that requests end rests on the deadline
  alone.
- `Lifecycle!Fairness`: time passes, `run()` takes its steps, probes end, the
  wait for headers ends at its timeout and queries are interrupted at their
  deadline. Handlers that hold no connection
  need not end.
- `Migration!Fairness`: the run's timer fires, the job returns from what its
  context ended, and a job with nothing left to apply closes its database.
  Nothing of PostgreSQL or of the application's transactions.

## Findings

- `abort_log`: `recordedStatus` (middleware.go:58) logs 200 for a handler that
  panicked with `http.ErrAbortHandler`, which `recoverPanic` lets through so that
  net/http drops the connection. Its comment: "Logging that as 200 would record a
  response the server never sent." No handler of this repository aborts today;
  the middleware is written for handlers that do.
- `stop_time`: `ShutdownOptions.Timeout` is documented as "spent after
  DrainDelay, so the two together bound total stop time" (server.go:38). The
  deferred `pool.Close` (cmd/api/main.go:41) waits for queries that Shutdown no
  longer waits for, so the process may live until their deadline and the closing
  of their connections. That deadline starts when the headers are read, which may
  be after Shutdown began. `StopsWithin` states the bound that holds: the drain
  delay plus the longer of the shutdown timeout and the sum of the header timeout
  (or the shutdown timeout, if shorter), the request timeout and the closing of a
  connection. A request whose headers come later finds the pool closed.
- `lock_timeout`: `Migrate` formats `LockTimeout.Milliseconds()` (migrate.go:51).
  A positive value below a millisecond becomes 0, which PostgreSQL reads as no
  limit, while the option's comment (migrate.go:20) and DEPLOYMENT.md:61 say that
  every value but 0 bounds the wait. `LockWaitBounded` states the bound that
  holds, from one millisecond on.

Four smaller differences between the documents and the code have no run of
their own. The property or module named states what holds.

- TimeoutOnlyAfterWait: the repository's README says (line 177) that the relation
  between the two limits makes a slow query be "reported as the statement limit it
  exceeded". That holds for a query that got its connection early enough; the
  deadline starts before the wait for the pool, the statement limit after it.
- HandlerBounded: `RequestTimeout` "bounds how long one handler may run"
  (config.go:33), except while it reads a body, which only the read timeout ends
  (15 s by default, against a request timeout of 10 s).
- RefusalsAreTrue: a valid object followed by white space beyond
  `HTTP_MAX_REQUEST_BYTES` is answered 400 and not 413 as openapi.yaml:301 has it,
  because the second `Decode`'s error is replaced (json.go:92). What is answered
  413 is too large, and nothing too large is stored.
- Deadlines: the comment at postgres.go:35 says that an HTTP request carries no
  deadline of its own; since `requestTimeout` it does.

## Proofs

All for arbitrary constants within the modules' ASSUMEs, which are what
`config.validate` and `service.go` guarantee (positive timeouts and connection
limit, `DefaultListLimit` within the maximum) and what the models' shape needs
(finite sets, disjoint names; in Lifecycle, a poll interval no shorter than the
probe's timeout, as orchestrators require). What the first kind asks of the
configuration is in turn what `NothingUnbounded` shows of every configuration the
process serves with.

- **WidgetPagingProofs**: `PagingInv`. `NoRowSkipped` speaks of the end of a walk
  and is not inductive. `CursorSplits` strengthens it: the client's cursor is the
  key of the oldest row it has seen, and every row that was there from the start
  and is still there was seen or lies below the cursor. `FreshIdentities` is
  needed because a row is its key: an insert must not re-create a row that was
  deleted. The lemmas before it show that `Older` is a strict total order on
  rows, that `Newest(n, S)` has at most n elements, contains the newest ones,
  and has exactly n if S has more, that `Last` exists, and that
  `decodeListCursor` inverts `encodeListCursor`. `WalkMovesOn` is the safety half of
  WalkEnds: the next cursor is the key of a row that the query found below the old
  one, so the key strictly decreases from page to page (`KeyDescends`).
- **RequestsProofs**: `RequestsInv`, request by request. `Untouched` says what has
  not happened yet at each `pc`, `Truthful` ties the service's result and the
  status to the statement, `Faithful` ties log and wire to the status; the key
  fact is that an unwritten status means an abort or a client that is gone.
  `DeletedOnce` relates two requests: a deleted widget is gone, so a second
  delete misses. `OneStatus` is an action property proved from the same
  invariant. `StepsRunOut` is the safety half of EveryRequestEnds and SlotsReturn:
  `Remaining` counts what a request, its client, its connection and its statement
  may still do, eleven steps at most (`LivesAreBounded`), every step lowers it for
  one request and raises it for none (`RunsDown`). The same module proves
  `ImplementsWidgetAPI`, the refinement: every step of a request is a step of
  WidgetAPI or a stutter under RequestsInv. `Truthful` gives the guards of `Reply`,
  and that a 4xx or a 2xx is only written when the statement can have no effect any
  more.
- **LifecycleProofs**: `LifecycleInv`. `RouterLearns` is the drain argument: while
  draining, either the router knows or its next poll comes before the delay is
  over. `TimeAccounted` gives every wait (drain, shutdown, headers, query, probe,
  closing connection) its share of the stop time: headers are read within the
  header timeout of the last routed request, and a query that starts before the
  pool closes has had them before Shutdown gave up (`HeaderSlack`).

- **MigrationProofs**: `MigrationInv`. `AppliedOnce` is not inductive: a COMMIT
  adds a row, and nothing in `rows` says that it was missing. `OpenOnce` says that
  a version has at most one open transaction, of a job or orphaned, and only
  while it is not recorded; `Planned` that whatever a job does not plan is
  recorded, so the version it is at comes directly after recorded ones
  (`NextVersion`). Together they give `RecordVersion`, used for a job's COMMIT
  and for a late one. `Reported` ties what a run knows to what it committed; at
  `Finish` nothing is planned, so everything is recorded.

- **DeadlinesProofs**: `DeadlinesInv`. `Timed` bounds each request's age by what
  it waits for; TimeoutOnlyAfterWait needs the start of the query in the
  invariant, because the deadline fires without looking at it. `Due` is what
  makes `Tick` keep it: time stops at a timer that is due. QueryBounded is about
  running queries; how long an interrupted one's connection takes to be closed is
  not bounded here (Lifecycle has `CloseTimeout` for it).
- **ConfigProofs**: `ConfigInv`, that what was accepted is what was loaded and has
  no problems; the panics of the constructors are then excluded rule by rule. It
  assumes of the environment that a number is an integer or does not parse. The
  type invariant is proved beside it; its one claim about data is that the
  connection counts fit 32 bits, the fallbacks' and those that were read
  (`PoolSizesFit`).
- **EdgeProofs**: `EdgeInv`. `Named` and `Secured` say which layers have been
  passed on the way in, and that the header and the context agree from then on;
  `Consistent` that nothing was written or recorded before, that every record
  carries the ID and that the completion record is the last one. `Shared` carries
  BrowserReadsID: below cors, and everywhere on the way out, the header lets an
  allowed origin read the response to a listed method and its ID, and no preflight
  gets below cors; the theorem adds that every route's method is listed.
- **DecodeProofs**: `DecodeInv`, for bodies and names of any length, any limit and
  any maximum length of a name. `Progress` says what the symbols read so far are:
  white space (`first`), the beginning of a strict object (`object`), one whole
  value and white space around it (`rest`), and whether the destination's name was
  set on the way. `Verdict` says what each answer means for the whole body; the
  lemmas before the steps give the reason of each refusal (`NoObjectBegins`,
  `NoObjectEnds`, `NothingMayFollow`), so that GoodRequestsStored holds because no
  refusal fits a good request. `TrimKeeps` and `TrimEmpties` are about
  strings.TrimSpace: what is kept begins and ends with a character to keep, which
  is why `btrim`, which strips less, finds nothing to strip (LayersAgree).

Only model-checked: the five liveness properties (WalkEnds, EveryRequestEnds,
SlotsReturn, Stops, EveryRunEnds). They rest on fairness and ENABLED, which the
provers do not handle; of the first three, the part that is safety is proved.
Every invariant and action property of the passing runs is proved. The three
violated properties are counterexamples, which need no proof.

## Not modelled

- How chi derives a client's address from the headers of trusted proxies; which
  source is chosen, and the panics of the choice, are in Config.
- Responses that never reach the chain: net/http's own 400 and 431, and an upgrade.
- Decode leaves out a member given twice, a name that is not a string and the
  paths in a validation report. A name with U+0000 passes the type and the
  service and fails at PostgreSQL, which LayersAgree excepts: it is answered 500.
- `readiness` drops the error of a failed check without a record; FailuresExplained
  speaks of 500 and 504 only.
- Where in a record the ID appears: with `WithGroup` it is nested in the group.
- Pool recycling (MinConns, lifetime, idle time, health checks): it replaces idle
  connections and never changes what a request is told.
- Generated types, test kit, scripts, container files.

## Plan

Done, in this order: WidgetPaging, Requests, Lifecycle and Migration with their
runs and proofs; Config, Decode, Deadlines; WidgetAPI and the refinement; Edge.

Left:

1. Requests composed with the closing pool of Lifecycle: which requests in flight
   at the end of the shutdown timeout are told what.
2. What KeyDescends and RunsDown are for WalkEnds and EveryRequestEnds, for Stops
   and EveryRunEnds: a measure of a stopping process and of a migration run that
   every step of theirs lowers.
