# A verification project for XScopeHub

XScopeHub is a set of Go services for observability and AI-assisted operations. Two of them
carry real state and real concurrency: `llm-ops-agent`, which moves operations cases through
a guarded state machine in PostgreSQL and announces each move on NATS, and
`observe-gateway`, which authenticates, limits, caches, translates and dispatches queries. Two
more are smaller: `observe-bridge`, which relays a stream of records, and `mcp-server`, which
answers from a registry. This project models these services in TLA+, checks the models with TLC
on small instances and proves their safety with TLAPS for every instance.

## 1. Inventory

| Component | Source | State | Operations |
|---|---|---|---|
| Case state machine | `llm-ops-agent/workflow/workflow.go` | none (pure) | `Decide(from, event, ctx)` over a table and three guards |
| Case repository | `llm-ops-agent/internal/ports/postgres/case_repo.go`, `db/` | tables `ops_case`, `case_timeline`, `outbox`, `idempotency`; open transactions | `CreateCase`, `Transition` |
| Case HTTP handlers | `llm-ops-agent/api/handlers.go` | none | `POST /case/create`, `PATCH /case/{id}/transition` |
| Outbox publisher | `llm-ops-agent/internal/outbox/publisher.go` | a batch in a transaction, the client's send buffer | `Run`, `flush` |
| Agent daemon | `llm-ops-agent/cmd/main.go` | none | wiring: the routes get a nil service, the publisher is never started |
| Query gateway server | `observe-gateway/internal/server/server.go`, `query/`, `audit/` | requests in flight | `handleQuery` |
| Rate limiter | `observe-gateway/internal/limiter/limiter.go` | a token bucket per tenant and process, a sorted set per tenant in Redis | `Allow` |
| Authenticator | `observe-gateway/internal/auth/authenticator.go` | a cached JWK set and its fetch time | `Verify`, `getKeySet`, `refresh` |
| Response cache | `observe-gateway/internal/cache/cache.go` | a ristretto cache with a TTL | `Get`, `Set` |
| Backends | `observe-gateway/internal/backend/*.go` | none (an external metadata table) | `QueryPromQL`, `QueryLogQL`, `QueryTraceQL` |
| MCP server | `mcp-server/cmd/mcp/main.go`, `internal/*` | a registry filled once at start, requests in flight | `serve`; JSON-RPC: list and get resources, list and call tools, manifest |
| ETL stream | `observe-bridge/internal/etl/server.go`, `etl/pkg/oo/oo.go` | a stream in flight | `/oo/stream`; all other endpoints call stubs that return nil |
| Agent pipeline | `llm-ops-agent/internal/{agent.go,analyzer,input,output}` | none | placeholders |

How they interact. The handlers build `ports.TransitionArgs` and call the repository through
`orchestrator.Service`. The repository shares nothing in memory: concurrent requests, in one
server process or in many, meet only in PostgreSQL, at READ COMMITTED, through row locks and
unique keys. The publisher meets the repository in the `outbox` table only. The gateway's
request goroutines meet in the key set (a mutex), the response cache (ristretto), the token
buckets (a mutex) and, between gateways, in Redis.

What is hard here: interleavings of two transactions on one case; a key that arrives twice at
once; a failure at each of six statements, one of which the code ignores; a commit whose
acknowledgement is lost; ids that are drawn in one order and become visible in another;
a publisher that dies between commit and flush; a check (cache, key set, clock) that is stale
by the time it is used. `PROJECT.json` lists them under `hazards`, each at its line.


What makes each component correct:

- *Case repository*: row, timeline, outbox and idempotency change together or not at all; every
  timeline is a walk of the state machine that respects its guards; a caller who names a version
  overwrites nothing newer; a key has one effect; what a client was told stays true; every
  request ends.
- *Outbox publisher*: rows are never in two hands; a row is marked only after the client library
  took it; every committed row is announced; nothing is sent twice without a failure; moves of a
  case are first heard of in order.
- *Rate limiter*: a bucket never grants more than it held and received; the shared window never
  holds more stamps than the burst; nobody pays for requests that were refused.
- *Gateway*: an answer belongs to the query that was asked; it is no older than promised; a
  verdict about a token agrees with the issuer of a moment ago.
- *Translators*: the SELECT returns what the query asks for, from the tenant's own table; where a
  part is not understood, it returns more and never less.
- *ETL stream*: the client gets what OpenObserve sent, in order and labelled; an ending that looks
  complete hides as little as possible; every stream ends.
- *MCP server*: every answer comes from the whole registry; a request that was read is answered,
  across a shutdown too; a signal ends the server.

## 2. Modules

| Module | Models | Extends / uses |
|---|---|---|
| `Workflow` | the transition table, its guards, `Decide` | |
| `CaseRepository` | handlers, `CreateCase`, `Transition`, PostgreSQL as they use it; the properties | `Workflow` |
| `CaseLedger` | the abstract specification: one atomic legal move per step | `Workflow` |
| `CaseInvariant` | the inductive invariant `Inv` of the repository | `CaseRepository` |
| `CaseRepositoryProofs` | `Inv` is inductive; its corollaries; the repository implements the ledger | `CaseInvariant`, TLAPS |
| `EventBus` | the abstract specification of the publisher: one dispatcher, no batches or buffers | |
| `OutboxPublisher` | `Run`, `flush`, the buffer of the NATS client | instance of `EventBus` |
| `OutboxPublisherProofs` | the publisher's invariant, its corollaries, the refinement of `EventBus`, order with one worker | `OutboxPublisher`, TLAPS |
| `OpsAgent` | repository and publisher over one database | `CaseRepository`, instances of `OutboxPublisher` |
| `OpsAgentProofs` | the two do not disturb each other; what follows of both together | `OpsAgent`, `CaseRepositoryProofs`, instance of `OutboxPublisherProofs` |
| `RateLimiter` | `Allow`, the buckets, the Redis script, several clocks | |
| `RateLimiterProofs` | what buckets and window guarantee, for all rates and clocks | `RateLimiter`, TLAPS |
| `QueryGateway` | `handleQuery`, key set, cache, backends | |
| `QueryGatewayProofs` | own answers, fresh answers, verdicts of the issuer | `QueryGateway`, TLAPS |
| `QueryTranslator` | `translateLogQL`, `translateTraceQL`, the table of a tenant, what the SELECT returns | |
| `QueryTranslatorProofs` | the SELECT of a query of any length returns what it asks for | `QueryTranslator`, TLAPS |
| `EtlStream` | `handleOOStream`, `oo.Stream`, OpenObserve and the client around them | |
| `EtlStreamProofs` | order, endings and failures of the stream | `EtlStream`, TLAPS |
| `McpServer` | `serve`, the registry, `ServeHTTP` and its handlers | |
| `McpServerProofs` | every answer comes from the whole registry | `McpServer`, TLAPS |
| `MC...` | workloads and constants of the runs | the module they are named after |

### The case repository

A goroutine `p` serves one request at a time. `pc[p]` is the statement it sends next; the names
are those of the sqlc queries. A transaction works on `held` (the case row it has locked), `cur`
(the row it read), `upd` (the row it will leave), `outId` (the outbox id it drew) and `written`;
`Commit` installs them in the tables in one step, `Rollback` and `Crash` drop them. A failed
statement inside a transaction aborts it (`aborted`), which matters once: `CreateCase` ignores
the error of `InsertTimeline` and carries on. A goroutine holds no state between requests, so
`Crash(p)` of one goroutine stands for a lost answer, a cancelled request, and, repeated, for the
death of the server. `Commit` may report an error although it took effect. `attempts` counts how
often a call was sent; `answers` and the field `call` of timeline rows are history variables.

PostgreSQL, as far as these statements use it: `SELECT ... FOR UPDATE` waits for the holder of
the row; a duplicate key waits for the transaction that inserted it and then fails; sequence
values are drawn at once and never returned; an aborted transaction refuses every statement.
The `If-Match` header is what `strconv.ParseInt` makes of it: a number, or 0.

The column `idempotency.request` is JSONB, and `request` says what a call puts there. `CreateCase`
and the handler of a transition put `[]byte{}` there, which is no JSON: PostgreSQL refuses the
statement (`RefuseRequest`), and the call is rolled back after everything else has been done. So no
call that comes over HTTP with a key takes effect. Only another caller of `ports.CaseRepository`,
whose request is JSON or nil, stores a key with a transition; the workloads have both kinds.
`CallAssumption` says which calls there are.

### The publisher, and the two together

`OutboxPublisher` has one action per call of `flush`: `List` (BEGIN and the locking SELECT),
`Publish` (into the client's buffer), `Mark`, `CommitBatch`, `Flush`. `Drain` is the goroutine of
the NATS client. `ConnectionBreaks` loses a prefix of a buffer, `CrashWorker` all of it. Alone,
the publisher gets its rows from `RowCommitted`, which allows any order that `RowsCommitInOrder`
does; in `OpsAgent` they come from the repository itself, and so the composed run checks the
real interface. `OpsAgent` composes what the daemon is meant to run: `cmd/main.go` today
registers the routes over a nil service and starts no publisher.
(`internal/server/server.go` of the agent does pass a service, but nothing calls it.)

Three specifications are stacked here. `ServesPublisher` says that the composed system, seen
through the outbox, is a behaviour of `OutboxPublisher` alone, environment included: the
repository never touches a row again, draws fresh ids and makes the rows of a case visible in
order. `ImplementsBus` says that `OutboxPublisher` is a behaviour of `EventBus`, where the column
`published` is `settled`, the rows in any worker's buffer are `inFlight` and what a broken
connection took is `gone`. Together: what the bus promises, the agent keeps.

### The rate limiter

`bucket[g][t]` is the credit of tenant `t` at gateway `g`, in milliseconds, `Period` of them to a
token. `zset[t]` is the sorted set in Redis: score and member of an element are the same stamp,
so a set of stamps is all there is. `AllowLocal` takes the token and reads the gateway's clock
(`now + Skew[g]`); the script (`RedisAllows`, `RedisRefuses`) runs up to `MaxDelay` later, on
the clock of Redis, atomically. When the answer of a run is lost (`AllowsUnheard`,
`RefusesUnheard`), go-redis may run the script again with the same stamp, until `MaxDelay` is over,
or give up (`RedisFails`); `lost` keeps the stamps such runs recorded. A refusal by either gives nothing back. `passed[g][t][m]` counts what
bucket and gateway let pass before time `m`, so that an interval is a difference of two entries;
no clock is ahead of Redis by more than `MaxSkew`.

### The gateway

One action per stretch of `handleQuery` between two waits: `Receive` (decoding, `query`, `step`,
the header of the token), `ReadKeys`/`FetchKeys`/`StoreKeys`/`RereadKeys` (`getKeySet` and
`refresh`: read under the lock, fetch without it, store under it, read again), `Check` (tenant,
`validate`, limiter), `CacheHit`/`CacheMiss`, `Dispatch`, `OpenObserve`, `AskFallback`,
`Respond` (marshal, cache, answer) and `Reply`. `Tick` is the clock, `Rotate` the issuer
publishing a new key. The limiter is reduced to what `handleQuery` sees of it: nothing,
`ErrRateLimited`, or another error. A query is its text cut at its bars, and so is the name
of a tenant, since `buildCacheKey` joins its parts by bars and a client writes what it likes into
`X-Tenant`; `normalize` is a part of the key and nothing else. A result is the question the backend was asked and the time it was read.

### The translators

`translateLogQL` and `translateTraceQL` do not parse; they cut text at the first operator they find
in it. `QueryTranslator` keeps that: a text is a sequence of symbols (a name, a value, or one of
`{ } , | ! = ~ < > and where from`), `Has`, `Before` and `After` are `strings.Contains` and
`strings.SplitN`, and each turn of a loop is an action (`ReadMatcher`, `ReadFilter`,
`ReadCondition`). `Sanitize` and `Escape` cut quotes off at the ends of names and values (`Trim`); a
quote inside a value is doubled, and SQL reads it as one. `Resolve` and `LookupFails` are the metadata lookup that chooses the table. The
variable `where` is the conditions, joined by AND; `Selected` evaluates them on a row as SQL does,
with NULL for a label the row lacks, and with `Matches` for the patterns: which word matches what is
made of a value is a constant, so that `ILIKE` may ignore case and take `_` and `%` for any text. `Asked` is the reference: the meaning of a query on the structure
(`conds`, `filters`) its text was written from, with no text in it: `|=` asks for the value itself,
`|~` for what matches the regular expression. The two languages are taken to have the same regular
expressions (those of LogQL are RE2's, those of SQL are PostgreSQL's). `LookAlikes` are the
words that `ILIKE` only takes for the value. `Legible` says which values the
cutting survives, `Supported` which queries lose nothing. `Written` says how a text is put
together from its structure: the conditions with a separator between any two (`Tails`, a recursive
function on the positions, so that a query may have any number of them), then the filters.

### The ETL stream

`EtlStream` is one request. The handler asks for logs, metrics and traces in turn (`Ask`), takes
lines (`Scan`) and goes on when an answer has ended (`ScanEnds`); OpenObserve answers, refuses,
sends a line of any kind, ends or cuts; the client may stop reading (`Forward` may take the last
room in the buffers to it, and then nothing can be written), go on (`Resume`) and leave at any time.
`Decoded` is what `encoding/json` makes of a value: a number becomes the nearest float64. `out` is what the
client got, `ending` whether its answer ended as a complete one or was torn down. An action of the
handler is one turn of its loop. `Objects` are the places of the objects it took, and `RelaysInOrder`
says which record each of them is by counting the objects up to it.

### The MCP server

`at` is the statement of `serve` that is next, an index into `Serve`; the order of the statements
matters, for the maps of the registry have no lock. The listener is a goroutine of its own, each
request another. A signal kills the process before `signal.Notify`, and goes to a channel of
capacity one after it. `Ends` is the end of the process, for whatever cause, with the loss
of all requests in flight.

Times in `RateLimiter` and `QueryGateway` count coarse units. Delays on the network are bounded by `MaxDelay`; the
code has such bounds (10 s for a key set, the timeouts of the backends, 2 min for a request).

## 3. Runs

All runs are exhaustive. Deadlock is not checked: each model stops when its bounds are used up.

| Run | Instance | Question |
|---|---|---|
| `contention` | 1 case, 2 goroutines, 2 keys, 7 requests, one of them a creation with a key | Do row, timeline and outbox stay in agreement, histories legal, versions honoured and answers true, under every interleaving, fault and retry? |
| `two_cases` | 2 cases, 2 goroutines, 1 key used for two calls, 5 requests | Are locks, ids and keys kept apart, is every commit a move of the ledger, does every request end? |
| `http_key`, `http_header` | what HTTP clients can send | counterexamples to two statements of the guides (section 6) |
| `outbox` | 2 workers, 3 rows of 2 cases, batches of 2, 1 failure, 1 broken connection | Exclusive batches, marking after hand-over, duplicates only after failures, every row announced; the refinement of `EventBus` |
| `outbox_loss` | the same | counterexample to at-least-once delivery |
| `ops_agent` | 1 case created and moved, 2 goroutines, 1 worker, 1 failure, 1 broken connection | Is the repository the environment the publisher was specified for? Does the bus hear of committed moves only, in order, and of every move a client was told of? |
| `limiter` | 2 gateways, one clock ahead by 1, scripts late by 1 and run again, burst 2, window 5, 7 instants | What buckets and window guarantee together |
| `gateway` | 2 goroutines, 3 requests of 10 kinds, one with a bar in its tenant, 2 keys, times 0..4, key TTL 2, cache TTL 1, delay 1 | Own answers, fresh answers, verdicts that agree with the issuer |
| `translate` | all texts of up to two conditions over 3 names and 8 values, or of up to two filters; all rows over 2 labels; patterns that match more than their text | Does the SELECT return exactly, or at least, what is asked? |
| `etl_stream` | 3 lines in all of 6 kinds, 1 tenant or none, a client that pauses and leaves | Is what was sent relayed, can an ending be trusted, does the stream end? |
| `mcp` | 2 requests of 13 kinds, signals at any time | Answers from the whole registry, answers across a shutdown, an end after a signal |

Why these bounds are enough to be interesting. Two transactions are what the row lock, the
primary key and the version check have to keep apart; the workloads contain each pair of calls
that meets in one of them (same key and call, same key and other call, same case and version,
same case and no version), and a retry of a call that has a key. Faults are not bounded in
the repository. The publisher's three rows have the ids of two cases interleaved, so a row can
become visible below one already published; a batch of 2 leaves a row over; one failure and one
broken connection are enough for every repeated or lost delivery. The window of 5 is longer than
the lag of 2 and shorter than the 7 instants, so stamps expire and the key of Redis does too; a
bucket gets a token back once. The key TTL of 2 is longer than the delay of 1 (`TTLAssumption`: if
a fetch could last as long as the TTL, an older set could be stored over a newer one again and
again, and TLC finds that `VerdictsFollowIssuer` fails), and the key set as well as
cached answers expire within 4 units. The values of the translators hold every separator and
operator they look for (`1,2`, `1}2`, `1=2`, `1!=2`, `1 and 2`) and a quote at an end (`1'`), and
`ILIKE` takes 2 for 1, as it would `Error` for `error`; two conditions and two filters
are enough for one to swallow its neighbour. Three lines are enough for a fault in one answer
with a record before and after it, or one in each answer. Two requests to the MCP server are
enough for one to be in flight whatever the other does.

The mutants listed in `PROJECT.json` are defined beside the definition they change: each is a
plausible slip (a lock or a guard left out, an off-by-one, an error ignored, a write outside the
transaction), and TLC finds the property it is listed with violated.

### Fairness

- `FairSpec`: weak fairness of the fault-free next statement of each goroutine. Go schedules every
  runnable goroutine, and PostgreSQL answers any statement that waits for no lock. No fault is
  ever owed, and no client has to send anything.
- `FairPublisherSpec`, `AgentSpec`: besides, weak fairness of each worker's next call (the ticker
  of `Run` keeps firing) and of the flusher goroutine of the NATS client. That a call is repeated
  until it succeeds rests on the bound on failures.
- `EtlStream!FairSpec`: weak fairness of the handler, whose steps are disabled while a write to a
  client that stopped reading would block. Nobody owes it an answer, a line or room to write, since
  no timeout is set on either side; `ServedStreamEnds` therefore assumes that OpenObserve does not
  leave it waiting for ever and that the client reads again and again, and `LeftStreamEnds` assumes
  nothing.
- `McpServer!FairSpec`: weak fairness of the main goroutine, the listener, the timer of the shutdown, and of
  a request once it was read (the answers are small, and writing one waits for nobody). No client
  has to finish its body: the read timeout is a flag, and 0 turns it off.
- The limiter, the gateway and the translators are checked for safety only.

## 4. Proofs

`CaseRepositoryProofs` proves, for all sets of cases, keys, goroutines and calls and all numbers of
attempts (assumptions: `CaseAssumption`, `KeyAssumption`,
`CallAssumption`, `AttemptsAssumption`, the typing of what reaches the repository):

- `InvAlways`: `Spec => []Inv`;
- its corollaries `TypeCorrect`, `SessionsAreSound`, `RecordsAreAtomic`, `HistoryIsLegal`,
  `VersionsAreHonoured`, `OutboxIsOrdered`, `KeysAreIdempotent`, `AnswersAreTrue`: the
  invariants of the runs `contention` and `two_cases`, each for every instance;
- `CommitsFollowIds`: `RowsCommitInOrder`, the assumption the publisher makes of the repository;
- `RepositoryIsLedger`: `Spec => ImplementsLedger`, the refinement of `CaseLedger`.

The argument. The properties speak of committed rows; none is inductive, because a commit
installs what earlier statements prepared. `SessionInv` says what an open transaction is bound
to: `LocksExclusive` (it alone holds its case row, and the committed row is the one it read),
`SessionsInStep` (what it has done by the time it reaches each statement; from the UPDATE on,
`OneMove`: the row it will commit is one legal move beyond the row it read), `IdsFresh` (its outbox
id is new, and above the rows of its case) and `KeysExclusive` (its key is free and nobody
else's). Each statement keeps these (`LocksStep`, `SessionsStep`, `IdsStep`, `KeysStep`). Only a
commit changes a table (`OnlyCommits`), `CommitEffect` says how, and with `SessionInv` each
property follows for the row added (`AtomicStep`, `LegalStep`, `IfMatchStep`, `OutboxOrderStep`,
`KeyEffectStep`). `ResponsesOnRecord` carries a response from the commit to the answer
(`AnswersStep`). The refinement takes a commit to `Create` or `Move` of the ledger and every
other step to a stutter. `SessionInv` and the properties
themselves are invariants of the two runs, so TLC has seen them hold on small instances;
`ResponsesOnRecord` is in the proof only. A consequence worth knowing: the
`WHERE version = ...` of the UPDATE never fails, for the row is locked; either of the two would
do for safety.

`OutboxPublisherProofs` proves, for any rows, workers, batch size and numbers of failures
(`RowAssumption`: ids are numbers; `LimitAssumption`; `BoundAssumption`):

- `PublisherInvariant` and its corollaries `PublisherTypes`, `BatchesAreExclusive`,
  `NothingMarkedUnsent` and `DuplicatesAreFailures`. What is added to the properties: `BatchInStep` (a
  worker between two flushes holds nothing, and a row it has dealt with is handed over) and
  `CopiesBounded`: the deliveries and the buffered copies of a row are at most the failures so far,
  and one more once it is published or dealt with. The step that matters is `Publish`, where a row gains a
  copy and becomes dealt with at once; a rollback undoes the second and costs a failure.
- `PublisherIsBus`: each call of `flush` is a step of `EventBus` or a stutter; in flight is the number of
  copies in all buffers.
- `OneWorkerKeepsOrder`: if there is one worker (`OneWorker`), first deliveries come in the order of
  a case. `OrderInv` says that row `s` is nowhere (batch, buffer, bus) ahead of row `r` of the same
  case with a smaller id, unless `r` was lost. It rests on `ORDER BY id LIMIT n` being closed
  downwards (`FirstIdsBelow`) and on `RowCommitted`: no row appears below one of its case.

`OpsAgentProofs` composes the two. `AgentIsRepository`: a step of a worker is a stutter of the
repository. `PublisherIsAlone`: a step of the repository is a stutter of the publisher, or a commit, and
`IdsFresh` of the repository's `Inv` makes that a `RowCommitted`. So every theorem about either
part holds of the whole (`AgentKeepsBothPromises`: the ledger and the bus at once). From there:

- `OnlyMovesAreAnnounced`: what is on the bus is a row (`PublisherTypes`), and that row's move is in
  the timeline (`RecordsAreAtomic`, `OutboxIsOrdered`);
- `MovesAreInOrder`: `MovesAnnouncedInOrder`, for one worker;
- `PublisherIsServed`: `ServesPublisher`, if ids do not run out (`IdsSuffice`: all positive numbers are
  in `RowId`, the set that says which ids the environment of `OutboxPublisher` may draw; a run gives it
  as many as there are requests).

`RateLimiterProofs` proves, for any rate, burst, window, delays and skews (`TimeAssumption`: they are
natural numbers; `GatewayAssumption`: a clock is at most `MaxSkew` ahead):

- `LimiterInvariant`, `LimiterTypes`;
- `BucketsKeepTheQuota`: `LocalQuota`, from `Frugal`: the credit now and the cost of what
  has passed since any time `a` are together at most a full bucket and the time since `a`. A refill adds
  as much to both sides, or fills the bucket;
- `RefusalsAreOwn`: `RefusedForOwnUse`; for the bucket from `Generous`, the converse bound since the
  bucket was last full, for Redis from `Owned`: the sorted set holds nobody else's stamps and none of a
  refused request;
- `WindowKeepsTheQuota`: `SharedQuota`, from `Kept`: an admitted stamp is in the sorted set until it is
  older than a window on every clock, and the key does not expire before. It is the script that admits
  one more that has to see all the others, and `InTime` bounds how late it may run.

`EtlStreamProofs` proves, for any objects and any number of lines (`KindsAssumption`: the three kinds of
lines that are no objects are different from each other and from objects): `EtlInvariant`,
`EtlTypes`, `NothingIsSkipped`, `FailuresEndTheStream` and `RecordsInOrder`. The invariant says what is
left at each place of the loop: types to come are `Untouched`, types behind are `DealtWith` for a
client that stays, a failed type is the last one (`FailedLast`). `OrderInv` adds the order:
the object that `Scan` takes is the last of all objects (`NewObjectIsLast`), hence the next record.

`QueryGatewayProofs` proves, for any requests, goroutines, TTLs and delays: `GatewayInvariant`,
`GatewayTypes`, and

- `AnswersAreOwn`: `AnswersOwnQuery`. The cache key joins its parts by bars and is not injective. The property says two things. An answer is always the result of a request with the same key. And
  between plain tenants (`Plain`: one part, not named like a time, a step or `normalize=true`) it is
  the result of the own query: the lemma `KeysTellApart` shows that two requests of plain tenants that pass
  `Check` and share a key ask the backend the same, for reading from the end, the tenant is the first
  part that is no such mark, and ahead of it the text of the query is left whole, its own bars included. That tenants
  are plain is a condition in the property and no assumption: the module has the others too, and
  `TextAssumption` is only about how times are written (different ones differently, none like a step);
- `AnswersStayFresh`: `AnswersFresh`, from `Young`: an entry expires within a TTL and a delay of its result;
- `VerdictsAreIssued`: `VerdictsFollowIssuer`, from `KeySetTrue`: the cached key was the issuer's within a
  delay of the time that is noted with it. A set that was just fetched is used whatever its age, so
  this needs `TTLAssumption`.

`McpServerProofs` proves, for any number of clients and whatever they ask, `WholeRegistry`:
`Spec => []AnswersFromWholeRegistry`. The property speaks of answers; what makes it inductive is where
`serve` stands: a map is complete once its loop is over (`RegistryFilled`), and a listener, hence a
request, exists only after both loops (`ListensLast`). So a handler reads complete maps, and no
statement writes to them while an answer exists. It rests on no assumption about the constants.

`QueryTranslatorProofs` proves, for queries with any number of conditions and filters over any names,
values, streams and patterns (`SymbolAssumption`: no name and no plain value is one of the symbols the
translators look for; `MatchAssumption`: what `ILIKE` makes of a value matches the value itself, so no
value holds a backslash, its escape; `QueryAssumption`: a text is refused, or `Written` from the conditions and
filters it comes with):

- `TranslatedSoFar`: `TranslatorInvariant`, the inductive invariant. Neither property says anything
  before the end; what connects the loops with the structure is `Translates(q, r, p, w, j, g)`: the
  conditions before the `j`-th are in `w`, and the filters before the `g`-th if all have their bar,
  nothing else is in `w`, `r` is the text of the conditions from the `j`-th on and `p` that of the
  filters from the `g`-th on;
- `SelectsNoOther` and `SelectsEverythingAsked`: `SelectsOnlyWhatIsAsked` and `SelectsAllThatIsAsked`.

The argument. A legible condition has no separator in its text (`LegibleText`), so the next part of the
text is exactly the next condition (`CondTailsStep`, `SplitAt`), and no closing brace, so the selector
ends where it was closed (`OpenedSelector`). Inside a condition the first operator that is found is the
one that was written (`MatcherOf`, `TraceConditionOf`): this is where the order in which the code looks
for `!=`, `=`, `>` and `<`, and the exclusions in `Legible`, are used. A match of the regular
expression begins at a bar, and the only bars are those of the filters; the first one with its bar is
therefore the next match, whole, and filters without theirs are passed over (`MatchFirst`,
`NextFilter`). When nothing is left to read, every condition was read and, if all filters
have their bar, every filter (`FinishedReading`). What is then left is SQL: the condition that a
condition or filter became holds of a row just when what it was made from does, provided the row
has the label (`ConditionMeans`) and no word that `ILIKE` takes for the value (`FilterConditionMeans`); `FieldPresent` shows that only a `!=` can ask
for a row without it. The recursive function `Tails` is shown to exist by the least place at which
computing it could fail (`LeastNatural`, from the least element of a well-founded order), since
the induction theorems of the library cannot be instantiated.

Only model-checked, because the prover does not reach liveness: `RequestsEnd`, `EveryRowAnnounced`,
`AnsweredMovesAnnounced`, `LeftStreamEnds`, `ServedStreamEnds`, `ReadRequestsAnswered`,
`SignalEndsServer`. Every other property of the runs that must pass is a theorem. The runs
`http_key`, `http_header` and `outbox_loss` have a counterexample each, and nothing to prove.

## 5. What the checks show

The repository is right about what is hard: no interleaving of two requests, no failed statement,
no crash and no lost acknowledgement makes its tables disagree or breaks a promise made with a
200. Its reliance on PostgreSQL is real: the ignored error in `CreateCase` is harmless only
because an aborted transaction commits nothing.

The publisher keeps batches apart and announces every row, but delivery is neither exactly nor at
least once. Order within a case is guaranteed for first deliveries with one worker
only: with two, `SKIP LOCKED` lets the second take the next row of the same case while the first
has not sent its own.

The limiter: per gateway and tenant, never more than a full bucket and what flowed in
(`LocalQuota`). Over all gateways, in a window less the lag of the clocks, requests on at most
`Burst` different milliseconds (`SharedQuota`), which is less than a quota. Note that the
shared limit is the burst *per window*: with the defaults of `config.go`, 20 requests a
minute, whatever `requests_per_second` says.

The gateway: a client only ever gets the result of its own query, if its tenant and that of the
request that filled the cache are plain: one part of the key, and not named like a time, a step or
`normalize=true`. The code does not check names, and takes them from a header if the token has none,
so other tenants may get each other's answers: the query `up` of tenant `t1|<time>` has the key of
the query `up` of tenant `t1` with that time as a lone start. All that holds for them is that keys agree. An answer from the cache
may be as old as the TTL and the longest request (`AnswersFresh`), since the TTL counts from the
end of a request. A key stays good for the TTL and one fetch after it was withdrawn, even
when concurrent refreshes store an older set over a newer one (`VerdictsFollowIssuer`).

The translators are right on a fragment, for texts of any length, and `Supported` says which: matchers with `=` and `!=`, filters
behind a bar, trace conditions with `=`, `!=`, `>` and `<`, and values that hold no separator (comma,
closing brace, ` and `) and, after `=`, no `!=`. A filter without a bar and a matcher with `!~` are
dropped, so more is returned. Outside of it the answer may be wrong both ways: `=~` compares with a
tilde in front of the value, and `>=` asks for an attribute whose name ends in `>`, and finds
nothing. Rows that lack a label are not returned by `!=`, as SQL compares with NULL. Text that is
neither selector nor filter is skipped, and a query of nothing else selects the whole table.
What they read they read as SQL does: `|=` and `|!=` become `ILIKE` and `NOT ILIKE`, which ignore
case and take `_` and `%` for wildcards. So `|= "Error"` also returns lines with `error`, and
`|!= "Error"` leaves them out; the two properties except rows with such a look-alike, and those only.
A quote at an end of a value is cut off with the quotes around it, so such a value is not `Legible`.

The ETL stream relays in order and labels what it relays, and a line that panics is never hidden
behind an ending that looks complete. But only a torn connection can be trusted to mean a
failure: an answer that was refused or cut, a line over 64 KB and an error of a request leave an
ending like any other, after the 200, and the document of a refusal is relayed as a record
(`NothingSkipped` names all of them). After a request that failed nothing of a later type follows
(`FailureEndsStream`). With no timeout on either side a stream ends for certain only when its
client leaves: OpenObserve may keep it waiting, and so may a client that stays and stops reading, for
ever. Numbers are decoded to float64 and written again: an integer over 2^53 may come out as another.

The MCP server answers from the whole registry because it listens last. A request that was read
is answered unless the shutdown takes more than five seconds, the listener fails (`log.Fatalf`), or
the signal comes before `signal.Notify`, which is called when the listener may already answer.

## 6. Where the program and its documents disagree

| Run | The documents say | The code does |
|---|---|---|
| `outbox_loss` | the outbox delivers at least once | commits `published = TRUE` before it flushes the client's buffer, and drops the error of the flush |
| `http_key` | a repeated key returns the first result | puts an empty text into a JSONB column, so that every HTTP call with a key is rolled back at its last statement and answered 500; no result is ever stored |
| `http_header` | `If-Match: W/"<version>"`, 409/412 on mismatch | drops the parse error; an entity tag, and 0, ask for nothing |

Met while modelling, without a run:

- The contract guide lets `PATCH gate_approved` move WAIT_GATE to EXECUTING
  (`Orchestrator-Interaction-Contract-API-Guide.md`); `handlers.go:86` never sets the flags the guard
  asks for, so every approval over HTTP is refused.
- `docs/llm-ops-agent/api.md` says that an incomplete plan is stopped by its guard; `workflow.go:48`
  lets PARKED go to WAIT_GATE by `plan_ready` without one.
- `docs/observe-gateway.md` says that one Redis guarantees a global quota; the script records requests
  by millisecond (`limiter.go:118`), and those of one millisecond count once, so more than the burst may be admitted in a window.
  `SharedQuota` counts milliseconds as the script does, and states what does hold.
- `docs/observe-gateway.md` says that an empty `redis_addr` turns limiting off (the buckets stay on),
  that the fallback is asked on any 4xx or 5xx (on 400, 404 and 501 only), and that there is a
  `GET /health` (there is not).
- `docs/xscopehub-query-gateway.md` gives `duration>200ms` as a condition of a trace query; it becomes
  `duration > 200ms`, unquoted, which is no SQL. `translateTraceQL` finds `where` in the text in lower
  case and cuts the original at that place: letters whose lower case has another length shift it.
- The comment above `oo.Stream` says it reads the records of the tenant; the tenant is not part of the
  request, and what comes back is relabelled. `docs/observe-bridge/test-cases.md` expects a 400 without
  a tenant; the handler accepts that, and a window whose end is before its start.

## 7. What is not modelled

- 400 answers of the case handlers to malformed bodies, and events outside the alphabet, which
  change nothing (an unknown event is refused as an illegal one).
- The pool of connections to PostgreSQL: every goroutine gets one. A pool that is exhausted only
  delays the lookup and `Begin`, since no transaction waits for a second connection.
- The branch of `allowRedis` for a gateway without Redis, and a disabled limiter, are in the module
  but in no run, and so is a gateway without a fallback.
- Authentication and cache switched off; tokens
  refused for anything but their key; the organisation of a tenant.
- In `QueryGateway` a translation only succeeds or fails; what it yields is `QueryTranslator`.
- Audit entries: written with the answer, read by nobody.
- The shutdown of the gateway (ten seconds for requests whose backends are given thirty); it is
  built like that of the MCP server, without the gap before `signal.Notify`.
- The other endpoints of the ETL server, which call stubs that return nil, and the checks its `main`
  makes and logs at start; the agent's pipeline (placeholders).
- The configuration loaders.
- Security of any of this.

## 8. Plan

All components with behaviour are modelled and checked, and every safety property the runs check
is proved for every instance. What could be added: abstract specifications of the gateway's key set
and cache, and their refinement, as there are for the repository and the publisher.
