# BrighTO Router: TLA+ models, checks and proofs

BrighTO Router is an LLM gateway in Rust (tokio, axum, hyper). A request
arrives with an API key and a public model name; the router checks the key,
reserves tokens from a budget, takes a rate slot and a concurrency slot, picks
a backend, forwards the request with retries, streams the answer back, and
settles and records what was used. Configuration and usage live in PostgreSQL;
what a request touches on its way lives in memory, in atomics and concurrent
maps that many tasks work on at once. This directory models those parts in
TLA+, checks them with TLC on small instances, and proves with TLAPS what
matters most for every instance.

Paths below are relative to the repository (`src/route/mod.rs` is the file of
the backend pool).

## 1. The system

| component | state | operations | talks to |
|---|---|---|---|
| budget store `src/budget/mod.rs` | token counters per (scope, id, model, period), team budgets, RPM buckets, a concurrency gauge per key | `reserve`, `commit`, `rollback` (also by drop), `acquire_concurrency`, `sync_teams`, `seed_usage` | called by the handlers and by `CompletionReporter`; fed by the config loop and by the ledger's seeds |
| backend pool `src/route/mod.rs` | per backend: enabled, limits, inflight, circuit, `opened_until`, half-open probe, failures | `acquire_excluding`, lease drop, `note_result`, `sync_backends`, health loop | called by `proxy_forward`; fed by the config loop |
| round-robin counters `src/route/mod.rs` | per model: a block of numbers in two atomics and a refill mutex; a row in PostgreSQL | `next_persistent_counter` | the pool's round-robin policies; other replicas through the row |
| usage ledger `src/ledger/mod.rs` | two bounded channels, a batch, the fallback file and its `.replay` twin, the table `usage_ledger` | `try_record`, the writer loop, flush, append, replay, seeds | called by `CompletionReporter`; PostgreSQL and the local disk |
| proxy `src/proxy/mod.rs` | per request: attempt, exclusions, lease, usage tap, reporter | `proxy_forward` (retry loop, timeouts), body pumps, `finish` or drop of the reporter | pool, budget store, ledger, upstream |
| handlers `src/handlers.rs`, auth `src/auth.rs` | none beyond the request and the snapshot it took | authenticate, read or pass on the body, check the route, reserve, forward | everything above |
| Claude bridge `src/bridge/` | the state of one stream translation | request, response and stream translation, token counting | handlers and proxy |
| config loop `src/config/mod.rs`, `src/main.rs` | the published snapshot, readiness | load by five queries, wire, publish, poll, time out | PostgreSQL; pool, budgets, handlers |
| admin API `src/admin/mod.rs` | the rows of PostgreSQL | create, update, delete, reports; each change ends in `reload_now` | PostgreSQL; snapshot, pool, budgets and the poll loop's `Notify` |
| metrics, wiring, mock upstream, Portal, Python client | counters nobody reads back; tooling | | |

What is hard in it:

* **Atomics under concurrency.** A reservation is a load and a
  compare-and-swap per scope, over several scopes, with rollback in between; a
  circuit is five separate atomics that requests and the health loop update in
  several steps; a counter block is two atomics that are replaced one after
  the other while others read them.
* **Release on every path.** Reservation, concurrency slot and backend lease
  are released by drop, on a dozen early returns, on client disconnects and on
  retries.
* **Stale reads.** The inflight check, the circuit check and the configuration
  a request works with are all older than the step that uses them.
* **Publication without a lock.** The poll loop and every admin call read the
  tables query by query and store pool, budgets and snapshot one after the
  other, in parallel.
* **Cancellation and streams.** The server drops a handler at any await when
  its client leaves; a streamed answer is cut into chunks anywhere, is read by
  two parsers at once, and may stop, fail or fall silent at any byte.
* **Failure.** Lost answers of the database, a database that comes and goes, a
  disk that fails, a process that dies between a rename and a removal.
* **Boundaries.** Caps, a bucket that rounds, channels of fixed capacity,
  midnight, a limit of 0, a clock that is set back.

The properties that make each part correct:

* budgets: a counter is what was seeded, committed and is held, no more and no
  less; concurrent admissions never exceed a cap; the gauge is exact;
* rate limit: time is credited twice only by a failed store, which costs one
  bucket; the retry hint is right to the second;
* counters: no number is handed out twice; every call ends;
* pool: inflight is exact and bounded; a retry goes elsewhere; a request ends;
  a recovered backend returns to service; the probe of a circuit is not lost;
* ledger: no usage is lost silently; the file keeps what it was given until
  the table has it; nothing waits in memory for ever; the file is replayed;
* configuration: a stale or torn snapshot that was published is replaced at
  once, memory converges to the tables, readiness tells the truth;
* admin calls: the rows keep what the proxy relies on, and a call that nobody
  overlapped has done what it says;
* settlement: a reservation is settled once, with one usage row that says what
  the budget was charged, and in the end, unless the request waits for ever
  where the code has no timeout;
* bridge: the client gets a well-formed stream with all of the content; a usage
  the tap can read is the one that is charged; tool calls keep their results.

`PROJECT.json` lists the hazards with their lines and the properties aimed at
them.

## 2. Modules

| module | models | instance | proofs |
|---|---|---|---|
| `BudgetStore` | `RamBudgetStore`: reservation, settlement, gauge, team sync; the callers in `handle_generate` and `CompletionReporter` | `MCBudgetStore` | `BudgetStoreProofs` |
| `RpmBucket` | `RpmBucket::try_take`, `take_rpm` | `MCRpmBucket` | `RpmBucketProofs` |
| `RouteCounter` | `next_persistent_counter`, `CounterBlock`, the row of PostgreSQL | `MCRouteCounter` | `RouteCounterProofs` |
| `BackendPool` | `RamBackendPool`, `BackendLease`, health loop, sync; the retry loop of `proxy_forward` | `MCBackendPool` | `BackendPoolProofs` |
| `Ledger` | `LedgerSink`, `LedgerWriter`, the fallback file and its replay, shutdown | `MCLedger` | `LedgerProofs` |
| `ConfigReload` | `load_snapshot`, `wire_snapshot`, poll loop, `reload_now`, `readyz` | (through `AdminApi`) | (through `AdminApi`) |
| `AdminApi` | the admin calls that change rows, composed with `ConfigReload` | `MCAdminApi` | `AdminApiProofs` |
| `Settlement` | abstract: what a request promises to budgets and ledger | (refined by `Request`) | `RequestProofs` |
| `BridgeRequest` | `anthropic_to_openai`, as operators | (through `Request`) | |
| `BridgeStream` | `SseTranslator`, `message_to_sse`, `build_message`, as operators | (through `Request`) | `BridgeStreamProofs` |
| `Request` | handlers, `authorize_key`, `proxy_forward`, the body pumps, `CompletionReporter`, with the bridge inside | `MCRequest` | `RequestProofs` |

In every module a `pc` says where a task is, an action is what happens between
two points at which another task can interfere (an atomic operation, a lock,
an await), and the `map` of `PROJECT.json` names the lines of each action.

**BudgetStore.** `Begin` is the call of `reserve` and picks the effective
budget and its period; `Load`, `CasRetry`, `CasOk` and `Deny` are the loop of
`reserve_scope`, first for the total and then for the model scope; `TakeRpm`
leaves open whether the bucket has a token (that is `RpmBucket`); the
`Acquire*` actions are `acquire_concurrency`; `Commit` and `Abort` are the two
ends of a request, `SettleScope` and `UndoScope` one round each of their loops;
`Release` is the drop of the guard, in any order with them because the early
returns and the reporter drop the two in different orders. Budgets, teams and
the day change at any time. Two history variables record what was committed
and what was committed beyond its reservation. A missing entry of the usage
map is a counter of 0. The first day of a month is a constant function; the
calendar arithmetic behind it is left out.

**RpmBucket.** `take_rpm` holds the map entry's write lock, so a call is one
step. The clock may go backwards and the limit may change. The result of
the `compare_exchange_weak` on `last_refill_ms` is ignored by the code; it may
fail spuriously, as it does on arm64, for which images are shipped, and `slips`
counts how often it has. `AsSecs` is what the handlers make of the hint: the
`Retry-After` header is the wait rounded down to whole seconds.

**RouteCounter.** The loads, the swap, the query and the two stores are
separate steps; a query may fail before or after it took effect; a caller may
vanish while it waits; a replica may restart and forget its block. A task draws one
number. The module is about one life of a route: when a route is deleted, its
row of `model_route_counters` goes with it (`ON DELETE CASCADE`,
`migrations/0007:21`), and a route of the same name counts from 0 again while
a replica may still hold a block of the old one.

**BackendPool.** `Look` to `CheckRoom` are `candidate_for_backend`, atomic by
atomic; `SecondPass`, `Pick` and `NoCandidate` are the policies, of which only
the set of candidates and the two passes of round robin are kept: any
candidate may be the one picked. `Take` to `Rearm` are `acquire_primary`;
`Respond` and `AfterNote` are the retry loop, with the lease kept or given up
first according to the kind of failure; the `Note*` actions are `note_result`,
one action per store; `HealthCheck` is the loop over local backends. The
`Sync*` actions are `load_snapshot`, `sync_backends` and `upsert_backend`, by
any number of `Syncers` in parallel (the poll loop and the calls of
`reload_now`), none of which takes a lock: each reads the rows (`SyncLoad`),
and some time later disables and removes what its snapshot does not have and
upserts what it has, whatever has become of the rows since. `torn` remembers
the entries that were created while leases of a removed predecessor were
alive. An entry cannot be removed or rewritten while someone reads it
(`Guarding`: the lock of a map entry). The counter is an unsigned number of
`CounterSize` values: `fetch_add` and `fetch_sub` wrap. A `setting` is chosen at
the start: which requests and syncs run, which rows administrators change and
which upstreams fail. A request takes the time once per selection, so an instant may pass
without it noticing (`late`). Limits are constants although a reload may change
them, and a streamed upload that is not retried is one of the outcomes of
`Respond`.

**Ledger.** `Record` is `try_record`; the other actions are the awaits of the
writer: receive, tick, INSERT, write a line, connect, replay a line, finish or
abandon the replay. The answer of an INSERT may be lost. `append_fallback`
does not flush its file, and tokio writes in the background, so `Newline` may
come late. Crashes and disk errors are switched by constants, so that a run
can say what holds without them. `Shutdown` closes the channels and
`RecvClosed` is `flush_remaining`.

**ConfigReload.** A loader is the poll loop or an admin call. Each of the five
queries is a step that copies the table as it is then; each store into pool,
budgets, snapshot, notification and `config_ok_at` is a step of its own.
`LoadFails` is an error or, for the poll loop, its timeout. `notified` is the
one permit that `Notify::notify_one` keeps. Readiness compares two times; the
model keeps which was stored last (two stores in the same millisecond read as
ready, as in the code), and leaves out the age limit, which matters only while
the poll loop is stuck.

**AdminApi.** A call is a task, each SQL statement one step, and when the
database is down the statement fails and the call ends where it is. The
foreign keys (cascade of endpoints, restriction of renames by endpoints and by
the route's counter, which may or may not have a row) are part of the
statements. `Dropped` is what the server does to a call whose client leaves: it
ends at the await it is in, with what it has written, and notifies nobody. The bodies a call may come with (`Call`) are the records serde
parses, and a table of rows is a function (`Config`). A call that is refused
by a check leaves no trace; the outcome `"gone"` is the one refusal that does,
that of a `delete_backend` which has cleaned routes and then finds no backend
row to delete. The usage checks may answer either way. Teams and keys are one row write each; provider
keys are the reference only.

**Request.** `pc` follows one request: `auth`, `read`, `route`, `body`,
`translate`, `rewrite`, `reserve`, `slot` are the handlers; `choose`,
`lookup`, `send`, `respond` are `proxy_forward`; `buffer` reads a response
whole; `next`, `flush` and `last` are a pump, that of the bridge or one of the
two plain ones. The snapshot of the handler and the one `PrepareAttempt` looks
into are any two of `Configs`, so a reload may come between any two steps. The
stores are asked and grant or refuse; their insides are the other modules. An
upstream may do anything; a streamed answer is a sequence of `LineKinds`, cut
into chunks anywhere. The usage tap and the translator understand different
usage lines, as in the code (`TapUsage`, `OwnUsage`): the tap wants `data:` and
both counts, at the root or in a `response` object, the translator one count
that is not 0, also on a bare JSON line. The channel to the client holds its buffer of one and
the message of the sender that waits. `DropHandler` is what the server does at
an await to a client that has left, with the drop of the reporter if there is
one. The answers the code gives for cases its own checks exclude are modelled
as the answer `"dead"`, so that `NoDeadBranch` can say they are excluded.

**BridgeRequest, BridgeStream.** Operators on sequences of messages, blocks,
lines and events. `Accept`, `Seen`, `Said`, `Paired` and `Answered` are the
reference: what an Anthropic client accepts and what the two dialects demand
of tool calls, written without looking at how the translator works. A piece
of a tool call goes to the call of its index, or else of its position in the
chunk, and joins what that call has (`ToolDelta`, `Joined`); the calls become
blocks at the end, in the order of their indexes, up to one that has no name or
no valid arguments (`Finalize`). What
folds over a stream (`Only`, `Feed`, `Reading`) is written as a recursive
function on its length, so that it can be proved about.

## 3. Runs

Passing runs:

| run | instance | shows |
|---|---|---|
| `MCBudgetStore` | 2 requests, a key with its team's budget or its own, a model cap, 2 days, a seed, fair | counters and gauge are exact: no token is lost, forgiven or charged twice by partial reservations, denials, drops, midnight or a reload; races pass neither a cap nor the concurrency limit; every admission ends, and a request that stops running settles |
| `MCRpmBucket` | window of 6 ticks, a second of 2, limits 1 to 4, 18 ticks, 2 failed stores | only a failed store credits time twice, one bucket each; the header is right to the second |
| `MCRouteCounter` | 3 tasks in one replica, 1 in another, blocks of 2, fair | no number twice, blocks disjoint; the proof's invariant holds; every call ends |
| `MCBackendPool` | 1 backend with limits 2 and 1, created, edited, deleted; 3 requests beside 2 parallel syncs, or 2 requests to a failing upstream beside 1 sync | inflight exact and limit respected, except for an entry created while leases of its removed predecessor are alive |
| `MCBackendPoolFair` | 1 request, a local primary that comes and goes, a fallback, health loop, round robin, fair | a retry goes elsewhere; every request ends or gets a response to forward; a backend that is healthy for good gets a closed circuit for good |
| `MCLedger` | 3 events, channels of 1, batches of 2, late newlines, disk errors, crashes, shutdown, fair | only the steps that `LossyStep` names lose an event silently; the files keep their events through everything; nothing stays in memory for ever |
| `MCAdminApi` | 2 calls of 6 kinds on 2 routes and 2 backends, dropped or not, the poll loop | a published stale snapshot is never left to the timer; bridge routes are chat routes; calls that do not overlap take effect |
| `MCAdminApiLive` | 1 call of 11 kinds, dropped or not, a database that comes and goes, fair | memory converges to the tables; readiness follows the database |
| `MCRequest` | 1 request of 5 paths and many conversations, 8 snapshots, 2 backends, streams of up to 3 lines in every cut, fair | the request implements `Settlement` and settles in the end, unless it is in one of the two waits that nothing ends; no dead branch is reached; bridged streams are well formed and complete; a usage the tap understands is charged; tool calls keep their results |

Runs that exhibit a disagreement between the code and what it says of itself:

| run | property | what happens |
|---|---|---|
| `MCBackendPoolAbort` | `ProbeNotLost` | the client of the half-open probe request leaves: nobody returns the probe, and no later request can ever select the backend |
| `MCLedgerDisk` | `Accounted` | an error of the fallback file ends the writer or clears the batch, and no counter moves |
| `MCLedgerReplay` | `FallbackReplayed` | only a reconnect replays: a failed replay, or an overflow event while connected, waits for the next outage |

The quotations behind them are in the `findings` of `PROJECT.json`.
`LocalRecovers` shows how far the first one reaches: a local backend gets out
of a lost probe by its health check; a cloud backend, which the loop skips,
does not.

Other behaviours of the models that a reviewer of the code may want to know:

* the three stores that open a circuit are not one step: a probe that another
  request arms in between is cleared by the last of them (`route/mod.rs:706`),
  with the same effect as above;
* a circuit re-opened by a late failure can be armed again while the first
  probe is still under way, so that two probes wait for the upstream
  (`route/mod.rs:455`);
* `sync_backends` may remove an entry that has been leased since it was found
  idle (`route/mod.rs:306`), and a parallel sync with an older snapshot then
  creates it again with a counter of 0, although the comment above it says the
  test of `inflight` avoids the race with the drop of a lease
  (`route/mod.rs:293`). The old leases count the new entry down. TLC finds the
  limit exceeded in 24 steps, and in 35 the counter wraps below 0 (a lease
  drop takes the slot of an increment that is then undone by `fetch_sub`),
  which shuts the backend off if it has a limit. `InflightExact` and
  `MaxRespected` exempt exactly these entries (`torn`);
* the `Retry-After` header is rounded down, so a client that obeys it may come
  up to a second early, and above 60 requests per minute it is told 0
  (`handlers.rs:820`);
* tool calls without an index that come in separate chunks are merged into one
  (`bridge/stream.rs:391-397`); `ContentKept` counts calls by index;
* a usage line with one count only, or without `data:`, is told to a bridged
  client and not booked: the row is an estimate (`proxy/mod.rs:478-485`,
  `bridge/stream.rs:188-194`);
* a crash during a replay leaves `*.replay`, and the next replay renames a
  newer file over it (`ledger/mod.rs:274`): the one step `FilesKept` exempts;
* an event written before the newline of the last one shares its line, and a
  replay stops there (`ledger/mod.rs:264`);
* a shutdown does not drain the overflow channel (`ledger/mod.rs:176`), and
  `main` does not wait for the writer;
* after an admin call has been answered, the poll loop may publish a snapshot
  it read before, so a client of the admin API may see its change vanish until
  the notified reload; `StaleIsNotified` says that reload is always due;
* two calls of `delete_backend` for the same backend may overlap with a
  `toggle_route` that enables one of the routes again: the second delete takes
  its stale list of routes, disables the route, finds the backend row gone and
  answers 404 without `reload_now` (`admin/mod.rs:1377-1412`), so the router
  serves the route until the poll timer. Two calls cannot do this, so the runs
  did not meet it; the proof of `StaleIsNotified` failed on it, a run with
  three calls confirmed it, and the property now exempts that outcome;
* calls that overlap may leave a route with a deleted backend, and
  `update_backend` may change the format under a bridge route; the proxy
  refuses such an attempt, and gives up without trying the other backends;
* a buffered response is read without a timeout (`proxy/mod.rs:1002`, `1017`
  and `1238`), and a pump waits for a client that stays and does not read: with
  a patient client such a request keeps reservation, slot and lease for ever;
* the end of an upstream's stream without `[DONE]` counts as the end of the
  message, and the plain pumps end the client's body cleanly when the upstream
  breaks off.

**Bounds.** Two requests are enough for every pairwise race of a load and a
swap; for more of them there is the proof. `MCBudgetStore` has one key, one
team and one model. Estimates of 0 and 1 against a monthly cap of 2, of which
the seed has used 1, and a model cap of 1 let one reservation fit, the second
fail on its first or on its second scope; completions of up to 2 overrun both
caps. The key comes with its team's budget and limits of 1, or, after a
reload, with its own budget and no limits.
Two days put a midnight between reservation and settlement. Blocks of
two numbers make tasks meet an exhausted block and a concurrent refill. A
window of six ticks and limits of up to four make both divisions of the bucket
round and not round, a second of two ticks rounds the hint again, and two
failed stores add up. A limit of one and two requests makes the increment that
is undone happen; a third request and a second sync are what it takes to remove
an entry in use, create it again and exceed its limit. `CounterSize` is larger
than what the requests can add up to. Two backends are what one retry needs, a
third would only repeat it. Channels of
one and batches of two reach full channels, full batches and batches flushed by
the timer. `MaxDay`, `MaxTime`, `MaxSlips`, `MaxEst`, `MaxActual` and `MaxCap` are the only
bounds in guards; the database value, the drawn numbers and the counters are
bounded by the number of tasks. Three lines (`MaxLines`) are a block, another
kind of block or a tool call in pieces (of two calls, one of which comes in
halves or is replaced), and what ends them, in every cut; chunks bring up to
two complete lines and the beginning of one. Two overlapping calls (one
of each task's set, `Calls`) and the poll loop give every pair of loads of which one
is stale; the outage run has one call and all its kinds. What is proved needs
none of these bounds.

**Fairness.** Weak fairness of every task's step: tokio polls every task that
is ready. A request that waits for the first byte of an upstream, for the next
piece of a stream or for the database is ended by first-byte and idle timeouts
and the pool's acquire timeout, so such a step is one that eventually happens.
Nothing ends a request whose answer is buffered: `BudgetStore` assumes nothing
of a request that is running, `BackendPool` nothing of one that forwards its
response. The start of a request, clients
leaving, reloads, crashes, the database and the upstreams are not fair. Strong
fairness is assumed only of the branches of the writer's `select!`, which polls
its branches in random order. For `Request`: its task runs and its timers
fire, and the server drops the handler of a client that has left; nothing is
asked of the upstream or of the client, so `EventuallySettles` names the two
waits (`Stalled`) in which a request can stay for ever. Deadlock is checked in every run; environment actions keep most instances from stopping,
so the liveness properties are what rules out waiting for ever.

## 4. Proofs

The eight proof modules hold for every value of the constants under the
named assumptions of the modules they extend:

| proofs | assumptions | what they say |
|---|---|---|
| `BudgetStoreProofs` | `BudgetStoreAssumptions` | types, finitely many requests, a `None` that is no number |
| `RouteCounterProofs` | `RouteCounterAssumptions` | a block of at least one number |
| `RpmBucketProofs` | `RpmBucketAssumptions` | a positive window, a positive second and positive limits |
| `BackendPoolProofs` | `BackendPoolAssumptions` | finitely many requests, the health loop is none of them, limits are numbers, at least one primary backend, a counter that can count twice the tasks |
| `LedgerProofs` | `LedgerAssumptions` | finitely many events, channels and batches of at least one, a torn line is no event |
| `AdminApiProofs` | `ReloadAssumptions`, `AdminAssumptions` | finitely many calls, a missing row is no row, the router starts on well-formed tables whose bridge routes are chat routes, calls have the shapes serde parses |
| `RequestProofs`, `BridgeStreamProofs` | `RequestAssumptions`, `RouteAssumptions`, `BridgeAssumptions` | a `None` that is no row, answer, line or open block; a tool line carries a piece of a tool call; documents are sequences of parts; the backends a route names come from the set of names (the snapshot need not know them) |

TLC checked each inductive invariant on the instances of the runs before it
was proved; that of `AdminApi` on three overlapping calls too.

* **BudgetStore.** `Bookkeeping` strengthens the type invariant with what a
  request owns at each point: nothing before it started, the total scope while
  it works on the model scope, a guard only from the moment it runs. It is
  needed because a reservation adds a counter to a set: without it the counter
  might be in the set already and be held once for two reservations.
  `Conservation` then counts: `Held(u)` has one element per token in reserve,
  a reservation adds `est` elements, a settlement removes them, and as all of
  them are in the counter the saturating subtraction does not saturate.
  `AdmissionBound` follows since the swap succeeds only on the value that was
  checked against the limit, and every limit is a configured cap; commits move
  the counter by what `over` records. `GaugeExact` and `ConcurrencyBound` are
  one invariant, as the limit is tested against a gauge that counts exactly.
* **RouteCounter.** `Ownership` says who owns which numbers: only the mutex
  holder refills, the old block is used up from its recheck on, a block being
  published lies above everything the replica published before and overlaps no
  other, a number drawn lies outside every block. It is needed because between
  the two stores of a refill `next` and `end` belong to different blocks, and
  a task may still hold a value of the block before. `UniqueNumbers` and
  `BlocksDisjoint` are conjuncts.
* **RpmBucket.** `RateBound` is inductive with the type invariant; its step
  rests on two lemmas about rounding (what accrues is at most the elapsed time
  times the limit; products are monotone), which the provers need spelled out.
  Where the refill time is not stored the cap of the bucket takes the place of
  that argument: whatever is credited again, the bucket holds no more than the
  largest limit. `RetryHint` compares three divisions: when a token is there at
  the latest (`OneTickMore`), at the earliest (`NoTickLess`), and what rounding
  to seconds takes away.
* **BackendPool.** `InflightExact` counts leases and increments under way, so
  its proof needs to know what each task owns where: a task leases only what
  it has not excluded, and excludes what it leases (`Fresh`), it holds at most
  one lease besides the attempt under way (`Owned`), and an entry stays while a
  task holds a guard of it (`Guarded`). Without `Fresh` a second lease of the
  same backend would move the counter and not the set of leases. Every step is
  then shown either to leave leases and counters alone (`QuietStep`), or to
  take or return one slot. Of the syncs nothing has to be known: whichever of
  them creates an entry, at whatever time, it finds no lease of it, and 0 is
  exact, or the entry is torn. An exact counter is below the number of tasks
  and does not wrap (`FewSlots`). `MaxRespected` follows as the increment is
  checked against a counter that is exact; `RetriesElsewhere` is `Fresh` and
  `Owned`.
* **Ledger.** `NoSilentLoss` and `FilesKept` are about steps, and the steps
  that throw something away are safe only because of an earlier one: a batch
  is cleared because each of its events is in the file or still to be appended
  (`Batching`), and a replayed file is removed because the lines before the
  position of the replay are in the table, and may get its name back because
  no other file has taken it (`Replaying`). Both are invariants only together
  with the types. Files are sequences of lines, so the lemmas say what
  appending, joining and removing lines does to the events in a file.
* **AdminApi** (with `ConfigReload`). `Typed` says, for each statement of a
  call, which operations get there and what they have validated, and for each
  loader which tables it has read; `BridgeRoutesChat` follows since every row
  that is written was validated with the flag it is written with, however old
  the row was from which the flag was kept. `Told` is what makes
  `StaleIsNotified` inductive: while the view of the poll loop is not that of
  the tables, the permit is set, or a call that has yet to notify is under way
  (`Owed`), or a call has failed or was dropped, or the last poll has failed. `Serial` says what a call
  nobody overlaps has achieved at each statement: which routes are already
  clean, which backends already enabled. Each statement of a call is proved to
  do what `Summary` says of it, and the invariant is derived from `Summary`
  once; the steps of the loaders are proved next to it.
* **Request.** `RequestSettlesOnce` is the refinement: `Request` implements
  `Settlement`, for all requests, snapshots, upstream answers and lengths of
  streams. The invariant `Books` ties what the request owns to where its task
  is: nothing up to the reservation, reservation and slot from there to the
  end, nothing afterwards, no row before the end. Without it a `Return` might
  drop a reservation that was committed already. Each end is then shown to be
  one `RollBack` or one `Commit`, and every other step to leave the books
  alone. `NoDeadBranchHolds` rests on `Uploads`: a body that is passed on
  belongs to a request that does not stream, the snapshot the handler still
  holds allows it, and once it is gone no step that needs it can follow.

  `RequestTypeOK` needs `Types`: which of the request's records exist at which
  point, and that the pump goes on with a full channel only if nobody reads
  it, so that the channel of one never holds more than its buffer and the
  message of its one sender.
* **The stream of the bridge.** `StreamWellFormed`, `ContentKept` and
  `UsageCounted` compare folds over streams of any length, so their proof is an
  induction. The library's induction theorems cannot be used here (they take a
  predicate as a parameter); `NatSetInduction` states induction for a *set* of
  numbers and is proved from the library's pigeonhole theorem: if the set
  leaves out x, the predecessor maps the numbers up to x that it leaves out
  one to one into themselves without x, which are fewer. From it come
  `LeastNumber` and `RunExists`: the function that a fold defines exists and
  obeys its equation. `Accept`, the client, is then followed event by event
  (the `Tell` lemmas, one per kind of event), and each method of the
  translator is shown to take a client from one point to another. The state of
  a translator against the lines it has read is `Heard`: it goes on, with an
  open block that the client sees open, with all words so far delivered, and
  with the pieces of the tool calls under exactly the indexes that occurred; or it has failed, and the client has its
  error; or it has stopped, with all that was said before `[DONE]`. `Over` is
  the same for one that has read all there is. `ProcessLineHeard`,
  `FeedHeard` and `FinishHeard` carry it through a line, a chunk and the end
  with its line without a newline, `MessageAccepted` does it for the answer of
  an upstream that did not stream. `Streams` in `RequestProofs` says which of
  them holds where: `Heard` while the pump runs, `Over` once it has flushed
  the last events, and for a request that has ended, one or the other with
  what the row says of it. The usage tap is in it too: it has seen a usage if
  and only if a complete line so far had one it understands, and the row says
  so of all that was read, the line without a newline included, whatever the
  translator had made of it (`UsageCounted`).

**Only model-checked:** the liveness properties (`EventuallySettles`,
`EveryRequestSettles`, `Delivered`, `EveryCallEnds`, `LocalRecovers`,
`RequestsEnd`, `Converges`, `ReadinessFollows`), as fairness is beyond the
prover; and `ToolCallsAnswered`, an action property about conversations of any
length whose proof is planned. The properties of the three violation runs are
false of the code.

## 5. Not modelled

* Data handling without interacting state: headers and URLs, the scanning and
  rewriting of JSON and multipart bytes, sampling parameters and tool schemas
  of the bridge, token estimates, decoding of rows, SQL reports, login, the
  tests of providers, TLS and environment variables.
* Metrics, which nothing reads back; the mock upstream, the Portal pages, the
  Python client and the scripts, which are outside the process.
* Which of several candidates a policy picks: a score over the same state that
  leaves the properties as they are.
* Seeding at start (`load_usage_seeds`) is a constant of `BudgetStore`; the
  calendar behind `period_start` is a constant function.
* Provider key files: `validate_route` writes one before later checks may
  refuse the route.
* Of a tool call, its id and what its arguments say: the model keeps whether it
  has a name and whether the arguments become JSON.
* The cascade that deletes the counter row of a deleted route (see
  `RouteCounter` above): the same round-robin numbers may be drawn again for a
  route of the same name, which shifts the rotation and nothing else.
* Other replicas, except for the counters: they learn of a change by their own
  poll only.

## 6. Plan

What is left to prove is `ToolCallsAnswered`: that the conversion of a
conversation in which every tool call has its result is one that OpenAI
accepts. It needs the operators of `BridgeRequest` that select and flatten
sequences written as recursive functions, like those of `BridgeStream`, and
the same induction, from `BridgeStreamProofs`.
