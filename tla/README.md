# CPA Usage Keeper: specification, model checking and proofs

CPA Usage Keeper pulls usage messages from a CPA instance (a Redis list, a
Redis channel or an HTTP queue), stores them in SQLite, aggregates them and
serves them to a web page. The Go process under `internal/` is one program with
a dozen background goroutines that share two database pools and a few in-memory
queues. This directory specifies it in TLA+, model-checks the specifications on
small instances with TLC and proves the central theorems with TLAPS for all
values of the constants.

## 1. Inventory

| component (under `internal/`) | state | operations | module |
|---|---|---|---|
| Ingest runner `poller/redis_ingest_runner.go` | active source, last error, retry clock | subscribe, back-fill, receive, destructive pull, degraded polling, probe | `RedisIngest` |
| Inbox writer `poller/redis_inbox_writer.go` | none | take out control messages, pass them on, store the rest | `RedisIngest`, `MetadataFreshness` |
| Usage inbox `repository/redis_usage_inbox.go`, processor `poller/redis_process_runner.go`, `service/sync.go` | table `redis_usage_inboxes`, the batch in hand | insert, list, decode, commit, charge failures, discard, clean up | `UsageInbox` |
| Token processor `service/tokenprocessor/` | none | choose a handler, make counts comparable, reconcile the total | `TokenProcessor` |
| Aggregation runner `poller/usage_aggregation_runner.go` | round, target, turn, identity scan, debounce timer | one page of rollups or one identity batch, retry | `UsageAggregation` |
| Aggregation storage `repository/usage_aggregation_*.go`, archive `usage_event_archive.go` | cursors, totals, hot and archived events | apply a page, advance a cursor, move events | `UsageAggregation` |
| Metadata scheduler `app/metadata_sync.go` | two one-slot channels, mode, timers | connected, refresh, periodic, debounce | `MetadataPromise`, `MetadataScheduler`, `MetadataFreshness` |
| Recent-event cache `repository/usage_recent_event_cache.go` | bounded queue, window of events, string pool, health buckets | offer, drop, append, prune, close, reload, query | `RecentUsage` |
| Quota service `quota/refresh.go`, `auto_refresh.go`, `inspection.go`, `service.go` | task per credential, worker tokens, inspection round | refresh, automatic round, inspect, expire, stop | `QuotaRefresh` |
| Header snapshots `quota/header_cache_worker.go` | bounded map, two workers, quota cache | append, merge, evict, flush, stop | `HeaderSnapshots` |
| Codex quota history `quota/codex_quota_history_*.go`, `repository/codex_quota_*.go` | two queues, memory of the runner, cycles and segments | append, take, merge, defer, write, page | `QuotaHistory`, `QuotaEfficiency` |
| Overview, analysis, quota windows `repository/usage*.go`, `service/usage.go` | none of their own | choose rows, edges and cache; break down | `UsageWindows`, `OverviewQuery`, `AnalysisQuery`, `WindowUsage` |
| Realtime page `repository/usage.go`, `service/usage.go` | none of its own | buckets, sliding sums, percentiles, particles, lists | `RealtimeQuery` |
| Activity grid `activity/`, `repository/usage_activity*.go` | rows per block | aggregate, clean up, fill a grid | `ActivityGrid` |
| Latency statistics `repository/usage_latency*.go` | rows per hour and day with sketch and samples | prepare a page, write it, merge, clean up | `LatencyStats` |
| Event list and export `repository/usage.go`, `api/usage_events.go` | none of its own | page by number, page by cursor, stream | `EventList` |
| Request logs `service/request_log.go`, `api/` | the fetch in flight, download tokens | join, leave, cancel, issue, consume | `RequestLogs` |
| Pricing `service/pricing*.go`, `repository/usage_overview_pricing.go`, `pricing/` | tables, published snapshot | save, replace rules, delete, publish, price a page, preview a synchronisation | `Pricing`, `PricingSync` |
| Backups `app/backup_runner.go`, `backup/` | due time, retries, files | decide, copy, retry, remove | `Backups` |
| Sessions `auth/session.go`, login limiter `auth/login_limiter.go` | sessions in memory and table, windows per source | log in, look up, touch, expire, log out, list; allow, reset | `Sessions`, `LoginLimiter` |
| Ranking `ranking/` | settings, operation, outbox; snapshots per day and month | join, report, reconcile, pause, leave; aggregate, settle, prune | `Ranking`, `LocalRanking` |
| Error-event ingest `poller/redis_error_ingest_runner.go`, `repository/error_events.go` | connection, retry index, events | subscribe, insert, reconnect, page | `ErrorEvents` |
| Metadata sync `service/metadata_sync.go` | identity tables | fetch, map, replace | in `UsageAggregation`, in part |
| Quota providers and normalisation, HTTP API, CPA client, configuration, logging, migrations, benchmarks, web page, start and stop of the process | request-scoped | transport, translation, presentation | none |

How they interact. The ingest runner takes messages from CPA and hands each
batch to the inbox writer, which inserts it into the table of the inbox and
passes control messages on to the metadata scheduler by direct calls. The
processor polls the inbox table, makes token counts comparable, commits usage
events, then calls the aggregation runner, the recent-event cache and the header
worker in memory. The aggregation runner reads the hot event table, moves its
cursors, and gives way to the inbox. The archive deletes hot events that every
cursor has passed. A metadata synchronisation creates identities, which the
aggregation has to count from the beginning. The pages of statistics read the
rows of the aggregation, the events behind its cursor and the cache, and price
them by the published snapshot. Quota refreshes and headers write the same cache
of tasks, and both feed the queues of the quota history. Sessions, ranking,
error events, backups and request logs share nothing with these but the
database. Nothing but the database survives a restart.

Where it is hard, and what makes it correct:

| component | what is hard | what has to hold |
|---|---|---|
| ingest runner | three entries that fail independently; destructive reads before the insert; fallbacks inside fallbacks; a read deadline in the middle of a message | no batch in hand is forgotten, a loss is never silent towards the scheduler, status and announcements follow the entry in use, messages do not stay behind |
| inbox and processor | commit and mark in one transaction, retries one row at a time, deletes under a running batch, kills | each message is counted or dropped, once and for good, and settled in the end |
| aggregation and archive | several cursors over a table from which events are taken away; partial failures of a shared page; lost and merged wake-ups | totals are totals of prefixes; nothing is archived before it was counted; nothing is asleep on work |
| metadata scheduler | one-slot channels, two timers, requests during a synchronisation, mode changes | no request and no connection goes unanswered, polling resumes; a change that CPA announced is seen although messages get lost |
| quota service | one task per credential started by users, rounds and inspections; shutdown that waits for workers that wait for tokens | a result hits the task it was computed for, one round at a time, whatever was started ends |
| quota history | two queues taken by one runner; its memory against a transaction that decides anew; deferred repetitions; failed writes | percentages of a cycle only fall, memory and tables agree, nothing accepted stays behind |
| recent-event cache | a full queue; closing while an append is under way; counted references | a query answers like the table or says that it cannot, and the books balance |
| header snapshots | a map at its limit, a check long before the write it guards | what waits is the newest and will be flushed; a newer refresh is not overwritten |
| pages of statistics | rows of hours and days behind a lagging cursor, edges, a cache that is pruned by another clock, days of unequal length, pages prepared outside of their transaction | each event in the window is counted once, in its place |
| event list | inserts, late ones among them, between two pages | a reader misses nothing that was there |
| pricing | commit and publication are two steps; a page spans several reads | a page costs what its events cost at the prices of one moment |
| request logs | many waiters on one fetch that any of them may leave | the fetch is shared and cancelled only by the last; a token works once |
| sessions, limiter | a lookup in several critical sections against a logout; a table of bounded size that forgets | a revoked token stays revoked; guessing stays slow |
| backups | retries racing with the schedule, restarts | backups keep their distance and retries their number |
| ranking | a remote side that answers late or twice; settings put back from a backup; a process that was away over midnight | both sides agree on what was reported; a month counts each of its days once |

The complete list, line by line, is under "hazards" in PROJECT.json.

## 2. Plan

The order follows the way of a message, because a message that is lost or
counted twice is the worst that can happen to this program; then come the
services beside it.

1. `UsageInbox` with the abstract `UsageLedger`: done, proved.
2. `UsageAggregation` with the abstract `UsageTotals`: done, proved.
3. `RedisIngest`: done, safety proved.
4. `MetadataScheduler` with the abstract `MetadataPromise`: done, proved; and
   `MetadataFreshness`, which composes that promise with `RedisIngest`: done,
   safety proved.
5. `QuotaRefresh`: done, safety proved. `QuotaHistory` with `QuotaEfficiency`:
   done, safety proved.
6. The services that share no state: sessions, limiter, community and local
   ranking, backups, error events, header snapshots, recent-event cache: done,
   proved.
7. The event list: done, proved. The pages of statistics with the aggregated rows
   behind them: done, model-checked.
8. The token processor, request logs with the tokens of downloads: done, proved.
   Pricing and the preview: done, proved.
9. The scanner of `control_message.go`, a function from text to two flags: a
   module of its own with the text as a sequence of tokens. Open.
10. Proofs of `Pricing` and of the preview. Done.
11. Proofs of the pages of statistics, which need an induction over their rows
    each. Open.

Runs are few and wide: one run per component of the way of a message with every
property in it (the aggregation has a second one, because what fails for ever
differs), one run for all services that share no state, one run per disagreement
with a comment or a test. Constants stay at the smallest values at which each
queue is once empty, once partly full and once full. Theorems follow the runs.
Parameters are constants with named assumptions, no module that is proved about
reaches a RECURSIVE operator, and each invariant is a conjunction of named parts.

## 3. The modules and the code

Modules of the way of a message and of the quota service have an MC module of
their own where TLC needs one, or are checked as they are (`RedisIngest`,
`MetadataFreshness`); the services that share no state are put side by side by
`Services` and checked through `MCServices`. Proofs are in modules of their own:
`BackgroundProofs` has those of the services that work in the background,
`ServicesProofs` those of sessions, request logs, downloads, the event list, the
cache of recent events and the prices, and carries all of them over to `Services`.
Definitions
marked `Mutant:` are variants with a plausible mistake; no specification uses
them. PROJECT.json maps every definition to its lines.

### UsageLedger, UsageInbox

`UsageLedger` is the promise: a message is absent, open, then counted or dropped.

`UsageInbox` has one action per database statement or transaction of
`redis_usage_inbox.go` and `service/sync.go`, because that is where other
goroutines and a kill can come in. `status`, `attempts`, `touched` and
`processedAt` are the columns of the table; `counted[r]` stands for the rows in
`usage_events` made from row r; `pc`, `todo`, `valid`, `full`, `retry` and
`fetchedAt` are the locals of the processing round; `sweep` is the clock reading
shared by the two DELETE statements of the daily clean-up. A payload is reduced
to three kinds: it does not decode, it decodes, it decodes but needs a look-up of
the identity. A statement that fails is an action of its own with the effect the
code gives it (a failed mark ends the round, a failed charge is remembered as
"uncertain" and so on). Marking an absent row is a no-op, like the UPDATE.

### UsageTotals, UsageAggregation

`UsageTotals` is the promise: each derived total is the total of a prefix of the
committed events, and the prefix grows.

`UsageAggregation` follows `usage_aggregation_runner.go` statement by statement:
the start-up target (read, then locked), the debounce timer and its freezing of
a target, the choice of the turn, the check of the inbox, the snapshot of the
cursors, the shared page and the fallback of one page per rollup, the conditional
update of a checkpoint, the give-way in the middle, the failure of each part, the
identity scan with its two generations, the back-off that may eat a wake-up.
`agg[r][e]` counts how often event e is in the rows of rollup r, `icount[e]` in
the totals of its identity. The archive is enabled by exactly the gate of the
code; which events have expired is left open, because event times come from the
messages. Processor and metadata sync take part in three steps each: commit,
notify under the lock, signal.

### RedisIngest

`RedisIngest` follows `redis_ingest_runner.go`. `pc` is the place in `Run` and in
the three mode loops, one action per attempt (subscribe, pull, receive) and its
outcome. `queue` and `stream` are messages in CPA's hands, `hand` and `torn` are
in ours, `inbox` and `lost` are their ends. A pull has three outcomes, like
`serialPullAndWrite`: stored, failed, pulled but not stored. What an attempt does
to the status is kept in the operators `RecordState`, `RecordAvailable`,
`RecordWarning` and `RecordError`, and the announcement to the scheduler in
`MarkEstablished` and `MarkUnavailable`, one each for the functions of the same
names. Modelling choices:

- CPA is external. A published message goes to the subscription while one is
  open, otherwise into the queue. An entry that is down answers nothing and takes
  nothing out of the queue; a passing failure may be a lost answer, with the
  batch taken out already.
- `SubState` is a function of `pc`, because each place of the code reports one
  sub-state.
- Delays take no time; that the retry of the better entry is due is the variable
  `due`. `lastWarning`, log levels and the pause after a refused insert are left
  out.
- The window's end is the read deadline of the socket. It may cut a message; then
  the next read either fails, or, when the cut lies between two elements of the
  message, skips the rest. Both are modelled (`Disconnected`, `SkipTorn`).
- Of the control messages only this is left: storing a batch may end the
  scheduler's polling. `MetadataFreshness` says which.

### MetadataScheduler

`MetadataScheduler` follows `Run` of `app/metadata_sync.go` and the functions the
ingest side calls. Each case of the select is an action; a branch that takes a
lock or calls the synchronisation has further steps. Time is reduced to two facts:
whether the last refresh request is younger than the debounce window (`recent`),
and whether a timer has fired. A debounce timer armed before the last request is
"stale" and may fire while the window is open; one armed after it may not.
`owed` and `reconnected` are history variables: what no synchronisation has
answered yet. A synchronisation answers when it begins, whether it succeeds or
not. Shutdown is left out.

`MetadataPromise` is what those who call the scheduler may count on: after a
connection or a request a synchronisation begins, in polling mode ticks do the
same, and until it begins nobody has to ask again. The refinement maps `asked` to
all places where a call may rest: the two channels, the sender between its two
halves, the timer, and the branches of `Run` on the way to a synchronisation.

### MetadataFreshness

CPA announces a change of its metadata by a message among the usage messages.
`MetadataFreshness` extends `RedisIngest`: each step of the runner goes with the
calls it makes to the scheduler. Which messages the inbox writer was given in a
step follows from what was stored or refused (`GivenToWriter`); its requests are
made before the rest of the batch is stored, so a refused insert makes them all
the same. The scheduler itself is replaced by `MetadataPromise`, which
`MetadataScheduler` is proved to implement. `unseen` holds the announced changes
that no synchronisation has begun after. A change whose announcement is lost
beside a connection that goes on (`overlooked`) is seen by polling, which the loss
itself starts; a later `support_refresh` may end it before the next tick, and then
the change waits for the next announcement or connection. `ChangesAreSeen` makes
this one exception and no other.

### QuotaRefresh

One action per critical section of `refreshMu` and per channel operation. A slot
is a handler (`RefreshTask`, an inspection, an automatic round) and afterwards
the dispatcher goroutine it starts; `todo`, `hand`, `queued` and `adopted` are its
locals, `worker[w]` the goroutine that holds token w. `task` is the shared map.
`lifecycle` follows the stop: the context is cancelled, then the group is closed,
then everything has been waited for. An inspection clears settled tasks, resets
the round, lists, queues and records the round in separate critical sections, as
`inspection.go` does, so that a poll may come in anywhere. `abandoned` is a
history variable for tasks queued by a request that then ended in an error.

### QuotaHistory, QuotaEfficiency

`QuotaHistory` has the two queues with their one-slot notifications, the runner
with its places between the two looks at the queues, its memory (`current`,
`stable`) and the tables (`cycles`, each with its segments). What the transaction
accepts (`Apply`, `Segments`, `CycleOf`, ...) and what the runner believes
it has accepted (`Change`, `Repeat`, `Merge`) are separate operators because they
are separate code: `repository/codex_quota_history.go` and
`codex_quota_history_scheduler.go`.

A header enters a full queue in three channel operations: a send that fails
(`FindFull`), the drop of the oldest input (`DropHead`), a second send
(`SendAgain`). The producer holds the mutex, so no other producer, stop or count
comes in between (`Free`); the runner, which receives without it, may. It then
sees one input less than it has counted until the second send, and the oldest
input is dropped even when the runner has just made room.

A write stores its observations in transactions of 32 and may stop after any of
them. The list of a write goes role by role (`Rank`) and rows of other accounts
may lie before, so what is stored when it stops is any prefix of the list
(`Cuts`); whether the caller sees an error is `failed`, which may also be so when
all was stored. After an error the runner forgets all it knew of the roles it
wrote, deferred repetitions included, and a recovery reads the tables again.
`split` is a history variable: the times up to which a role was stored by a write
that stopped within its observations.

`QuotaEfficiency` is the page
of `repository/codex_quota_efficiency.go` over the cycles that `QuotaHistory` has
produced: it cuts each cycle where the next begins and assigns events to falls.

### Services

The modules below share no variable, neither with each other nor with the way of
a message. `Services` puts them side by side: a behaviour shows one of them,
chosen in its first state, while the others rest. So a single run explores each
of them exhaustively, at the cost of the sum and not of the product.

- `Sessions`: a request is a small state machine over the critical sections of
  `session.go` (read the cache, load from the table, touch, check the key, log
  out); between them its candidate session is a stale copy. The goroutine that
  writes activities works on what it has taken out of the map.
- `LoginLimiter`: windows per source in a bounded table and one for everybody;
  `admitted` and `failures` are history variables.
- `Backups`: time in slots of a day; `Decide` is the computation of the next due
  time from memory and the files. When the directory or one of the files cannot
  be read (`listed` is false) only the memory counts, which a restart has emptied;
  a backup whose time comes out differently for that is marked `blind`.
- `ErrorEvents`: the runner with its connection and delays, and a reader that
  pages by cursor while events with old timestamps are stored.
- `RecentUsage`: the appender (commit, take a place, send), the receiver
  (receive, give the place back, append and prune), the reference counts of the
  string pool and the health buckets. A close may come between any two of them.
  What a prune keeps, an answer selects or a reload reads are entries of a sequence
  at some places, or rows in an order (`EntriesAt`, `LoadedFrom`).
- `HeaderSnapshots`: the bounded map with its merge and its choice of a victim,
  wake-up and timer, take, look-up, two jobs, each of which checks the cached
  task and merges into it later, and refreshes that queue and settle tasks. A
  header whose limits are for the history only has no rows for the cache; where
  one of two headers has none, the newer replaces the other as a whole.
- `LocalRanking`: one action per transaction of a round; the difference between a
  day's new and old snapshot goes to the month.
- `Ranking`: one operation at a time under its lock, but each remote call is sent,
  delivered and answered in separate steps; it may be lost on either way, or be
  delivered after its caller gave up. Settings may be put back from an old copy.
- `UsageWindows`, `OverviewQuery`, `AnalysisQuery`, `WindowUsage`: the window a
  request asks for (named, rolling, custom) and, for every state of the
  aggregation and the cache, the parts of the sum a page is made of. A result is
  kept as the set of parts [event, from], so that an event counted twice is seen.
- `LatencyStats`: a page of events is merged into rows that were read outside of
  the transaction that writes them. The sketch is kept as its bins.
- `ActivityGrid`: the blocks of the four grains over days of unequal length, with
  the index that is guessed by division and then corrected.
- `RealtimeQuery`: the sliding sums with their warm-up, percentiles, the thinning
  of particles and the lists, over events of the cache.
- `EventList`: a reader going through the pages by cursor or by number, the count
  and the rows in two queries, and events stored in between.
- `RequestLogs`: the fetch in flight with its number of waiters; tokens with one
  use and a time.
- `Pricing`: a change is committed, then published, under one mutex; a page takes
  the snapshot, reads groups of events by the fields the snapshot needs, and
  prices them. Amounts are multiples of a unit; beyond `MaxFinite` a cost is taken
  to be no finite number. A quota window prices the same groups with a rule of
  its own (`PriceOfWindow`): it has no cost when events without a matched model
  report tokens, if only in their total, where a page asks for one of the priced
  counts. `PricingSync` is the preview as a pure function of the
  models in use and the catalogue that was fetched. Which of two candidates comes
  first that differ in nothing but their names is left open there: the offer is
  some candidate that none is before.
- `TokenProcessor`: the five handlers as functions of the reported counts, int64
  reduced to 0..`MaxTokens`, with what negative counts and overflow do.

Facts of the code that the models reproduce and a reader may trip over:

- A window "today" that begins at this very instant is empty; the cache
  is pruned by its own, later reading of the clock
  (`repository/usage.go:1201`), and the realtime page reads it without asking
  whether it covers the page (`usage.go:1490`): its window and warm-up are
  shorter than the cache's 70 minutes.
- Times are compared as text in the database; the format of
  `timeutil/storage.go:13` keeps their order.
- The analysis takes a day of 25 hours for a range of days, and a range of days
  takes in the whole of its first day.
- Listing by page number counts and reads in two queries (`usage.go:70`), so a
  page may be short of what is stored in between; the cursor has no such gap.
- Costs of groups clamp once per group: the cost of a quota window is at most the
  cost of the overview, which is at most the sum over the events
  (`usage_window_stats.go:230`, `usage_overview_pricing.go:51`). They are equal
  when no event reports more cache than input.
- The preview of a price synchronisation drops duplicates by provider and model
  before it looks at prices (`pricing_metadata_sync.go:279`).
- A header is compared with the cache by its latest time, not limit by limit. When
  a later header carried only another limit, an older row of the main limit goes in
  over a newer one of a refresh, against the comments at
  `quota/header_cache_worker.go:635` and `:692`. `RefreshIsNotOverwritten`
  therefore speaks of the snapshot: what replaces a completed refresh is later, and
  has a row that was observed at that time.
- Of two pending headers of an account of which one is for the history only, the
  newer is kept as a whole (`header_cache_worker.go:187`), although the comment at
  `:189` speaks of other providers: limits that only the older one reported are
  lost for the cache.
- The comment at `codex_quota_history_runner.go:336` says that no second input need
  be dropped when the runner has just taken the oldest; the code drops one all the
  same, and the queue is then one short of what it could hold.
- A write of the history that stops between two of its transactions leaves one of
  a response's two windows stored and the other not
  (`repository/codex_quota_history.go:50`). Both are recovered from the tables, and
  the missing one comes with its next observation.
- After a restart, a backup follows at once when the directory cannot be read
  (`app/backup_runner.go:173`), however young the last file is.
- Of events that report tokens in their total only and match no priced model, a
  quota window shows no cost (`repository/usage_window_stats.go:389`), the pages
  show zero.

## 4. What is checked

| run | constants | shows |
|---|---|---|
| `inbox` | 3 rows with four choices of their kinds (`Payloads`), batches of 2, 2 attempts, 1 kill, clock 0..1 | `ExactlyOnce`, `ImplementsLedger`, `PauseBetweenAttempts`, `EverySettled`: events and status column agree whatever is deleted or killed in between; a failing row is not charged twice without a pause, and every row is settled, those behind a full batch of failing ones too |
| `aggregation` | 2 events, pages of 1, 1 identity, 1 kill, identities and two rollups broken | `IdentityExactlyOnce`, `NoLostWakeUp`, `TargetWithinReach`, `ImplementsTotals` |
| `aggregation_live` | 2 events, two rollups broken, 1 kill | `AggregationCatchesUp`: the third rollup and the identities are not starved |
| `ingest` | 2 messages, each of which may announce a change, batches of 2, 2 failures, any entry down, 1 refused insert, 1 kill | `Accounted`, `NoStaleError`, `ConnectionAnnounced`, `ChangesAreSeen`, `LossMeansPolling`, `Collected`: the fallbacks reach every message and every change is seen; the exceptions in `Collected` and `ChangesAreSeen` are needed |
| `scheduler` | 4 requests | `RefreshNotForgotten`, `RequestsAnswered` (requests, connections and polling), `ImplementsPromise` |
| `quota` | 2 credentials, 2 handlers at a time, 1 token, 2 starts, stop at any time | `ResultHitsItsTask`, `OneAutoRound`, `StartedWorkEnds` |
| `history` | 3 of nine observations in any order, queues of 2, 1 crash, three moments of the question | `SegmentsFall`, `HistoryFitsTogether`, `HandOver`, `OnlyTrustedRaises`, `InputsArrive`, `EfficiencyCountsOnce` |
| `services` | one service per behaviour, below | 13 properties, below |
| `ingest_timeout`, `quota_inspection`, `history_followup`, `local_ranking` | smallest instances | disagreements with a comment or a test, below |

The run `services`:

| service | bounds | property |
|---|---|---|
| sessions | 2 tokens, an administrator and a viewer, 2 requests at a time, restarts | `SessionsAgree` |
| limiter | 2 sources, a table for 1, limits 1 and 2, two windows | `GuessingIsBounded` |
| backups | 3 days of 4 slots, intervals below, of and above a day, 1 retry, 1 backup that comes early because the files cannot be listed (`MaxBlindBackups`) | `BackupsKeepSchedule` |
| errors | 3 events with 2 timestamps, pages of 1, 2 delays | `ErrorsAreShown` |
| recent | 2 events, recent or too old, 1 place in the queue, clock 0..3 | `RecentCacheIsHonest` |
| headers | 2 accounts, room for 1, 2 snapshots, of both limits, of one or for the history only | `HeadersArePending`, `RefreshIsNotOverwritten` |
| local ranking | months of 2 days, 5 days, 2 events, crashes | `MonthCountsSettledDaysOnce` |
| ranking | 2 reports, 2 days, 1 call given up, 1 restored copy | `RankingAgrees` |
| statistics, latency, activity, realtime | 2 or 3 events of every age a window distinguishes; days of 3 hours; calendar days of 6, 7 and 8 ticks | `StatisticsAgree` |
| list | 3 events, pages of 1 and 2, a filter | `ListSkipsNothing` |
| logs, downloads | 3 readers, 2 fetches; 2 tokens | `LogsAreShared` |
| pricing, preview, counts | 3 changes, 2 events, every catalogue made of 6 entries; counts 0..3 with 3 as the largest number | `PricesAgree` |

Why the bounds are enough to see the interesting cases. Three rows in
batches of two give a full batch and a partial one with a first row that is
retried, and a row that waits behind a full batch of failing ones and is listed
only when those have used up their attempts; two attempts give a first and a last
one; the clock passes one day, with retention zero, so that both deletes can hit
rows the processor holds. Two events in pages
of one give a shared page, a fallback and a last short page; with one identity
and batches of one, a scan ends in an empty batch. In `ingest` a window can hold
one message, be full, and be cut, and a message can be lost before or after the
one that announces a change. Four refresh
requests are one in the timer, one in the channel, one about to be sent and one
answered. In `quota` a list can fail half-way and a dispatcher waits for the
token that the other one's worker holds. The observations of `history` hold a
fall, a repetition, a trusted correction, a detour through a window of another
length, a new cycle, and reset times that drift within and beyond the tolerance;
three of them fill a queue of two. Queues, maps and tables of the services hold
one entry less than there are claimants, so each is once full. The ticks of the
pages are so few that each event falls on, just before or just after a boundary
of an hour, a day, the cache and the window. What the bounds cut off is covered
by theorems where section 5 names one.

`CHECK_DEADLOCK FALSE` appears where the system may rest: the aggregation runner
waits for a notification, the ingest runner for a message that CPA, bounded, does
not publish, a quota service that has stopped stays so, and the services end at
the bounds of their clocks. The inbox and the scheduler always have a step to
take and are checked for deadlock.

### Fairness

- Inbox: `WF(Process)`, the loop goes on. `SF` of listing, charging and marking:
  the database may refuse a statement, but not the same one for ever. Look-up and
  commit may fail every time.
- Aggregation: `WF` of the goroutines and of the timer. Parts in `Broken` fail as
  often as they like, the others finitely often (`Fault`).
- Ingest, in `Spec` and `FreshnessSpec`: `WF(Runner)` and `WF(RetryDue)`, the
  goroutine and its timer; none for the synchronisations. Nothing is
  assumed of CPA but that an entry which is not down fails finitely often.
- Scheduler: `WF` of goroutines and timers; `SF` of each case of the select,
  because Go picks at random among the cases that are ready.
- Quota: `WF` of each handler, dispatcher and worker and of the stop; `SF` of
  taking a token, because a goroutine that waits in a channel is served in turn.
- History: `WF(Runner)`, and `WF(FinishPush)`: a producer that has found the queue
  full goes on, since none of its channel operations waits.
- The services state no liveness and need no fairness: "is flushed" and "is
  written" are stated there as invariants about who holds what is waiting.

### Disagreements

- `ingest_timeout`: a comment at `redis_ingest_runner.go:371` says the batch is
  made so that no message is lost by a later time-out. The deadline of the window
  applies to the socket and can cut a message in two; `Receive` drops the part it
  has read.
- `quota_inspection`: a comment at `quota/inspection.go:178` says that an
  inspection is completed only when no task of it is active. The second of two
  inspections started at once records its round (`inspection.go:234`) without
  taking back the time of completion that a poll has noted for the first.
- `history_followup`: the test at `quota/test/codex_quota_history_runner_test.go:306`
  says that observations which follow an absolute calibration of the same moment
  go on being merged into the calibrated entry, and expects the segment to end at
  the last of them. Its three headers are in one batch. When the first one was
  written by an earlier batch, the calibration makes a row that begins at the time
  of the stored tail (`codex_quota_history_scheduler.go:321`), the later header is
  merged into it, and the transaction ignores the row as overlapping
  (`repository/codex_quota_history.go:248`): its time and count are lost, while the
  memory goes on from them. The next change or repetition brings both together
  again. This came up when the proof of `HistoryFitsTogether` failed; the property
  now names the case (`Twice`).
- `local_ranking`: the test at `ranking/test/local_service_test.go:242` says of the
  month that a snapshot is not counted twice. Replacing a day takes out of the
  month what the row of the day had counted, but a row that is older than
  yesterday is pruned, settled or not (`ranking/local_service.go:333`). A day
  whose settling is delayed until the day after the next begins is then settled
  without its row and counted a second time.

Observed and without a property: a comment at `redis_ingest_runner.go:783` says
that `SyncRunning` is false only when all entries have failed, but the code looks
at `lastError` alone, which a mere disconnect or a refused insert sets as well; in a rolling range of 4 to 6 days the series
has more than 90 hourly points and is shown by days, but the rates per minute are
computed with the minutes of a day for points that are hours
(`service/usage.go:285`), so they are too small by a factor of 24; an export that
fails after its first bytes ends as a successful answer (`api/usage_events.go:692`).

## 5. What is proved

For all values of the constants that satisfy the named assumptions (numbers are
natural, sizes and limits positive, `Keys` among `Owners`, `Owners` finite). The
bounds that choose inputs, `Payloads` and `Inputs`, may be any sets of the right kind.

- `UsageInboxProofs`: `TypeCorrect`, `CountedExactlyOnce`,
  `InboxImplementsLedger`, `AttemptsAreSpaced`. The inductive invariant `IInv` adds
  to `ExactlyOnce` that a row in the processor's hands is uncounted and retryable
  or deleted (`HeldRows`): without it a commit could count a row twice. For the
  spacing, `PInv` adds that a charged row is out of the hands, and that a round
  with a charged retryable row is bound to pause.
- `UsageAggregationProofs`: `TypeCorrect`, `ArchiveKeepsTarget`,
  `AggregationImplementsTotals`, `IdentitiesExact`, `NeverSleepsOnWork`.
  `RollupsInv` = `TypeOK`, `CountedPrefix` (a rollup has counted exactly the events
  up to its cursor, and all later ones are hot), `Asked` (no target beyond what is
  committed), `PageFollows` (in a turn, the snapshot agrees with the checkpoints and
  the page is the gapless run after them). `CountedPrefix` is not inductive without
  `PageFollows`, and the archive's gate is what keeps its last conjunct. The lemmas
  `MaxOf...`, `FirstOf...` and `Page...` say what a page is. `IdentityInv` adds that
  an event which is neither hot nor counted is older than its identity.
- `RedisIngestProofs`: `TypeCorrect`, `EveryMessageAccounted`, `StatusIsFresh`,
  `UsedMeansAnnounced`, `LossIsNoticed`. `IngestInv` adds that a batch is in hand
  only inside the window and with nothing torn (`WindowClean`), and which source
  and which working entry fit each place of the runner (`Routed`): an error is
  recorded only where no entry is taken to work. `CompositionRunsTheRunner` and
  `ChangesAreNoticed` are about `MetadataFreshness`. `FreshnessInv` adds to
  `IngestInv` that a connection which is used was announced (`ConnectionWorks`),
  that a change not yet seen is in a message that still exists (`UnseenFits`), and
  that one whose message can no longer be fetched has left a request behind, unless
  it was lost beside a connection that went on (`GoneIsNoticed`).
- `MetadataSchedulerProofs`: `TypeCorrect`, `NothingForgotten`,
  `SchedulerImplementsPromise`. `RefreshNotForgotten` is inductive together with
  the types, and the refinement needs no more than them: `asked` is mapped to
  every place a call may rest in, so each step maps to a step of the promise or to
  a stutter without a look at earlier ones.
- `QuotaRefreshProofs`: `TypeCorrect`, `OneAutomaticRound`, `ResultsHit`,
  `NoOrphans`. A task that is queued or runs has exactly one owner, a slot or a
  worker token; which one depends on where the slot's goroutine is, because the
  automatic round keeps its list while it dispatches and a request does not. With
  the owner known, a result cannot hit a later task of the same credential.
  `NoOrphans` says that no queued task is left without one, with the one exception
  the code has: a request that ended in an error between two tasks.
- `QuotaHistoryProofs`: `QueuesHandedOver`. What lies in a queue beyond the length
  that the runner has noted was notified after that, and the batch of the shutdown
  takes all there is, so a runner that ends leaves nothing behind. Between the three
  operations of a producer that found the queue full the runner may count one input
  too many, the one that is about to be sent, and the second send finds room
  whatever was received meanwhile. For this the invariant relates the place of the
  producer to the length of the queue and to what is still to be received.
  `SegmentsKeepFalling` and `TrustedAloneRaises` are about the tables, for any
  inputs, failed and unknown writes and crashes. Segments that fall are not
  inductive by themselves: the correction by a trusted query takes back segments
  and puts a new one last, which is in the order of time only if it is later than
  all that is stored. So `HistoryInv` says of each window that the memory is never
  earlier than the tables (`Known`), that a deferred repetition begins no earlier
  than they end (`DeferredRight`), and that what a batch is going to write is a
  chain, each row beginning when the one before is over (`PendRight`). A deferred
  repetition that a trusted query confirmed is written by the same batch
  (`WindowRight`); otherwise a later batch, without any, could raise a percentage.
  The proof goes from one observation and the segments of its cycle
  (`SegmentsKeep`) to a cycle, to all of them (`ApplyKeeps`), to a transaction
  (`WrittenStored`), and from one observation and the machine in memory
  (`MergeKeeps`) to a batch (`MergedFits`) and its write (`WindowFlushed`).

  `MemoryFitsDatabase` compares the memory with the tables, observation by
  observation. Three more invariants are needed, and all are inductive together
  with `HistoryInv` only. `OnceInv`: an input is in one place once, in a queue, in
  the batch, or gone, so two observations of one moment are two inputs. `FitsInv`:
  for each window the machine fits the tables (`MachineFits`). While reset times
  fall into classes, in which near is an equivalence (no `Drift`), and all cycles
  have one length (not `Mixed`), stored cycles are in one line by time and by reset
  time (`Lined`); what is pending continues them, every entry being what the
  transaction will accept after the ones before (`Follows`); and what the memory
  holds for current agrees with the last of these. Outside of these conditions two
  cycles that were told apart may later be taken for one, and the two sides choose
  differently. `ApartInv`: while one window defers a repetition of some
  moment, the other has nothing of that moment stored, nor in memory unless it is
  deferred too, so what a response showed of both goes into one write. Where a write
  stops between two transactions the roles it wrote are forgotten, and a role whose
  own rows were cut is recovered at a time that `split` names: there, and nowhere
  else, one window may be stored while the other is still deferred. What is stored
  of a write that stops is a state the transaction passes through, so all that is
  shown of a write holds of each of its beginnings. The proof follows the cases of one merge (`Merges`).
  `EachIsCountedOnce` is about the page over these tables, for every history,
  range and moment of the question. The periods that are shown do not meet
  (`Spans`), so the pass of the page finds the one that an event is in; of cycles
  in one line nothing that a stored cycle covers lies between two periods
  (`NothingBetween`); and because segments fall, the points of a cycle are a sum
  that telescopes (`Telescopes`) and the spans of its falls do not meet either. It
  assumes only that times and the range are integers (`EfficiencyAssumption`). That
  each event covered by a stored cycle is shown is claimed for windows of one length
  without drift only: otherwise a cycle that was seen later may begin earlier, end
  the one before it, and leave its events in neither.
- `ServicesProofs` and `BackgroundProofs`, for each service alone and, by
  `ServicesRun...`, beside the others:
  - sessions, `SessionsHoldTogether`: a request names only tokens that were handed
    out (`RequestsTyped`), so what it deletes or touches late is a token that
    existed; memory fits the table token by token, the list follows them, and an
    activity that is not yet written has the one writer that carries it.
  - request logs and downloads, `LogsStayShared`: who waits for a fetch that has not
    ended waits for the one that can still be joined, whose count is the number of
    its waiters; every other fetch has ended or is about to be cancelled. A token
    that can still be used has let nothing through.
  - community ranking, `RankingHoldsTogether`: every report that the center may
    still accept covers whatever the keeper, or the backup of its settings, believes
    to have been received, because numbers grow with what was known when they were
    given; the number that is waited for is the newest; after a reconciliation the
    keeper's number is not behind the center's.
  - backups, `BackupsHoldTogether`: an attempt begins only when every file is an
    interval old, a retry because the attempt before it did (`SpacingFits`); where
    the files could not be listed and the time came out differently, nothing is
    claimed about spacing. The
    number of attempts of a day is a cardinality: it is below the number of retries
    until they are used up, and by then the attempts are one a day, because one at
    four o'clock is among them and drops out when the next begins (`RetriesFit`).
  - error events, `ErrorsHoldTogether`: the index of the delay counts the failures
    since the last subscription, and what lies beyond a reader's cursor is older than
    all that was shown. That a page exists needs that a finite set of events can be
    put in order, which is proved by a least counterexample.
  - the limiter, `GuessingHoldsTogether`, for every limit, window and size of the
    table: the count of a window is the number of attempts admitted since it began,
    and one window length before its beginning leaves room for the limit once more.
    The attempts of a span are a sum over its times, hence the lemmas on sums.
  - local ranking, `MonthsHoldTogether`: the row of a day counts what its last
    snapshot counted, the row of a month is the sum over its days for as long as the
    month is shown, and a day that is not settled still has its row unless one was
    pruned before (`missedDay`). The proof needs the restriction to shown months: a
    settlement that comes late can make the row of a pruned month anew, with the one
    day in it. `KeptMonths` leaves it out of the leaderboard at once.
  - event list, `ListsHoldTogether`, for every number of events, times and page
    sizes: by the cursor, what was shown lies before it and is all that was there so
    far; by number, an event not yet shown has at least a page offset of newer ones
    before it, because new events only move others to later pages, so what is missed
    came after the count. A listing in order is unique, therefore undisturbed pages
    are the export.
  - recent events, `RecentHoldsTogether`, for every window, number of slots and
    length of buckets: a committed event is in one place only, with its sender, in
    the queue, with the goroutine, lost, or seen by the cache (`Apart`). Of what it
    has seen the cache keeps each event of the window once and the pool counts just
    those (`CacheFits`); the buckets of the window count every event seen, and none
    is older than the window before the last full prune (`HealthRight`), which is
    why the map never spans more than the window. `EntriesFit` says what taking entries
    at some places of a sequence leaves, and `AnyOrderLists` that a finite set can
    be listed in an order: an element's place is the number of those before it.
  - header snapshots, `HeadersHoldTogether` and `HeadersRespectRefreshesTogether`:
    the pending snapshot of an account is for each limit the newest of those that
    came since the last flush, and of equal times the one that came last (`Newest`,
    kept by `NewestMerged`), as long as all of them have rows; the accounts that a
    full map threw out are the only exception. A refresh under way has no rows of
    headers (`ActiveHasNoRows`), and the second look under the lock keeps it so. What
    takes the place of a completed refresh is later, loses none of its rows and has
    one observed at its own time: not each row need be newer than the one it replaces.
  - token counts, `EveryEventAddsUp` and `CountsHoldTogether`, for every report and
    every width (`MaxTokens`). An event is one step, so no induction is needed; the
    argument is about the functions. `HandledRight` says what each handler may do to
    the counts and which of them may set the total, with one lemma per handler;
    `TotalRight` says what the reconciliation makes of such a handling. The run
    `services` enumerates counts up to a small width only.
  - prices, `PricesHoldTogether`, for any requests, rules and kinds of events.
    `PricingInv`: the table compiles, the published snapshot is that of a table that
    did, and while no change lies between its commit and its publication it is that
    of the present one; a page that has read holds the groups of its rows by the
    fields of its own snapshot. Three arguments rest on it. A set of rules adds at
    most one multiplier per field, so what compiles at its worst case
    (`WorstCaseIs`) stays a finite number for every event (`MultiplierBound`,
    `CostBounded`). The dimensions that a snapshot's rules read are among those the
    page groups by, so all events of a group have the same rates (`SameRates`) and a
    cost is linear in the tokens; summing rows of an hour and then groups of a page
    is summing once (`RowsSummed`, `SumByClass`). Only input less cache is not
    linear: it is taken per row, which is why the page costs no more than its events
    and no less than the quota window (`PageFits`, `UncachedTogether`), and as much
    where no event has more cache than input. Whether there is a cost is not the same
    question for a quota window: it has one exactly when the events have and each that
    reports tokens in any form has a priced model (`TotalsTogether`, `WindowPriced`).
    Assumed (`PricingAssumption`): requests
    and rules are finite sets, and tokens are counted from 0 on, which
    `CountsHoldTogether` shows of what the processor stores.
    The preview: whatever resembles a model is found, what is spelled like it with
    the best score (`CandidatesAre`); a finite set of candidates has one that none is
    before (`BestIsThere`), and dropping duplicates drops no priced entry, because a
    provider has one entry of an id (`UniqueKeeps`). `PreviewAssumption` says the
    latter of the catalogue, which is an object by id as it is published, and that
    the last part of a used model's name is not empty, as `stripPricingModelPrefix`
    sees to.

The induction theorems of the library take an operator as a parameter and cannot be
used. Where an argument needs induction it takes the least element of a set of
naturals instead (`NaturalsHaveLeast`, from the well-foundedness of `<`): for the
largest number, the first account of a batch, sorting, and sums over finite sets.

Only model-checked: everything about liveness (`EverySettled`,
`AggregationCatchesUp`, `Collected`, `RequestsAnswered`, `StartedWorkEnds`,
`InputsArrive`), since fairness and ENABLED are out of the prover's reach. Of the
safety properties: `StatisticsAgree`, which compares what pages compute in several
ways over rows of hours and days, so that a proof needs an induction for each of
the pages first.

## 6. What is not covered

- Components listed as not modelled in PROJECT.json, with reasons.
- The scanner of `control_message.go`: a message is a control message or not.
- Orderly shutdown of the whole process. `QuotaRefresh`, `RecentUsage`,
  `QuotaHistory` and `HeaderSnapshots` have the stop of their component; the others
  have kills, which are worse for data; the order in which `app` closes its parts
  is not modelled.
- Amounts: a row of statistics is the set of events in it. Counts, prices and
  windows are separate, each in its module.
- Behaviours the code leaves open and no property therefore promises: an inbox
  that is never empty starves the aggregation and the archive; refresh requests
  that keep coming faster than the debounce window postpone the synchronisation
  without end; a synchronisation that fails in notification mode waits for the
  next connection or request, so that `MetadataFreshness` speaks of
  synchronisations that begin.
- What the properties name as exceptions: a back-fill that failed on both entries
  is not repeated within its connection, and a runner that chose HTTP at its start
  stays there (`Collected`); an announcement lost beside a connection that goes on
  relies on polling, which a later sign of support ends (`ChangesAreSeen`).
