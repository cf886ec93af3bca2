# A verification of the analytics agent

TLA+ models of SierraSoftworks/analytics, the TLC runs that check them on small
instances, and theorems about them that TLAPS checks for every value of the
constants. Paths below are relative to `src/`.

## 1. The system

A self-hosted web analytics service. A page embeds the **tracker**; its beacons
reach the **agent** (an actix-web server with an embedded redb database), which
answers an **admin API**; the **dashboard** (Yew, in the browser) is that API's
client.

| Part | State it keeps | Operations | Talks to |
|---|---|---|---|
| Tracker (`tracker/src`) | view id, view URL, start time, unloaded flag, session id, exceptions seen | load, unload, navigate, custom event, exception | beacons to the tracking endpoints; a cached GET as daily-unique oracle |
| Tracking endpoints (`agent/src/web/track`) | none of their own (204 before anything is durable) | hit, exception, pixel, ping | rate limiter, enrichment, `Ingest::submit` |
| Rate limiter (`agent/src/ratelimit.rs`) | one token bucket per client IP under a mutex | check, cleanup | called by the tracking scope and by unauthenticated API requests |
| Ingest pipeline (`agent/src/ingest/pipeline.rs`) | bounded channel, batch, `known_sources` | submit, receive, flush, register sources | event store, SOURCES table |
| Event store (`agent/src/store/{mod,events,parquet}.rs`) | EVENTS and META tables, `next_seq`, Parquet tree | open, append, scan, delete keys, write a partition | compactor, queries |
| Compactor (`agent/src/ingest/compactor.rs`) | the window it is sealing | seal old events into a partition per day, enforce retention | both tiers |
| Queries (`agent/src/analytics`) | none; a file list, a hot snapshot and a lazy union per request | dashboard, exceptions, traces, event details | both tiers, entity tables |
| Entities (`agent/src/store/entities.rs`, `agent/src/web/api/{projects,sources,pixels}.rs`) | PROJECTS, SOURCES, PIXELS tables | create, update, delete, cascade | ingest (registers sources), queries (resolve names) |
| Triage (`agent/src/store/triage.rs`, `agent/src/web/api/exceptions.rs`) | EXCEPTION_TRIAGE table | resolve, mute, annotate | compared with the latest occurrence from a query |
| Schema and regroup (`agent/src/store/schema.rs`, `agent/src/{ingest,store}/regroup.rs`) | META version stamps | migrations at open, regrouping at start-up | triage table, both tiers |
| Sessions (`agent/src/web/helpers/oidc.rs`, `agent/src/web/api/auth.rs`, `ui/src/auth.rs`) | cookies in the browser, JWKS cache in the agent, single-flight state in the page | sign in, call, refresh, sign out | the identity provider |
| Filter language (`agent/src/analytics/filter.rs`, `ui/src/filters.rs`) | none; an expression in the URL | compile to a predicate; take apart into chips and a remainder, write back | entity tables (project names), every report |
| Dashboard (`ui/src`) | filters in the URL; per page a reload counter, requests in the air and an answer; the shell's project list; a project drawer | fetch, filter, drill down, edit | admin API |

### What is hard about it

* **Two tiers without a common transaction.** Events move from redb to Parquet
  by "write the file, then delete the rows", and queries read one tier after
  the other. Crashes, failed writes and queries fall between the steps.
* **Numbering outside the transaction.** Sequence numbers come from an atomic
  counter, persisted with the batch; queries de-duplicate by number.
* **A cache beside its table.** The writer's `known_sources` follows the SOURCES
  table through failures and administrators' edits only by being reseeded.
* **Acknowledged before durable.** A beacon gets its 204 when the event is
  queued.
* **Read, then write.** Several admin handlers check in one transaction and
  write in another.
* **Rotating credentials.** A refresh token may be redeemed once, while a page's
  parallel requests all notice the expiry together.
* **State shared by strangers.** All tabs of a browser have one cookie for the
  sign-in under way; all requests of the agent have one copy of the provider's
  keys, which each may replace.
* **Asynchronous answers in the page.** A view's load beacon waits for two pings
  while the visitor may navigate on; a dashboard page fetches whenever its URL or
  its reload counter changes, and its edits come back to a page that has moved.
* **One text, many readers.** A filter is typed, taken apart into chips, printed,
  put in a URL, parsed again and compiled, at every edit; clicking a row must
  select what the row counted.
* **The same rows cut by different code.** Headline, chart, the window before,
  trends, inbox and details each resolve and slice a range for themselves.

`PROJECT.json` lists each hazard at its line with the properties about it.

### What makes each part correct

* Event store and compactor: no two events share a number; a committed event is
  in one of the two tiers until its day is past retention; one successful run
  removes all duplicates; old events are eventually sealed.
* Queries: an event is counted at most once, and counted if it is stored.
* Reports: chart and headline agree; a row counts what clicking it shows; a row of
  the inbox opens on the reports it counted.
* Filters: editing one chip leaves the meaning of the rest alone, and a text keeps
  its meaning through decomposing and printing.
* Dashboard: when nothing is in the air, a page shows what its URL asks and the
  edits that were made; the drawer never mixes two projects.
* Ingest: accepted events are stored in order, once, or lost with the process (a
  crash, or an exit, which does not wait for the writer) or to a failed append and to
  nothing else; the source table respects its ceiling; registration never undoes an
  assignment.
* Rate limiter: no key gets more than its burst plus its refill.
* Entities: a deletion leaves no reference behind; names stay unique; traffic is shown
  under the project of its source.
* Triage: a resolved group reopens exactly when it occurs again; a migration
  that is interrupted and rerun keeps every anchor.
* Sessions: a valid refresh token is redeemed once and the session survives; a
  sign-in returns to its page; tokens are trusted as the provider's keys say.
* Tracker: load and unload of a view carry that view's id and URL; a visitor is
  counted once a day.

## 2. Modules

| Module | Models | Of |
|---|---|---|
| `Calendar` | days, months and the retention test over whole seconds | `ingest/compactor.rs`, `analytics/mod.rs` |
| `EventLog` | what the event store promises: one set of events, whole batches in, whole days out | (abstract) |
| `EventStore` | hot table, archive, compactor, failures, crashes, reopening | `store/{mod,events,parquet}.rs`, `ingest/compactor.rs` |
| `EventQuery` | `EventStore` composed with query tasks | `analytics/mod.rs` |
| `StoreProofs` | the theorems of `EventStore` and `EventQuery`, and of `Entities` and `Rollup` | |
| `Ingest` | queue, writer task, source registration, shutdown, administrators | `ingest/pipeline.rs`, `store/entities.rs`, `web/api/sources.rs` |
| `IngestProofs` | its theorems | |
| `RateLimiter` | token buckets, callers and cleanup, beside an ideal bucket | `ratelimit.rs`, `main.rs` |
| `RateWindow` | `RateLimiter` with an observer of admissions per window | `config.rs` (the rule) |
| `Entities` | projects, pixels and sources under concurrent handlers | `store/entities.rs`, `web/api/{projects,pixels,sources}.rs` |
| `Rollup` | `Entities` composed with the dashboard's fold into projects | `analytics/mod.rs` |
| `MCRollup` | `Rollup` with its symmetry | |
| `Upgrade` | start-up: migration, re-grouping; then reports, triage, compaction | `main.rs`, `store/{schema,regroup,entities,parquet}.rs`, `ingest/regroup.rs`, `web/api/exceptions.rs` |
| `UpgradeProofs` | its theorems | |
| `Tracker` | views, navigation and beacons in the tabs of a visitor, the unique-visitor oracle | `tracker/src/{tracker,transport}.js`, `web/track/ping.rs` |
| `MCTracker` | `Tracker` with its symmetry | |
| `TrackingProofs` | the theorems of `RateLimiter`, `RateWindow` and `Tracker`: the two ends of the tracking endpoints | |
| `Session` | API calls of a browser's tabs, renewal, CSRF, logout | `ui/src/{api,auth}.rs`, `web/api/{mod,auth}.rs`, `web/helpers/oidc.rs` |
| `SessionProofs` | its theorems | |
| `SignIn` | the way to the identity provider and back, in several tabs, and the agent's copy of its keys | `web/api/auth.rs`, `web/helpers/oidc.rs`, `ui/src/{app,auth}.rs` |
| `MCSignIn` | `SignIn` with its symmetry | |
| `SignInProofs` | the theorems of `SignIn` | |
| `Filters` | what the server compiles an expression to: a three-valued predicate over rows | `analytics/filter.rs` |
| `FilterSets` | the dashboard's filter state: ranges, chips, remainder, URL; decomposing and printing | `ui/src/filters.rs` |
| `Stats` | every panel, series, group, variant and session as a function of rows and a window | `analytics/mod.rs`, `web/api/query.rs`, `store/triage.rs` |
| `Reports` | `Stats` and `FilterSets` in use: rows come and go, an operator edits filters and opens details, other clients ask | `web/api/{stats,exceptions,events,traces}.rs`, `ui/src/{pages,components}` |
| `MCReports` | rows, texts, projects and a coarse clock for `Reports` | |
| `ReportsProofs` | the theorems of `Reports` | |
| `Pages` | routes, fetches, edits, the drawers and the shell of the dashboard, with answers in any order | `ui/src/{app,filters}.rs`, `ui/src/{pages,components}`, `web/api/{projects,sources}.rs` |
| `MCPages` | places and projects for `Pages` | |
| `PagesProofs` | the theorems of `Pages` | |

**EventStore.** A transaction of redb is one action: redb has one writer at a
time and commits atomically. A run of the compactor is `CompactRead` (read
transaction, grouping by day), `CompactWrite(d)` per day, oldest first (the rename is
the moment a file exists; temporary files are not listed by anyone),
`CompactDelete`, then `Retain`; or `CompactNothing` then `Retain`. `cpc` is the
position in `compact_once`. `CompactWriteFails`, `CompactDeleteFails`,
`RetainPartly` and `AppendFails` are the error paths, `Crash` and `Open` the
process dying and reopening the store. An event is its number and its receive
time; `log` is a history variable with everything ever committed. Time is in
seconds and a day has `DayLen` of them, because the compactor only compares
times, and only with a cutoff and with day boundaries. The year level of the tree is left out (it behaves as the
month level). The file stamp is the clock in milliseconds; the loop's interval is at least a second, so
the model uses the number of the run. A clock that steps back could repeat a
stamp; that is outside the model.

**EventQuery.** A query is `QList` (`parquet_files_in_range`; a file that cannot be
opened is skipped with a warning, which `skipped` remembers), `QHot`
(`hot_dataframe`), `QCollect` (the lazy scan and `unique`), with the whole of
`EventStore` running in between.

**Ingest.** `Submit` is `try_send`; the writer is `Seed`, then `Recv` and
`FlushTick` in turn (the two arms of its `select!`), and a flush is `AppendEvents`, `RegisterCheck`/`RegisterPut`
per new source, `EndFlush`. `Shutdown` is the return of `web::run`; then
`main` returns without waiting for the writer, whose handle nobody kept: `Exit` may
come before, during or after the last flush, except that a blocking closure which has
begun is run to its end (`InClosure`). `Start` and `Restart` begin again with an empty
memory. The store underneath is `EventLog`'s one set, with
order kept, since `EventStore` implements `EventLog`.

**RateLimiter.** `check` is `Arrive` (the clock is read) and `Admit` or `Deny`
(under the mutex); `cleanup` is `StartSweep` and `Sweep`. The f64 tokens are
integers: the unit is what one tick earns, so a request costs `Cost`. `credit`
is the ideal bucket, `late` the ticks spent between clock and lock; both are
history. `RateWindow` adds, per key and second, how many admitted requests were made
by then; a window's are the difference of two of them.

**Entities.** A handler is a task whose record says which access comes next and
what it has read. `UpdateProject` to `CheckName` to `PutProject` is `PUT
/projects/{id}`; the single-transaction handlers are one action. `raced` is
history: some handler wrote after a table it had read was written to. A source
is assigned to whatever id the caller names: of a project, a deleted one, or one
that never was (`Strays`); `astray` is history: the sources whose last assignment
was to a project that was not there.

**Upgrade.** `pc` is the place in `serve`: `Open`, `Apply`, `Stamp` per schema
version, `CheckRules`, `RegroupHot`, `RegroupFile` per partition, `StampRules`,
then serving. A group is the pair of the rules that computed it and what they
saw: two rules never agree by chance, and a report that was cut when stored is
seen differently from the whole. `settled` is what administrators decided,
computed without the store. A build may be exchanged whenever no process runs, at
no cost; only deaths are counted. A re-grouping that reaches its stamp clears what
an earlier one left behind from `mishaps`.

**Session.** A call is `out` with the cookies it was sent with, waits for a
renewal (`renew`), or has ended; `again` and `refreshed` are the two retries of
`send_with_session` and `mutate`. A renewal is sent (`Join`), redeemed
(`Redeem`, `Reject`, `RenewalFails`) and received (`Settle`); it is named by the
call that started it, and `current` is the page's single flight. What the
provider does is external: it accepts one refresh token at a time and may
rotate it.

**SignIn.** `BeginSignIn` is `auth_login`; `Callback`, `ExchangeCode` and the
validation are `auth_callback`, cut where it awaits. A sign-in is a number, which
stands for its state, its verifier and its code. `LookUp`, `ServeKeys` and
`ReceiveKeys` are `validate_token`, for a callback (`checking`) and for the first
request of a page (`loading`). A token is the key that signed it. The agent's copy
is replaced by whichever answer comes, so `ReceiveKeys` may put an older set over a
newer one. `Rotate` and `Withdraw` are the provider's; `ended` and `excused` are
history.

**Tracker.** An action is one event of a document: it opens, is parsed
(`DomReady`), navigates (`Push` through the wrapped history calls, `Traverse`
through popstate or hashchange), is hidden (`Hide`), goes away (`Leave`). `Ask`
is the request with the cached date, `PingAnswered` the agent's answer and its
receipt, `SendLoad` the continuation of `Promise.all`, which reads the page as
it is then. The second ping, for the path, is left out: it is the first again,
with a cache entry of its own. The session id is the tab. Custom events and
exceptions post what the page's variables hold, in one step, and are left out.
Delivery is out of the
model: `hits` is what the page posts, each with the number of beacons before it that
say the same (`copy`), so that two equal beacons are two.

**Filters** and **FilterSets.** A string is opaque: folding case, text tests, bare
host names are constants of the model. A predicate is the pair of the rows where
it is true and where it is null, as Polars' are, so that `!`, `!=` and `is null`
treat absent values as the code's guards make them. A text is what the parser
sees of it, alternatives of conjuncts of operands; `Decompose`, `PrintText`,
`ParseQuery` and `ToExpression` are the two visitors and their callers, and a
group appears exactly where the printer writes parentheses. The parser itself and
glob and regular-expression matching belong to the filt-rs crate: external. The
visitors are recursive functions over the nodes of the tree they walk, which are
found by going down `MaxNesting` levels (`Within`).

**Stats.** One operator per query function over a set of rows with distinct
instants, so that every ordering the code leaves to the engine is a total one.
Sums over groups and frames are sets and folds. `ResolveRange` is `resolve_range`;
`ReportWindow` adds the anchor of `from <= 0`.

**Reports.** `set` is the filter state as the page reads it from its URL; `Apply`
is what every control does with it. `asked` is another client's request.
A detail is two scans, `Open` and `ReadSessions`, with rows arriving and days
lapsing in between. How rows are read from two tiers is `EventQuery`'s subject,
and how pages wait for their answers is `Pages`'; here a report is immediate.

**Pages.** `url` is the place, `page` what is mounted there, `shell` the project
list around it, `drawer` the project drawer, `edits` the mutations in the air.
`Watches` is what each page's effect depends on and `Asks` what its request
holds: they differ, for an exception, by the source. A request is served
(`ServePage`) and received (`AnswerPage`) in two steps. An edit is `Click`,
`ServeEdit` (for a creation `ServeCreate` and `ServeAssign`), `Settle` or
`SettleFailed`; it carries what the callback captured at the click, the counter
and the place. Versions (`db.v`, `due`) tell an answer from an older one: every edit that comes
home to its page makes its version due there, whether the code asks again or not.
`slips` and `idle` are history: why the page has not asked since an edit, and that
its effect last ran at a broken link and asked nothing.

`TypeOK` in a module states the shape of its variables. Definitions marked as
mutants stand before the definition they alter; no
specification refers to them.

## 3. Runs

Bounds are named in each `.cfg`. Times run over five seconds (`EventStore`) or six
(`EventQuery`) of two-second days and two-day months: the smallest calendar in which a window
spans two days, a day is sealed and expires, and the oldest month empties while
a later one does not. `MaxLag` is no larger than `HotWindow`: events that wait in
the queue longer than the hot window would be sealed in the run after they
arrive, and days already past retention would be archived again only to be
removed.

| Run | Question | Answer |
|---|---|---|
| `EventStore` | Do appends, runs, failures and crashes keep the store's promise, and is every old event sealed in the end? Batches of 2, 3 numbers, 2 faults. | yes |
| `EventQuery` | What may a query beside all this miss or repeat? | nothing repeated; missed only if a compaction ran inside it or a file was skipped |
| `Ingest` | One path, in order, every accepted event stored in the end; the ceiling; registration against edits. | yes, but for what is in memory when the process goes away, in good order too |
| `RateLimiter` | Does the map of buckets behave as an ideal bucket, in every window and with cleanup? | yes, but for time spent waiting for the lock |
| `Entities` | Names, deletions and the dashboard's fold (`Rollup`) under two handlers at once. | right unless handlers overlap, or a source is assigned to no project there is |
| `Upgrade` | Does what is settled and grouped survive deaths during start-up, and does start-up end? | yes, but for the cases below |
| `UpgradeRerun` | Does a migration keep what was settled (`schema.rs:81-83`)? | no: finding |
| `Session` | Does the session survive its tokens lapsing, and is every outcome told truly? Two calls, two tabs, two lapses, one failure. | yes, but for five named mishaps |
| `SignIn` | Does a sign-in end where it began, and is a token trusted as the provider's keys say? Two tabs, two sign-ins, two keys, one failure, five ticks. | yes, but for what `excused` and `slow` name |
| `Tracker` | Do the beacons of two tabs tell views and visitors apart? Three views, two days, one failed ping or unseen push. | yes, but for hurried views and named races |
| `Reports` | Do chart, headline, panels, inbox and details agree with each other while rows come and go, for any range a client sends; do chips compose, and does a text keep its meaning? | yes, but for regrouped alternatives |
| `Pages` | Does a page at rest show what its URL asks and the edits made, and does the drawer hold one project, with answers in any order and failures? | yes, but for the pages and edits named below |

**Why the bounds are enough.** `RateLimiter` has one key, because keys share
nothing but the map and the proofs cover any number; two workers and four
requests of two tokens' burst let one caller overtake another, a bucket run dry
and be dropped, all within four ticks. `Entities` has two handlers, two projects
one word in two spellings, and one id that is no project's: a collision needs two
of each. `Upgrade` has two builds, a report that is cut and one that is not, an
exception from an earlier release and one new, two partitions, and one death; builds
are exchanged as often as the process stops. So a death may fall between the
partitions of a re-grouping and the other build be put back, which is the case that
`rollback` names: without the exemption the run fails. `Tracker` has three views: two in one tab and
one in another race for the oracle, and three in one tab chain two hurried
navigations; one failed ping or unseen push is enough, as neither
lasts beyond its view.
`Session` has two calls, in one tab or in two, because every retry and every
race in it is between two requests; a second lapse reaches the end of each retry.
`SignIn` has two tabs and two sign-ins, because every race is over the one cookie
or the one copy of the keys; five ticks let a cookie of two and a copy of two
expire and a second copy be fetched, and two keys let one be new and one withdrawn.

`Reports` has seven rows of four kinds, chosen so that the panels clicked and
compared have rows with and without a value, two paths differ in case, an exception
group spans two sources, a session has page loads in the default window and in the
one before, and a day can lapse; ticks are coarse (four hour-buckets a day, 28 a week), the cap of 40 buckets and the
latest instant 500 are met by the ranges in `MCAsks`, and no expression or text
there nests deeper than `MaxNesting` of 6. `MaxParts` of 2 puts a
chip beside a remainder, or a range beside either. `Pages` has two projects with
room for a third, eleven places that differ in one thing each (one of them a link
without a source, and one that mends it), four moves of the
operator or failures in all, and at most two requests in the air when the
operator acts: an answer overtaken by another, an edit beside a fetch, and a
drawer switched while loading all need two.

**Conditions.** `EditsKeepMeaning` excludes typed texts with a
top-level alternative joined to another piece of the remainder (section 6), and the
documented loss of all but the last term of one dimension. `DrillDownAgrees` excludes
panels in which two values differ in case only: they are two rows and one
filter. `InboxRowsOpen` asks for equal counts only without a query, as the
detail is opened with the range alone; of an inbox with a query the detail shows
at least what its row counted. `TracesCover` compares a session's timeline with the
list while the session's first row as listed is still stored.
`AnswersItsUrl` holds for the pages without a sequence number only when the
latest answer came last, and leaves the source of an exception out, which its
effect does not watch; for the same reason a page whose effect last ran at a link
without a source (`idle`) is left out, as is its data from `EditsShow`. `EditsShow` excuses a page that has not asked again since an edit for one of three
reasons (`Slips`), until it asks: two edits of the page overlapped (both set the
counter to the same number); a creation leads to the dashboard already filtered to
that project; and edits by the settings' drawer or danger zone, after which the card
of sources is not fetched again (`ui/src/pages/settings.rs:55-62`, `112-128`) although
`project_drawer.rs:19` says "so the page refetches". TLC finds each of the three
necessary. A page that was left is owed nothing: the next one asks when it is mounted.
`DrawerManages` leaves aside loads that failed. `MissingOnlyWithoutProject` excepts
sources that are `astray`: `PUT /sources` stores any id (`web/api/sources.rs:36-38`),
and the fold shows the traffic of such a source nowhere, although
`analytics/mod.rs:1559-1560` knows only listed projects and "no project".
`CompleteUnlessRaced` excepts queries that skipped a partition
(`analytics/mod.rs:1131-1135`). `AcceptedIsSettled` is about a process that goes on:
an orderly shutdown returns from `main` without joining the writer, so what it had
queued or batched may be lost in spite of the last flush in
`ingest/pipeline.rs:69-72`. `EarliestWhenDated` excludes an empty oldest month directory,
which retention leaves behind: an "all time" query may then start after the first
event, against `analytics/mod.rs:1660-1663`. Some invariants hold unless a history variable says that
something went wrong before: `missed` (a registration or the initial seeding
failed: the writer's cache is then short of the table), `overtaken` (requests
of a key were charged out of clock order), `raced`, and `mishaps` (`migration`:
a death between a migration and its stamp; `rollback`: a build was put back
after another one's re-grouping died and finds its own version stamped, although
`store/regroup.rs:8-9` says a crash "simply repeats the work on the next start"; it
lasts until a re-grouping is completed), and those of `Session`: `crossed` (two
tabs renewed at once), `provider` (it answered a redemption with an error, or
spent the token and the answer was lost), `abandoned` (the page was left during
its renewal), `hasty` (a token lapsed again within a call), `logout`;
those of `SignIn`: `excused` (sign-ins that were refused, outlived their cookie, were
failed by the provider, lost their key, were reloaded, or shared the browser with
another that began or ended) and `slow` (keys withdrawn while a set of keys was on
its way); and those of `Tracker`:
`hurried` (views left, or begun, while a load beacon was due), `overlap` (a page
asked the oracle before another's answer), `midnight` (it passed between a ping
and its beacon), `unsaid` (a ping failed, or the page told first was left). Names are
unique unless `raced`, although `projects.rs:134` says "project names must be
unique" without a condition: two overlapping requests can both find one free. Where a document promises more, a run
shows the violation or section 6 quotes it. Where none does, the condition is the
whole statement.

**Fairness.** `EventStore`: the clock advances, a supervisor restarts the
process (the repository ships a container image), and the compactor is a loop
over an interval timer, so a step of it that stays possible is taken. Failures
and crashes have no fairness and are bounded by `MaxFaults`. `Ingest`: while
`web::run` serves, the writer task is polled when it can progress and its timer
ticks; afterwards only a blocking closure that has begun is sure to end, and `main`
returns (`Exit`). Nothing is assumed of clients or administrators. `RateLimiter`: the clock advances, the
cleanup task's interval fires, and a mutex that is held for a few instructions
is obtained in the end. `Upgrade`: a process that was started goes on, which
nothing in its straight-line code prevents, and is started again. `Session`:
requests are answered or time out; nothing is assumed of users.

**Deadlock** is checked in all passing runs but six: `Entities`, `Session`, `SignIn`,
`Tracker`, `Reports` and `Pages` set `CHECK_DEADLOCK FALSE` because ids, calls,
sign-ins, views, rows and moves run out at the bounds, where the system simply rests.

## 4. Proofs

`StoreProofs` proves of the store and its compactor, from `CalendarAssumption` and
`StoreAssumption` only (the ranges of the constants), for every number of events, faults and seconds:

* `TypeCorrect`: `Spec => []TypeOK`;
* `Inductive`: `Spec => []IInv`;
* `SequenceUnique`, `NothingLost`, `RunsHeal`: `NumbersUnique`, `NoLoss` and
  `CleanAfterRun` always hold;
* `StoreImplementsLog`: `Spec => Promise!Spec`, the refinement of `EventLog`.

`NoLoss` is not inductive: that `CompactDelete` loses nothing depends on every
row of the batch being in a file by then, which depends on files of other runs
not being replaced by this one's, and on the batch staying hot until then.
`IInv` says so in three parts. `CounterInv`: committed numbers are below the
persisted counter, which the one in memory never trails. `ArchiveInv`: a file
holds committed events of its own day, and no file has the path of one this run
has still to write. `RunInv`: the batch is hot, old enough, and archived except
for the days still to do; nothing else is in both tiers once a run has started.
There is a lemma per action that disturbs these, and the refinement maps
`AppendEvents` to `Commit`, retention to `Expire`, `Tick` to `Tick` and every other
step to a stutter.

`TrackingProofs` proves of the rate limiter, from `LimiterAssumption`, for any number
of keys, workers and requests, any rate and any burst:

* `Tracking`: the map of buckets is the ideal bucket, up to the time callers
  waited for the lock (`Tracks`);
* `Admissions`: no key is admitted more than its burst and what it earns, and
  that time (`AdmittedWithinBound`);
* `Denials`: a request is denied only if the ideal bucket could not pay when it
  read the clock (`DeniedOnlyWhenSpent`; proved, and in no run);
* `RuleHolds`: over any window of time a key is admitted no more than its burst and
  what the window earns, while no caller is overtaken on its way to the lock
  (`RuleUnlessOvertaken`).

The inductive invariant is `Inv`: types, clock readings that are not ahead of
the clock, and `Tracks`. The lemmas say what a step does to `Level`, what a key
may spend now: a tick adds one up to the ceiling, a charge takes its cost and
leaves other keys alone, and cleanup changes nothing because a full bucket is as
good as none. The rule over windows is not inductive: that a window has room for one
more request is known from what is in the bucket. `Accounted` relates the two: what
the requests since any instant cost, and what the bucket holds, is no more than a
full bucket and what was earned since; it is `Flat` after the newest reading, where
nobody was admitted yet. A bucket that cleanup dropped counts as full at the
cleanup's reading. `Observed` says that the observer takes no step of its own.

Of the tracker it proves, from `TrackerAssumption`, for any number of tabs, paths,
views and days: `TrackerInductive`, `Attribution` (`Attributed`), `OneLoad`
(`OneLoadPerView`) and `VisitorsCountOnce` (`CountedOnceADay`). `TInv` adds what the
properties leave unsaid of the moments between. `Ended`: a view whose unload was
posted is marked so in the tab that shows it, and no two tabs show the same view.
`Own`: the view a load beacon was asked for is the one its page shows, or both were
hurried. `Once`: a view's beacon is in exactly one of three places. `AtMost`: once
somebody was told to be first, the cache says today and so does every ask that
waits; `AtLeast`: the cache says today only if somebody was told.

Of the query tasks over that store it proves, from the ranges of the constants:

* `QueriesInductive`: `QSpec => []QInv`;
* `QueriesCountOnce`, `QueriesComplete`: `CountedOnce` and
  `CompleteUnlessRaced` always hold, for any number of queries and whatever files
  cannot be opened;
* `EarliestIsFirst`: `EarliestWhenDated`, for `MaxLag <= HotWindow`: an event
  waits for its append no longer than the hot window, which is two days unless
  configured otherwise, while the queue is flushed every second.

A query is steps over a store that moves under it, so `QInv` says what remains
true of what a task holds: a listed file never changes and is there until its
day is over (`SeenInv`); what was due is hot, counted or listed at each step,
unless the hot window was emptied in between (`ReachInv`); the answer has one
row per event (`AnswerInv`). The store's `IInv` carries over because a query
step is a stutter of the store. `EarliestIsFirst` needs an invariant of the
directory tree (`DirInv`): no hot event is of an earlier day than the first of
the archive, which holds because partitions are written oldest first and a run
that reaches retention has deleted all that is older than what it wrote.

`IngestProofs` proves from `IngestAssumption`, for any queue, batch size and
ceiling: `IngestInductive`, `StoredInOrder` (`OrderedOnce`), `CeilingHolds`
(`CapUnlessMissed`) and `PutsAreOfAbsent` (`RegisterNeverClobbers`, an action
property). `OrderedOnce` is about the store alone and not inductive; `OrderInv`
says it of the four places an event passes through, and of each before the
next. `RegisterInv` says that a source found absent stays so until it is put,
since only the writer puts; `CapInv` that the registered sources are among
those the writer knows, and those within the ceiling.

`StoreProofs` also proves, of the other tables, from `EntitiesAssumption` (`None` is
no project, name or stray id, and no stray id is a project's), for any number of
handlers and whatever ids clients name: `EntitiesInductive`, `NamesStayUnique`
(`NamesUniqueUnlessRaced`), `DeletedProjectsAreWhole`
(`DeletedWholeUnlessRaced`) and `RollupShowsAll` (`MissingOnlyWithoutProject`). The
inductive invariant is `RollupInv`; the
argument is that what a handler has read is true until someone writes to its
tables (`TrueYet`), that what a source or pixel belongs to is or was a project unless
it is astray (`OwnersKnown`), and that an owner a rollup has read was there when it
began, unless handlers overlapped (`ViewInv`), so that its three reads agree up to
deletions.

`SignInProofs` proves from `SignInAssumption`, for any number of tabs, keys and
failures and any lifetimes: `SignInInductive`, `SignInsLand` (`SignInLands`) and
`KeysAreFollowed` (`KeysFollowProvider`, an action property). `SInv` follows one
sign-in through its places: while nothing excuses it the one cookie of the
browser is its own, its code is unspent and its key published (`OnItsWay`), and
the copy a callback carries is its own even when the cookie no longer is
(`CarriedOwn`). `CopyInv` says that a key in the agent's copy was published when
the copy was made.

`SessionProofs` proves from `SessionAssumption`, for any number of tabs and
calls: `SessionInductive`, `SessionsSurvive` (`SurvivesLapse`), `OutcomesAreTrue`
(`OutcomeTrue`), `LogoutsStick` (`LogoutSticks`) and the types. `FlightInv` is the
single flight of a tab: the renewal in the air is the one the tab holds, and all
who wait wait for it. `CountInv` is what the agent has done, by how far a call has
got; `KeyInv` that a mutation with a fresh CSRF token has the browser's, unless
that was replaced since. `GrantInv` says who has the refresh token the provider
accepts: the browser, or the one renewal in the air; it holds while nothing but
haste and an unreachable provider went wrong. `ValidInv` says that what a renewal
brought is valid until those who waited for it are answered, and `LogoutInv`
that after a logout whoever renews has nothing to redeem.

`UpgradeProofs` proves from `UpgradeAssumption`, for any number of builds, deaths
and partitions: `UpgradeInductive`, `SettledStays` (`SettledUnlessInterrupted`),
`RowsAreRegrouped` (`RegroupedUnlessRolledBack`) and the types. Both properties
only speak of a process that serves; `UInv` says what holds on the way there.
`StepInv` orders the steps of start-up. `TriageInv`: what was settled is what the
records say, or what migrating them will make of them, by the version that is
stamped. `RowsInv`: stored rows follow the rules that were applied last, except
during a re-grouping or after one that died; those of a build that is installed
again unchanged by anyone are still in place; during a re-grouping the hot rows
and the partitions that are done are where the build puts them. That copies
agree afterwards needs that copies are of one failure, always.

`PagesProofs` proves from `PagesAssumption`, for any projects, names and places, any
number of moves and of requests in the air: `PagesInductive`, `PagesAnswer`
(`AnswersItsUrl`), `EditsAreShown` (`EditsShow`) and `DrawerIsOfOne`
(`DrawerManages`). Requests are numbered (`NumberInv`); the one with the latest
number asks what the page's URL asks, whether it is in the air or shown
(`MatchInv`), it is in one of the two places (`ReachInv`), and unless something
slipped what answers it is no older than any edit that came home (`DueInv`): none of
this is true of older requests, whose answers may come at any time. `SeenOrSlipped` is
the heart of `EditsAreShown`: whatever edit comes home, the page's effect sees it or
`Slips` has the reason. It rests on where each kind of edit is made (`PlaceInv`,
`HostInv`: a drawer is the dashboard's or the settings') and on `AloneInv`: the counter
that an edit which nobody overlapped sets is still the one it read.
`DrawerInv` says it of the drawer: the project it manages is loaded, on its way, or
an error is shown.

`ReportsProofs` proves of the reports, from `FiltersAssumption`, `StatsAssumption` and
`ReportsAssumption`: `TypeCorrect`, `SeriesSumsCorrect` (`SeriesSumsToSummary`),
`InboxRowsCorrect` (`InboxRowsOpen`) and `TracesCorrect` (`TracesCover`), for any rows
that may arrive, any directory of projects, any ranges picked by an operator or asked by
another client, any ladder of buckets and any limits. Assumed is that widths of
buckets, a day and the limits are positive; that a series may be two points longer
than the most buckets of a resolved range (5000 and 2000 in the code); that rows have
distinct instants, and pixels no session.

* *Chart and headline.* Three places must agree: the range is clamped and its bucket
  coarsened in `resolve_range`, its points are laid out by `timeseries`, and
  the series before it is shifted by one length of the range. `GridOfWindow` says that
  the bucket chosen for any two instants, empty, inverted or huge, leaves a grid within
  the limit, so no point is cut off; `ShiftedCounts` that the rows of the window before
  fall on the grid of the window itself; `CountByKey` that what is counted by key is
  what is counted.
* *Inbox and detail.* The two resolve one range in two ways, anchored and clamped, or
  clamped only. `OneWindow` says that they select the same rows of any store, so the
  detail finds what the row counted, and its latest report is no earlier than the row's.
* *Sessions of a detail.* `TracesCover` compares two scans and a third that is made
  later; the inductive invariant `RInv` says what a detail holds meanwhile: what its
  first scan saw (`Scanned`), that the sessions listed are those seen, none cut by the
  sample, and span what was seen of them (`Listed`), and that retention, which drops
  whole days and the oldest first, takes the last row of a session no earlier than its
  first (`Held`), although other rows come and go. It was checked by TLC first.

What stays with TLC: liveness (`SealedEventually`, `AcceptedIsSettled`,
`IdleForgotten`, `ServesEventually`, `EveryCallEnds`), which needs fairness and
ENABLED; `EditsKeepMeaning`, that printing a tree and reading it back, piece by piece,
keeps what it selects, which is an induction over trees; and `DrillDownAgrees`, whose
clicked row is compared with what compiling such a text selects. Every other safety
property of the passing runs is a theorem.

## 5. Plan

What the models would be extended by next, in this order.

1. Triage over time: a group's source moved to another project, whose triage is
   another one; so far `InboxRowsOpen` compares what the inbox and the detail
   make of any moment of resolution.
2. Enrichment: normalising exceptions before they are fingerprinted.

## 6. Code and documents that differ

One run shows a violation (`UpgradeRerun`); `PROJECT.json` lists it as a finding.
These were met while modelling and are described by the conditions
of the properties above, or stay outside them:

* The dashboard's filters do not keep every text: pieces of the remainder are joined
  by `&&` (`ui/src/filters.rs:355`) after the printer dropped the parentheses of a
  top-level alternative, so `(a || b) && (c || d)` becomes `a || b && c || d`, which
  selects other rows (`ui/src/filters.rs:7-9`, `362`; `EditsKeepMeaning` leaves these
  texts out).
* A query may miss events around a compaction (`analytics/mod.rs:1128`, `1137`),
  though `analytics/mod.rs:1-2` speaks of the union without a condition
  (`CompleteUnlessRaced`).
* An update puts back a project or pixel that was deleted after it was read
  (`web/api/projects.rs:85`, `pixels.rs:68`, `103`), though
  `store/entities.rs:27-31` promises a deletion in one step
  (`DeletedWholeUnlessRaced`).
* The load beacon of a view that was left carries the id of the next
  (`tracker/src/tracker.js:163-171` against `4-5`; `Attributed`, `OneLoadPerView`).
* `ui/src/components/project_drawer.rs:19` says that a page refetches after any change;
  after a change in the settings' drawer or danger zone the card of sources does not
  (`EditsShow`).
* A source may be assigned to a project that never existed (`web/api/sources.rs:36-38`);
  its traffic is then in no row of the dashboard, although `analytics/mod.rs:1559-1560`
  speaks of project rows and of sources that belong to none (`MissingOnlyWithoutProject`).
* `ingest/pipeline.rs:69-72` flushes once more when the channel is closed, but `main`
  returns after `web::run` without waiting for it (`AcceptedIsSettled`).
* `web/api/events.rs:31-33` says that no range is all time; without one the last
  seven days are used.
* The page of an exception reads its source from the URL but its effect does not
  watch it (`ui/src/pages/exception_detail.rs:58-63`): a link without a source that is
  given one shows nothing, or what was there before, until something else changes.
* After a failed load the project drawer keeps another project's name in its field
  (`project_drawer.rs:34-36`).

## 7. Not modelled

* Parsing and enrichment of user agents, languages, referrers and countries:
  table look-ups whose output nothing in the models distinguishes. Normalisation
  of an exception's stack, of which `Upgrade` keeps only that it cuts.
* The filt-rs crate: its parser, globs and regular expressions are external.
* The access rules, and an agent without an identity provider. Of an ID token only
  its key and its lapsing are modelled, of discovery only that it may fail.
* How charts and pages are drawn, formatted and worded; of a chart, its points and
  its zoom are modelled.
* Telemetry, logging, error wording, generated time-zone tables, demo data and
  styles.
* The contents of redb and Parquet files below the level of transactions and
  renames.
