# A formal model of cli-control-account

cli-control-account is a plugin of CLIProxyAPI: a C-shared Go library the proxy loads, an
ingestion and reporting service for its usage records ("Ego", over SQLite), and a dashboard, one
HTML page with its script, that shows the quotas of the proxy's credentials and Ego's reports.
This directory holds TLA+ modules of the parts where order matters, configurations that
check them with TLC, and proofs that TLAPS checks. Line numbers refer to the source at
`src/`; `PROJECT.json` maps every definition to the lines it models.

## 1. Inventory

| Component | State it keeps | Operations |
|---|---|---|
| Plugin ABI (`main.go`) | C buffers handed to the host | `cliproxyPluginCall`, `Free`, `Shutdown` |
| Worker singleton (`worker.go` 12-54, 87-93) | `workerOnce`, `globalWorker` | `GetWorker`, `ShutdownWorker` |
| Ego worker (`worker.go`) | channel, batch, `stopCh`, `enabled` | `Record`, `flushLoop`, `Stop`, `SetEnabled` |
| Token accounting (`worker.go` 139-270, `pricing.go`, `models.go`) | none; columns of an event | `transformToEgoEvent`, `tpsSample`, `ResolveTokenSemantics`, `CalculateTokenCost` |
| Ego storage (`storage.go`) | `ego_events`, `ego_config`, `ego_pricing`, `pricingCache`, one RWMutex | insert, prune, reset, summary, timeline, rankings, settings, prices |
| Embedded price list (`embedded_pricing.go`, `assets/`) | none | decoding of the pinned list |
| Ego handler (`handler.go`) | none | the endpoints under `/v0/management/ego`, the bounds of Today |
| Lifecycle dispatcher (`lifecycle/events.go`) | metadata, configuration, routes, one RWMutex; the host's router | register, reconfigure, bind a route, register the routes with the host, handle a request |
| Resource files (`handlers/resource.go`, `web/embed.go`, `main.go` 312-349) | none; the embedded files | two handlers and `GetAsset` |
| Dashboard, quotas (`index.html` 3025-5457) | `pendingQuota`, `quotaStore`, `isRefreshingAll`, `authFiles` | fetches by provider, Refresh, Refresh all, a 180 s timer |
| Dashboard, prefix editor (5230-5382) | `activeModalFile`, the modal's controls | open, type, close, save |
| Dashboard, Codex credits (4217-4310, 5536-5572) | `pendingCredits` | consume a reset credit |
| Dashboard, credential switch (5384-5412) | `disabled` of a file | toggle |
| Dashboard, Ego overview (5857-5985, 6548-6561) | `egoLoadVersion`, `egoLoadsPending`, the sections | load, change range |
| Dashboard, management key (3003-3140) | `manualManagementKey`, the key CPAMC stored | two prompts, sign-in elsewhere |
| Dashboard, Ego maintenance (6492-6505, 6563-6643) | the ingestion switch, two buttons | switch, prune, reset |
| Dashboard, timeline chart (6014-6160) | none | `zeroFillEgoTimeline` |
| Version, build | none | constants |

How they interact. The host calls `cliproxyPluginCall` from many threads. `usage.handle`
gives a record to `Worker.Record`, which turns it into an event (accounting) and puts it on
a channel; one goroutine inserts batches into the storage. `management.handle` serves the
dashboard's files and passes `/v0/management/ego` to the handler, which queries the storage
and the worker. The first call that needs it creates worker and storage. The dashboard runs
in the browser: its functions await `fetch`, and whatever happens between two awaits is
atomic, whatever happens across one is not. It talks to the plugin (Ego) and, through
CLIProxyAPI's management API, to the providers.

What is hard, and what makes each part correct:

- **Worker.** Record, the loop, Stop, handlers that delete rows, and failing transactions
  interleave. An event accepted is stored once, lost as a whole batch or deleted, never twice;
  Stop settles what came before it, ends, and closes the database last.
- **Process.** First calls race for the singleton; shutdown races with them; disks fail
  at any statement of the opening; the process crashes. One worker; the pinned prices, each under its
  name, whatever an old database holds; the dashboard's choice for collection outlives restarts; one buffer per
  answer, after a panic too.
- **Accounting.** The same tokens come in three forms with fields missing, or with tokens left out of the
  field they belong in. Each token is counted and billed once, although costs are computed on sums of columns
  with a clip and a maximum; a speed is taken from requests that have one.
- **Storage.** Queries of several statements over a changing table, windows that touch, hours
  that do not start on the hour, lists with limits, answers cut short.
- **Chart.** Buckets named by the server's local time are regrouped by the page's own clock. No event is drawn
  twice or too late, and none gets lost where clocks are not set.
- **Dispatcher.** Registrations overlap and fail half way, routes are bound anew, the router calls back. The host
  keeps what it was promised, each answer follows from the registration it answers, nothing waits for itself.
- **Resource files.** Two ways with trimming and cleaning of their own lead to the same files.
- **Quotas.** A guard set, a flag, timers and requests with a stalled half. One fetch per
  credential, no spinner without a fetch, no billable request without a click.
- **Credits and switch.** Reads on their way overtake what a click changes, and a request the page gave up is
  executed later. No credit is spent unasked; page and host agree, or do again from the next fresh read.
- **Overview and key.** Loads end in any order, a midnight passes, keys are rejected late.
- **Maintenance.** The switch is both a control and part of what a load renders; POSTs are lost or executed late;
  loads that read erased events are under way. The switch says what the plugin does unless something told it wrong.
- **Prefix editor.** A modal that may show another credential when the answer comes; saves that time out and
  are stored all the same. List and host agree wherever the user was told of success, and a next save makes good.

`PROJECT.json` lists each hazard with its line and the properties that cover it.

## 2. Modules

| Module | Models | State and actions against the code |
|---|---|---|
| `EgoDelivery` | the promise of the pipeline: a bounded first-in first-out buffer before a table | abstract, no code of its own |
| `EgoWorker` | `worker.go` and the writes of `storage.go` | each `Record` is two actions, `Check` and `Send`, because the flag is read before the channel is tried; `flushLoop` is one process with its place in `loop`; `flush` is `InsertBatch` or `InsertFails` as the batch is a local that is emptied either way; `SetEnabled` is `StoreFlag` and `SaveFlag`; what Storage does under its mutex is one action |
| `EgoProcess` | `main.go`, `GetWorker`, `OpenStorage`, settings and prices on disk with their lookup by name, restarts | each call of the ABI has a stage; the body of the `sync.Once` is four actions (open, load the setting, start and publish, done), since shutdown reads `globalWorker` outside it |
| `EgoAccounting` | the arithmetic of an event and of the cost of a row | operators with the names of the Go functions; the state is the sums of columns per provider, which is what `getSummary` prices; `RawDetails` are the reports the host may make of a request, those of unlike providers included (`pricing_test.go:281`, `worker_test.go:375`) |
| `EgoStorage` | queries over the event table | `Readers` are the requests that hold the read lock; writes need it free; a summary is two actions under one lock; `HandlePrune` chooses the age as the handler does |
| `EgoChart`, over `EgoStorage` | the buckets by local time in `getTimeline`, and `zeroFillEgoTimeline` | operators with the names of the code; one action draws a chart of any events of a range |
| `QuotaRefresh` | `fetchFileQuota`, `refreshAll` and the provider fetches | an action per stretch between two awaits; a request is headers (bounded by 30 s) and a body (not bounded, so no fairness is assumed of it) |
| `CredentialCard` | one Codex card: `consumeCodexResetCredit`, `toggleFileStatus`, and the refreshes as far as they read what these change | `read[r]` is a request of one of four readers; the host executes it at some moment between asking and answer; `card` is what was last rendered, with the switch that a PATCH has locked; a PATCH or a redemption that was given up may be executed later (`HostDisablesLate`, `CodexRedeemsLate`) |
| `EgoOverview` | `loadEgoOverview`, the key and its prompts | an action per stretch between two awaits; `loads[v]` holds what the closure of version v holds |
| `EgoMaintenance`, over `EgoOverview` | the ingestion switch, Prune and Reset, and their handlers | a click is one action, the handler's execution another, its answer a third; `strays` are POSTs the page gave up and the plugin still executes; `read[v]` is what a load's settings request found |
| `LifecycleDispatcher` | `Dispatcher` and `MapManagementRouter` | a section under `mu` is one action; between the copy of the routes and each call of the router anything may happen |
| `PluginResources`, over `LifecycleDispatcher` | `ResourceHandler`, the resource branch of `management.handle`, `GetAsset` | operators over paths as sequences of parts; one action is a request on both ways |
| `PrefixEditor` | the modal | `HandleSavePrefix`, then `AnswerOK` or `AnswerError`; the host applies the change between, or after a timeout; `last` remembers which save of a credential it executed last |

`EgoWorker` is shown to implement `EgoDelivery` through a refinement mapping (the batch
followed by the channel is the buffer). `EgoProcess` continues where `EgoWorker` stops:
there the worker is one variable and the life of the process the subject. `EgoAccounting`
gives the columns of the rows that `EgoStorage` groups, and is kept apart because its inputs
and that module's interleavings multiply. `CredentialCard` takes
one credential of `QuotaRefresh` and what its answers carry; there the answers are only success or failure.
`MCCredentialCard` checks it together with `PrefixEditor`: two parts of one page that share no state, so
that each is explored while the other rests.
`EgoMaintenance` composes the page's overview with the plugin's flag, which `EgoProcess` keeps
over restarts. `EgoChart` and `PluginResources` add pure functions to the module they are about: they
are evaluated on every input within the bounds, from one state of that module, because they read none of it.

Operators named `...Unguarded`, `...Late` and the like, commented with "fault:", are plausible bugs;
each property was seen to fail when its fault replaces the real definition.

## 3. Runs

Every run takes at most a few minutes. "Violated" runs state what a document or comment of the
repository says and the code does not do.

| Run | Checks | Shows |
|---|---|---|
| `worker_safety` | `TypeOK`, `Accounted`, `StopSettles`, `CloseIsLast`, `ImplementsDelivery`, `EventuallySettled`, `StopReturns` | the worker's promises in every interleaving |
| `worker_stranded` | `ShutdownFlushesQueue`, violated | an event sent after the loop's last look stays in the channel |
| `process` | `OneWorker`, `PricedAsNamed`, `ChoiceHolds`, `OneAnswer`, `ShutdownStops`, `CallsAnswered` | two overlapping calls in each of two processes |
| `accounting` | `TokensAreTrue`, `CostIsTrue`, `SpeedIsTrue` | any two requests of five providers under two price lists, reported in every way, with cache tokens or thoughts left out too |
| `accounting_compat` | `CostIsTrue`, violated | a provider that only its executor tells to be OpenAI compatible |
| `storage` | `SummaryAddsUp`, `TimelineAccounts`, `RankingsAddUp`, `ChartFollowsEvents` | a query over a changing table; charts of any three events |
| `quota_refresh` | `OneFetchPerFile`, `SpinnersHaveFetches`, `UnattendedIsHarmless`, `RefreshWaitsForBodies` | clicks, timer and Refresh all in every overlap; every guard is released, or waits for one body that never ends |
| `refresh_stalled` | `RefreshEnds`, violated | a body that stalls after its headers holds the guards for ever |
| `card` | `SpentIsConfirmed`, `CountFollows`, `StatusFollows`, `CardFollows`, `SavedIsShownAndTold`, `LockedWhileSaving` | redemptions and switches against Refresh and Refresh all, given up or late; prefixes saved, refused, timed out or late |
| `overview` | `ButtonTellsPending`, `NewestOrFlagged`, `OneSnapshot`, `SelectedRangeShown`, `SwitchTellsTruth`, `ErasedIsGone` | overlapping loads, prompts, sign-ins, a midnight; the switch and the erasing buttons, with lost and late answers |
| `dispatcher` | `HostKeepsUp`, `AnswerIsOwn`, `DashboardServed`, `CallsReturn` | registrations that overlap or fail, requests, new routes; every path on both ways |
| `prefix_dismissed` | `EverySaveIsShownAndTold`, violated | Escape during a save |

### Bounds, and why they are enough

- *Worker.* Capacity 1 and batches of 2, with three events: the channel overflows, a batch fills
  and is flushed, a rest is flushed by a tick, events are dropped. Two Stop calls (one waits for
  the other), one SetEnabled, a prune that takes two of the three events, resets. A fourth
  event only repeats these; the proofs below do not depend on the numbers.
- *Process.* Two calls are enough to have one in the `sync.Once` and one waiting, or
  two SetEnabled calls that overlap; two runs give one restart. Of three models one has a pinned rate in
  lower case, one in capitals, and one only a rate an old version left behind; six names spell them in
  other ways, one is an alias.
- *Accounting.* Token counts of 0, 1 or 2 with a TPS threshold of 2 (20 in the code) and milliseconds of 2 ticks
  (10^6 nanoseconds in the code) put a request on either side of every comparison: failed or not, streamed or not, without a
  first byte, with one after the end, with less than a millisecond between. Thoughts may exceed the reported output and cache
  tokens the reported input, and two requests make sums of unlike requests, so that clip and maximum mix them. Price lists with
  and without cache rates reach every fallback.
- *Storage.* Hours of two ticks over three ticks: windows that start inside an hour, touch, end before
  or after the events. Three rows make groups of two and one, the lighter group ahead or behind, and
  lists beyond a limit of 1. One request with its read lock among the writers: readers share the
  lock and write nothing, so a second one adds nothing but its own copy.
- *Charts.* Bars of four ticks, two of them, over 13 ticks: the oldest bucket is cut by the window, events
  stand on both sides of every edge, and three of them put two into a bucket. Zones on and
  beside the hour, with clocks set forward or back in either bar; for days every pair of zones of server and browser,
  with clocks set at midnight, just before it or well away from it, so that a midnight is skipped or comes twice.
- *Quotas.* Two credentials, one of xAI for the billable fallback, and three slots for calls:
  one more than the guard should ever admit, so that a missing guard has room to show.
- *Card.* Up to two credits and two confirmed redemptions: a redemption on a count that is already
  old, and one after a timeout. Two PATCH requests, symmetric, since a render can unlock the switch: one may be given
  up and executed while the other is answered. The card starts with two credits, of which Codex may refuse
  to take any.
- *Overview.* Two sections make a mixture visible, two loads an overlap, one midnight two windows
  of Today, two keys one that is refused. Two clicks in the panel: a second POST while
  the first is given up but not yet executed, or an erasure between two turns of the switch.
- *Dispatcher.* Two calls make an overlap, two paths a registration that fails half way, two handlers beside the
  first a path that is bound anew after it was copied. Two registrations, one with OAuth and one without. Paths of up to four parts
  out of five, which leave the files and come back.
- *Prefix editor.* Two credentials, two prefixes, three saves: one may fail and one be stored late
  while a third is in progress, for the same credential or the other.

Deadlock is not checked where everybody may stop calling: hosts, users and clocks are not obliged to
act, and the bounded counters end.

### Fairness

- `EgoWorker!FairSpec`, `EgoProcess!FairSpec`: weak fairness of each goroutine's own steps. The Go
  scheduler runs what can run; select with several ready cases is nondeterministic but the
  loop as a whole proceeds, so fairness is on `FlushLoop`, not on its branches. `StopReturns` needs no
  more: the drain loop takes only as many events as are accepted, and there are finitely many calls
  of Record. No fairness on calls, deletions or restarts.
- `PluginResources!RSpec`: weak fairness of each call of the dispatcher: goroutines run, and the router
  answers each call, with a refusal perhaps. A router that never answers keeps its caller, not the lock.
- `QuotaRefresh!TimerSpec`: the browser fires timers and runs callbacks, so requests
  leave the headers stage (`apiFetch` aborts after 30 s). Nothing is assumed of bodies, since no code bounds them:
  `apiFetch` clears its timer in a `finally` after the headers (`index.html:3048`). `RefreshWaitsForBodies` says how
  far refreshing ends all the same, and `refresh_stalled` that it does not end as the README has it.

## 4. Disagreements with the documents

1. *Events left behind by a shutdown* (`worker.go:303`). `main.go:171` says the queue is flushed,
   "otherwise they are lost on every restart". Record never looks at `stopCh`, so a call between check
   and send adds an event after the final look. What does hold is `StopSettles`: everything
   accepted before Stop was asked for is settled.
2. *Closing the modal during a save* (`index.html:5344`). The answer is applied to whatever
   `activeModalFile` is by then. With the modal kept open all properties hold.
3. *Cost of OpenAI-compatible providers* (`pricing.go:87`). Cost resolves the token
   semantics by name alone; the executor type that decided `total_tokens` is not stored.

4. *A body that stalls* (`index.html:3048`). `README.md:105` lists "Concurrency guards, 30s timeout handlers" under Safety &
   Robustness. The timer is cleared once the headers are there; a body that stops afterwards keeps its credential in
   `pendingQuota` and `isRefreshingAll` set for ever, so that Refresh, Refresh all and the 180 s timer do nothing more.

Three more are described by properties that hold, with the deviation written into them:

5. *Dates of the daily bars* (`index.html:6127`). `README.md:119` says "daily for 7d, 30d", but the bars are
   multiples of 24 hours before today's midnight. After clocks were set forward, the bars from before
   that day begin at 23:00 and carry the date of the day before; the events of the day of the change stand under
   the date of its eve. `ChartFollowsEvents` says that these, and no other bars, have a wrong date. An event of the 25th hour of a
   day on which clocks are set back is in no bar while it is today.
6. *Spelling of model names* (`pricing.go:22`). `README.md:114` says "Only case/whitespace normalization
   remains". The name asked for is normalised, the names of the list are not: a name of the list with capitals
   (527 of 4219 have some) is found in exactly its own spelling. `PricedAsNamed` states what does hold.
7. *A late 401* (`index.html:3120`, `5928`). It clears the key whichever key the request carried, also one accepted
   meanwhile, and the page asks again. The overview's actions do so; no property forbids it.

## 5. Proofs

Each module of proofs is named after the module it is about and extends it. Three are about a second one too:
`CredentialCardProofs` about `PrefixEditor`, whose `EditorSpec` speaks of other variables of the page,
`EgoStorageProofs` about `EgoChart`, and `LifecycleDispatcherProofs` about `PluginResources`. Every invariant and
every action property of the passing runs is a theorem. All proofs are of one shape: an
inductive invariant, which contains the properties and what makes them inductive; a lemma for
each action, or for each kind of step that actions have in common; and the theorems as
consequences. Each inductive invariant was also checked with TLC, on the instances of section 3. The theorems
hold for every value of the constants that satisfies the named assumption of its module.

**`EgoWorkerProofs`**, for any number of events, callers, capacity and batch size above zero.

- `TypeCorrect`: the type invariant with the bounds of channel and batch. It is inductive by itself; the part that
  makes it so is that the batch is below its limit wherever the loop may take another event.
- `StopSettlesEverything`, `NoInsertAfterClose`: `StopSettles` is not inductive, because nothing in
  it says why `owed` must be zero at the end. `StopInv` adds that what is owed is a prefix of batch
  and channel; on the final flush it is within the batch, as the channel was seen empty; when the
  loop is done nothing is owed; Stop returns, and the database closes, only when the loop is done; and
  a stop call exists exactly if `stopCh` is closed.
- `EveryEventAccounted`: an event is in one place, and lost, deleted or stored only once. By kinds of steps: what
  is sent, moved, flushed, deleted.
- `WorkerImplementsDelivery`: the refinement of `EgoDelivery`. The mapping needs `FlushInv` (a flush that was
  begun has something in the batch), or an insertion would map to no step of the buffer.

**`EgoProcessProofs`**, for any number of calls, restarts, models and names.

- `OneWorkerOnly`: `OnceInv` says who may be inside the body of the `sync.Once`: one call, while `once` is running.
- `EveryNameHasItsPrice`: `CacheInv` follows the cache from empty to the pinned list, whatever statement fails; the
  rest is about the lookup by name, for any list, spelling and alias (`FirstHit`, `SeededIsPinned`).
- `LastChoiceHolds`: `ChoiceInv` relates flag, disk and the last choice, and says why a choice that was alone
  leaves them alike.
- `OneAnswerEach`, `ShutdownStopsEverything`: a buffer for each call that has returned; a shutdown after the `Once`.

**`EgoAccountingProofs`**, for any providers, host reports, thresholds, price lists and number of requests.

- `EveryTokenOnce`, `SampledSpeed`: `CountsAreTrue` says it of every provider's columns,
  with their types; the step rests on lemmas about one event, by the way its provider reports (`EventTotal`), and about
  the guards of `tpsSample`, one by one, against the request itself (`EventSample`). Whole milliseconds lose less than
  one each (`Division`).
- `EveryTokenBilledOnce`: the cost of summed columns is the sum of the costs, less at most what the reports left out.
  Costs of events do not add up: a clip and a maximum of sums are not the sums of clips and maxima. What does add up is an
  account of the columns (`Books`): the prompt column with what was left out of it, less the cache columns, is the fresh tokens
  (`Fresh`); the completion column with the thoughts, or what was left out, is the tokens produced (`Produced`); and the true
  cost is theirs (`Price`). An event keeps it (`EventBooks`), sums keep it (`BooksAdd`), and the clip and the maximum, taken once
  on the sums, stay within what was left out (`BooksBound`). Its hypothesis `NamesTell(Sources)` says that a
  provider's name tells the semantics its executor has. `MCEgoAccounting` checks it for the sources of
  the run `accounting`; without it the property is false, which is what `accounting_compat` shows.

**`LifecycleDispatcherProofs`**, for any paths, handlers, registrations, calls and embedded files.

- `HostNeverFallsBehind`: `HostInv` says that whoever may still write to the router has seen at least what was
  promised, so that an old copy of the routes cannot undo it.
- `EveryAnswerIsOwn`: as long as a registration is alone the metadata is what it left (`OwnInv`).
- `FilesAreServed`, for any embedded files and any path, however long. `path.Clean` is a fold, which goes through the
  path; the reference `Named` is said of the whole path at once. That the fold has a value at every length, and one only, is
  shown by a smallest set of lengths (`OneWalk`, `SomeWalk`). Then `KeptInv` is carried
  along the path as long as it does not leave the files (`Walked`): as many names are kept as the walk is deep, and the j-th is
  the one it last went to depth j with. So a path that stays inside keeps exactly the names it never climbed out of
  (`NamedIsKept`), cleaning once more changes nothing (`NamesAreClean`), and one that leaves keeps a `..` in front, which no
  embedded file has (`LeftBehind`).
- `RequestsRead`: a request for a file is a stutter of the dispatcher, so the first two hold of `RSpec`, which the run
  `dispatcher` checks.

**`QuotaRefreshProofs`**, for any credentials and any number of overlapping calls.

- `OneFetchForEachFile`, `EverySpinnerHasAFetch`: inductive together, with the types.
- `UnattendedRefreshIsHarmless`, an action property: `PingInv` says that the ping is reached by a click only, and
  that a fetch of xAI reports an error only after a ping.

**`EgoOverviewProofs`**, for any sections, ranges, keys and number of overlapping loads, over `EgoOverview` and over
`EgoMaintenance`.

- `ButtonFollowsLoads`, `NewestWins`, `OneBoundarySnapshot`, `SelectionIsShown`: every step begins a load, ends one or
  keeps them (`Kinds`). The state of the button that is restored is always that of an enabled one (`ButtonInv`); once
  the newest load is over it is shown wherever nothing is flagged, whatever else is on its way (`NewestInv`).
- `MaintenanceImplementsOverview`: every step with the panel is a step of the overview or none, so these
  four hold with it too (`OverviewHoldsInPanel`), which is what the run `overview` checks.
- `SwitchIsTrue`: `SwitchInv` says what the switch and the plugin have while a POST is on its way; `ReadInv` that what
  was read since the last change is what the plugin has.
- `ErasedStaysGone`: an erasure happened while the newest load had begun, and only a newer one makes up for it (`EraseInv`).

**`EgoStorageProofs`**, for any number of requests, events and groups, any limits and lengths of windows.

- `SummariesAddUp`: while a request holds the read lock the table is what its first statement counted (`CountedInv`),
  since every writer waits for it, and so is the number of rows in each group.
- `TimelinesAccount`, `RankingsAccount`: answers are computed in one step, so what has to be shown is that
  sums over groups and over points count each row once. `MapThenSumSet` is defined by recursion on a set; that two functions
  which satisfy its recursion agree (`OneSum`) is proved by a smallest subset on which they would not, with
  the theorems about well-founded relations. `LabelsAddUp` and `PointsAddUp` follow for rows labelled in any way, and
  `WholeHours` places Today's buckets.
- `ChartsFollow`, for any zones, clocks, unit, number of bars and events. Bars that add up points are a label on the events:
  the bar of the point that an event is in (`RollingPoints`, `BarsAddUp`). So `Follows` is a matter of how far a label may be
  from its event (`LabelsFollow`): the first event of a bucket is less than a unit earlier, and a repeated hour longer, than any other
  of it (`NameLag`), and in the same bar where the server is whole hours from the epoch (`AlignedName`). For the dates,
  `MidnightIs` says which of the two candidates is the browser's midnight, also when it is skipped or comes twice, and `BarDates`
  what date a bar has on either side of the moment the clocks are set. Today needs `WholeHours` only.
- `ChartsRead`: drawing is a stutter of `EgoStorage`, so the first three hold of `ChartSpec`, which the run `storage` checks.

**`CredentialCardProofs`**, for any credits, redemptions and PATCH requests.

- `EveryCreditIsConfirmed`, `CountIsTrue`, `StatusIsTrue`, `CardIsTrue`: what has been read and not been overtaken is
  the truth (`ReadInv`), so that a fresh read makes good whatever was wrong. With that `CountFollows`, `StatusFollows` and
  `CardFollows` are inductive; for the count one also has to know which requests may still spend a credit (`SpentInv`).
- `SavesAreShownAndTold`, `ModalLockedWhileSaving`, of the prefix editor, for any credentials, prefixes and saves: as long
  as nobody closed the modal a save in flight is the only one and its file is still the active one (`OneSave`); the host
  has what the save it executed last stored (`HostHas`), whatever was given up before.

What the proofs assume are the named assumptions of the modules: positive capacities, providers in the relation
the name tests have, usages as natural numbers, payloads of registrations as records of strings and
a Boolean, the pinned list as a function on the models, finitely many groups of events, and `""` not a key. In charts
by days a zone sets its clocks once, by less than a day. The embedded files are named by paths of at
least one part, none of them empty, `.` or `..`: `go:embed` takes no others.

Only model-checked:

- all liveness: `EventuallySettled`, `StopReturns`, `CallsAnswered`, `RefreshWaitsForBodies`, `CallsReturn`, since fairness and ENABLED
  are beyond the prover;
- what the four violated runs show: each is a behaviour that refutes a formula, which a run displays and a proof would not.

Induction over data is not available as such, because the library's theorems for it take an operator as a parameter,
which no prover here instantiates. Sums over sets and the fold over a path are proved about without it, by a
smallest subset or a smallest number on which the claim would fail.

## 6. Not modelled

- Parsers of the providers' payloads, rendering, preferences, the drawing of charts: sequential functions of
  their input, with example tests in `testdata`.
- Names, account masks, latencies and raw payloads of events, and the rounding of speeds
  (`weightedTPS`); sizes and counts of the settings answer.
- `UpsertPricingBatch`, which only tests call, and `internal/models/quota.go`, which nothing in the program calls.
- The data types of `ego/models.go` and `main.go`, and the constant payloads of `plugin.register` and
  `management.register`: no operation in them.
- Headers, types of content and methods refused by the resource handlers and the Ego handler: no state, and one answer each.
- Version, build scripts: no state.
- The host CLIProxyAPI, CPAMC and the providers: external, and free to answer anything or nothing.

Moments the code allows, which are harmless or outside these modules and which no property forbids:

- an event whose `Record` read the flag before `SetEnabled(false)` is stored after it (`worker.go:120`);
  `EgoWorker` has the step;
- the sections of one overview over a rolling range each read the clock for themselves (`storage.go:409`), so
  their windows differ by the time between them;
- `UpsertPricingBatch` can commit and then fail to reload its cache (`storage.go:338`);
- `loadAuthFiles` replaces the file objects while fetches hold the old ones (`index.html:3303`), whose
  statistics are then written to an object nobody renders;
- a late 401 clears a key accepted meanwhile (`index.html:3120`), see section 4.

## 7. Plan

What is left of the model is small: the replacement of the file objects by `loadAuthFiles`, in
`CredentialCard`, and the refusals above. The liveness properties would be next to prove, with a prover that
handles ENABLED: first `StopReturns`, whose measure is the number of events accepted and not yet taken by the loop.
