# PowerScale Data Insights in TLA+

This directory holds specifications of the two collectors of this repository,
`gostats` and `goppstats`, the configurations that model-check them with TLC,
and theorems about them that TLAPS checks. Paths below are relative to the
root of the repository.

## The system

| Component | State it keeps | Operations | What makes it correct |
|---|---|---|---|
| Supervisor: `main()` of `cmd/gostats/main.go` and `cmd/goppstats/main.go` | the configuration, the context of the process and that of the run, the reload channel of one token, the loops of the run | start a run, serve a reload (cancel, wait, read, start over), stop on SIGTERM or when all loops have ended | a run works from one configuration, no loop of an earlier run survives, no edit or SIGHUP is lost, the process ends when told to, a bad file does not end it |
| Configuration watcher: `internal/platform/platform.go` | the fsnotify watch, a debounce timer | handle a write, handle a rename or removal (add the watch again), fire the timer | every change of the file leads to a reload |
| Collection loop of gostats: `statsloop` in `cmd/gostats/main.go`, `pq.go`, `WriteStats` in `backend.go` | a priority queue of buckets and summary stats, the wait of the retry loop it is in | take an item, fetch, put it back, write, back off | no item is lost or starved, each is served once a period, retries are as many as configured, cancellation ends it |
| Statistics query: `cmd/gostats/isilon_api.go` | results so far, keys that failed, attempt, backoff | cut the keys into requests, ask, merge, ask again | asks again for exactly what failed, never harms a good value, ends |
| PAPI client: `internal/api/api.go` | session, CSRF token, `reauthTime`, the limit of retries | Connect, RestGet, Authenticate | a body is that of an answer that was OK, no request carries the token of a session that was replaced, a call ends |
| Prometheus sink of gostats: `cmd/gostats/prometheus.go` | metric families with their samples and label counts, under a mutex | write points, expire, collect (a scrape) | counts agree with samples, a page is consistent and has the samples that have not expired, no gap after one missed collection |
| Buckets: `parseStatConfig`, `calcBuckets` in `cmd/gostats/main.go`, `fetchStatDetails` in `isilon_api.go` | the intervals of the groups, the metadata of the stats | read the groups, ask for the metadata of each stat, put stats into buckets by interval | every valid stat in one bucket, none collected more often than the minimum |
| Decoding of values: `WriteStats`, `decodeStat` in `cmd/gostats/backend.go` | the points of a batch | a JSON value into rows of fields and tags | no number lost or made up, each with the tags of all objects around it, no value crashes the process |
| Collection loop of goppstats: `statsloop` in `cmd/goppstats/main.go` | the datasets, a cache of export paths | poll every 30 seconds, retry reads and writes | changes of the datasets are found, workloads go to their dataset, cancellation ends it |
| Prometheus sink of goppstats: `cmd/goppstats/prometheus.go` | as for gostats, and two maps of datasets | `UpdateDatasets`, write, expire, collect | the two maps agree, points find their dataset, no two metrics of a page are the same, no series is gone between two polls |
| `dashgen`: `cmd/dashgen/main.go` | none | writes the panels of a dataset | the queries find what goppstats writes, each row once |
| Other backends: `internal/backend` | a client | write points | a write ends |
| Service discovery for Prometheus, dashboards, scripts, deployment | none that changes | | |

How they interact: `main()` starts one collection loop per enabled cluster as a
goroutine, under a context of the run that is a child of that of the process.
A loop owns its PAPI client and its sink, and calls them one at a time; it
shares `&conf` with `main()`. With Prometheus each loop opens an HTTP endpoint
whose handlers share the sink under its mutex; a goroutine closes the endpoint
when the context of the run is done. The SIGHUP forwarder and the watcher send
to the reload channel without blocking; the SIGTERM forwarder cancels the
context of the process. A run ends when all its loops have (`sync.WaitGroup`).

What is hard: reload, shutdown, edits and the ends of loops come in any order;
the file may be missing, broken or flawed at the moment it is looked at; one
loop serves many schedules and blocks on the slowest; retries exist on four
levels (connection, session, statistic, write) with different limits; results
fail one by one; samples expire by another clock than the one they are
collected by. `PROJECT.json` lists these places line by line under `hazards`.

## The modules

| Module | Models | State and actions in terms of the code |
|---|---|---|
| `ConfigWatcher` | the file and the watcher goroutine | `watch` is the fsnotify watch, bound to the inode; `events` what fsnotify has reported; `timer` is `debounceTimer`; `reload` the token in the channel. `Edit` is the environment: writes in place, renames over the file, removal, re-creation |
| `Supervisor` | `main()`, its forwarders, and loops and endpoints as `main()` sees them; EXTENDS `ConfigWatcher` | `main` is the place in `main()`; `conf` the configuration with the version of the file it was read from; `cancelled` is `cancelRun()`; `coll[c]` the goroutine of cluster `c`; `seen[c]` what it read through `&conf`; `endpoints` the listeners with the run that opened them. `AllDone` is `<-done` |
| `ReconfService` | the abstract specification: workers that only ever work from the configuration in force, which changes only while none works | |
| `StatQuery` | `GetStats` and `GetStatsWithRetry` | `batches` are the requests of the call, `results` a function from key and device, each with the attempt that brought it; `failed` is `failedKeys`, `attempt` and `backoff` are the code's |
| `RetriedQuery` | the abstract specification of a query: so many answers and no more, none of which touches what is settled | |
| `StatsLoop` | the loop of `statsloop`, the queue, `WriteStats` | `queue`, `due` are the heap and its priorities, `item` is `nextItem`, `pc` the place in the loop, `wake` the end of a `time.After`, `tries` the index of the loop over writes; `count` is a history variable |
| `Buckets` | `parseStatConfig`, `fetchStatDetails`, `calcBuckets` | `sg` are the groups as parsed, `details` the metadata, stat by stat, `buckets` the result. Seconds with fractions are natural numbers of halves; the conversion to `time.Duration` is a division that cuts off |
| `DecodeValue` | `decodeStat`, `decodeValue` | pure: the set of all outcomes of decoding a value, over the orders in which Go may visit a map. The calls of `decodeValue` for the parts of a value are a function of the depth that is left (`DecodeAll`), so that theorems can be about them; `MaxDepth` is the depth `encoding/json` accepts. `Leaves` is what decoding has to produce, `Regular` what the code relies on to produce it |
| `StatPath` | `WriteStats`; EXTENDS `Buckets` and `DecodeValue` | the way of a stat from the file to the back end: the loop takes a bucket, each of its results is skipped or decoded, and the points are handed over or lost together |
| `PapiClient` | `Connect`, `RestGet`, `Authenticate` | `fresh` says that the request at hand has the token of the session in the cookie jar, `stale` that the client's token is not that one, `reauthDue` that `reauthTime` has passed, `tries` and `posts` the passes of the two loops, `resp` what the last GET left in `resp` |
| `PPLoop` | the poll loop of goppstats and the datasets of its Prometheus sink | `defs` are the datasets the cluster has, changed by its users at any moment; `di` is the last answer of `GetDataSetInfo`, `todo` and `ds` the place in the loop over it, `got` the dataset the workloads came from; `dsm` and `byKey` are `dsm` and `dsByStatKey`, both by slot, since OneFS has one stat key for each slot; `alive` says that the request, or the wait, began before the cancellation. A dataset is identified by its creation time |
| `PromSink` | `WritePoints`, `Expire`, `Collect` | `fam` is `s.fam`, `page` what the last scrape exported. Each method holds the mutex from end to end and is one action; `written` is a history variable |
| `PPSink` | `ppStatsToPoints`, the samples and pages of goppstats, the timing of its polls, the queries of `dashgen` | `pathOf` is `exports.pathByID`, `todo`, `ds`, `points` the place in the poll, `elapsed` and `wait` its clock and its timer, `samples` those of all families with their age; `late`, `wrote` and `last` are history variables |
| `MC*` | instances of the above for TLC | |
| `*Proofs` | theorems | |

`Supervisor` sees a loop only as something that reads the configuration,
connects, collects, may be stuck in a write to InfluxDB v1, and ends;
`StatsLoop` sees a query only as something that succeeds or fails; `StatQuery`
sees a request only as something that is answered or fails; `PapiClient` says
when. `StatPath` is what `StatsLoop` calls `Fetched`, `DecodeFails` and
`Written`, with the values in it, and it makes the buckets that `StatsLoop`
starts from. `PPLoop` stands beside `StatsLoop`: it sees its requests and writes
in the same way, and `PPSink` has the values and the time of its polls. The seams
are the actions `LoopEnds`, `Fetched`/`FetchFails` and
`BatchAnswered`/`QueryAnswered`/`QueryFails`/`RetryFails`; the last seam is
itself specified, by `RetriedQuery`, which `StatQuery` implements.

Beside a definition there may be one marked *Mutant*: the same definition with
a plausible bug. `PROJECT.json` says which property of which run fails when the
mutant takes its place; no specification uses them.

## The runs

| Run | What it checks | Bounds, and why they are enough |
|---|---|---|
| `supervisor` | `TypeOK`, `OneConfiguration`, `NoLostEdit`, `NobodyLeftBehind`, `WatchOnFile`, refinement of `ReconfService` | two clusters, so that one loop can lag behind another; one file for each kind of flaw, one broken, two sound; two edits, so that one edit can come while the reload for another is under way, and a file can go and come back |
| `supervisor_live` | `ShutdownCompletes`, `ReloadServed`, `StaleEndpointCloses` | one cluster, sound files with Prometheus and InfluxDB v2, two edits and a SIGHUP |
| `stat_query` | `TypeOK`, `RetriesWhatFailed`, `BatchesCover`, refinement of `RetriedQuery`, `CallReturns` | three keys in two requests, one with two nodes, so that a key can fail on one node only and a retry in one request only; retries ask in sorted order, which is not the order of the bucket; two retries; a first backoff of 1000 s, so that doubling meets the cap |
| `stats_loop` | `TypeOK`, `EveryPeriodOnce`, `StopsWhenCancelled` | intervals of 1, 2 and 3 units over 12 units of time: the three schedules meet, fall behind and catch up; three writes |
| `stat_path` | `TypeOK`, `EachStatOnce`, `NeverTooOften`, `RowsMatchValue` | three stats, two groups and one that shares a stat; seven configurations, with and without `fetch_by_statgroup`, that meet each case of the code once: fractions, zeros with and without a minimum, strings that do not parse, equal intervals, a group named twice, a stat in two groups; metadata on demand, of half a second, of two seconds behind a persistent policy, and missing; values nested three deep with one and two lists, with all or part of a list dropped, and of every wrong shape; `MaxDepth` is 5, deeper than any of them. `ValuesAreRegular` says that the values are such as the theorem about them asks for |
| `papi_client` | `TypeOK`, `BodyIsOk`, `RequestIsFresh`, `CallReturns`, `CancelStops` | both kinds of authentication; limits of 1 and 3 passes, the smallest and one with a pass that is neither first nor last, and no limit |
| `pp_loop` | `TypeOK`, `SinkFollowsAnswer`, `MislabelsOnlyTheNew`, `FindsChanges`, `StopsWhenCancelled` | two slots for users and two names, so that a dataset can move to the other slot and another take its name; three creations, so that this can happen between two polls and once more during one; two writes; with the sink of Prometheus and with another |
| `pp_sink` | `TypeOK`, `PageHasNoDuplicates`, `OnePathPerExport`, `NoGapUnlessSlower`, `DashboardsShowAll` | a dataset by exports with a workload that is regular, pinned under one number or another, and an overflow bucket; one by protocols with a type nobody knows; exports looked up or not, a lookup that works or fails; `Period` and `Lifetime` are one unit that stands for 30 seconds, and a poll takes up to two: shorter than it may, as long, and longer |
| `prom_sink` | `TypeOK`, `LabelCounts`, `PageIsSound`, `ScrapesAreExact` | a stat of two fields and one of one, two tag sets of which one has a label more; a sample lives for two units of 5 seconds, and there are three: time to see one sample of a family expire while another lives, one written again in time, and a family go and return |
| `reload_kills`, `decode_panics`, `scrape_gap` | one promise of the documentation or of a comment each, which the code does not keep | see below |

In all runs `MaxEdits`, `MaxHups`, `MaxTime`, `MaxElapsed` and `MaxCreations` are
the only bounds on behaviour; they stand in the guards of the environment's
actions. `StatPath`, `StatQuery` and `PapiClient` need none: their states are
finite. In
`stats_loop` a loop that is behind its schedule when it is cancelled may go on
as long as its requests succeed; in the code each new request fails then, so
that it stops sooner than the model demands.

### Fairness

* `Supervisor`: the Go scheduler runs what can run, so `main()`, the forwarder
  and the watcher are weakly fair. A loop whose context is done returns, for
  all its waits have a `ctx.Done()` case and its requests carry the context;
  the one exception, the write to InfluxDB v1, is left out. Edits, signals and
  failures are fair to nobody.
* `StatQuery`, `PapiClient`: a request is answered or fails, a timer fires.
  The HTTP client has no timeout of its own; what ends a request that is not
  answered is TCP or, once the run is cancelled, the context.
* `StatsLoop`: the goroutine goes on whenever it can, with any outcome of the
  requests and writes; for InfluxDB v1 this does not hold, see the remarks
  below. Time is not fair: nothing relies on it.
* `PPLoop`: the same, and the read is strongly fair: a cluster that is asked
  again and again for a dataset it has answers in the end. Without this a
  loop that reads for ever would never list the datasets again. The users of
  the cluster are fair to nobody.

### Where the documentation and the code differ

Each of these runs ends with a counterexample, and `PROJECT.json` quotes the
sentence under `findings`.

* `reload_kills`: a failed reload is said to be recovered from. A file that
  decodes but has a stat in two groups, an interval of zero or a logging
  section without an output ends the process, by `die()` or `os.Exit`, on a
  reload as at startup.
* `decode_panics`: a statistic with the name `change_notify` is to be dropped.
  If all operations of a list inside an object are dropped, or the list is
  empty, `decodeValue` takes the member for a string and reads the first of no
  tags: the process crashes, with the collections of all its clusters.
* `scrape_gap`: a sample is said to survive two collections
  (`configs/gostats.example.toml`, `docs/configuration.md` and
  `internal/config/config.go`), so that one which is missed makes no gap. It
  survives two update intervals of the stat. With the defaults a stat that
  updates every 5 s is collected every 30 s, and its sample is gone from 10 s
  after a collection until the next, though none is missed. `ScrapesAreExact`
  says what the code does: a scrape has the samples that have not expired, and
  no other.

More remarks, which the models show without a run of their own, on what a
reader of the documentation may expect otherwise:

* `docs/configuration.md` says that edits are detected. When the file is moved
  away and the new one written afterwards, the second `watcher.Add` fails, its
  error is dropped, and no later edit is seen (`HandleGone`). Renaming a new
  file over the old one works: `NoLostEdit`.
* The changelogs say that endpoints shut down gracefully on exit. Nobody waits
  for the goroutines that call `Shutdown`: in `Supervisor`, `SelectShutdown` does
  not wait for `CloseEndpoint`.
* They say that all blocking operations respect cancellation. The write to
  InfluxDB v1 takes no context: `ShutdownCompletes` does not hold with the back
  end `influxdb`, which `supervisor_live` leaves out.
* A comment of `dashgen` asks that its names for Prometheus match those of
  goppstats. With `lookup_export_ids`, goppstats adds `export_path` to the names
  of a dataset by exports; `dashgen` does not, with its flag `-export-path` or
  without, and these panels stay empty: `PanelsMissLookedUp` proves it.
  `DashboardsShowAll` says that all other panels, and those for InfluxDB, show
  each row once.
* A login that is answered with 201 and a body that does not parse leaves the
  client with the cookies of the new session and the CSRF token of the old one.
  `RequestIsFresh` holds only with its disjunct `stale`, which is this case.
* `docs/configuration.md` says of `stats_processor_max_retries` that writes are
  retried; those of summary stats are not, and one that fails ends the
  collection of its cluster (`SummaryWriteFails` of `StatsLoop`).
* `docs/architecture.md` says that goppstats discovers the removal of datasets.
  It does between polls; but a dataset removed after it was listed is asked for
  until it comes back, if OneFS answers such a request with an error, which is
  what `PPLoop` takes it to do. `FindsChanges` holds only with its last
  disjunct, `AsksForGone`, which is this case.
* `calcBuckets`: a group with an absolute time does not look at the metadata, so
  that its stats are asked for even if the cluster does not know them, and it
  has a bucket even if it lists none; an absolute time below one second with a
  minimum of zero gives an interval of zero, which the other path of the code
  treats as an error and dies of. Without buckets the loop returns, also when
  summary stats are configured. Metadata that is missing once is missing for
  the run.
* `decodeValue` relies on values being of a shape that it never checks, and that
  `Regular` of `DecodeValue` writes down. Elements of a list are no strings, which
  would put the slices of fields and tags out of step. A string is not named as
  a tag that every row has (it would replace the name of the cluster or the
  number of the node) nor as a string inside a list of the same object (one of
  the two would be lost). An object that is a member of another and no element
  of a list has no strings: its numbers are kept, they are dropped. Two members
  make different fields, unless both are lists; otherwise one number replaces
  another, and which one depends on the order in which Go visits a map. For each
  of these there are values that break it and violate `RowsMatchValue`. None is
  known of OneFS, and `MCValues` has none.
* The label `pinned` tells samples of pinned workloads from others, but not two
  pins of the same workload: one that is unpinned and pinned anew, under a new
  number, while its sample lives, makes a page with two metrics of the same name
  and labels, the new value and the last one of before. They differ by their
  timestamps only, and the handler serves what it can (`ContinueOnError`).
  `PageHasNoDuplicates` excepts this case. Two datasets with the same metrics
  share their families, and the samples of their overflow buckets replace each
  other.
* An export that could not be looked up is "unknown" until the run ends.

## What is proved

The theorems hold for every value of the constants that meets the assumptions
of the modules (`SupervisorAssumption`, `WatcherAssumption`,
`QueryAssumption`, `LoopAssumption`, `LimitsAssumption`, `PPAssumption`,
`BucketsAssumption`, `JsonAssumption`, `PathAssumption`, and `SinkAssumption` of
`PromSink` and of `PPSink`): any clusters, files, keys, devices, items,
intervals, slots, names, groups, values, tag sets, datasets, workloads and
limits. The number of edits, SIGHUPs and datasets and the time are bounded by
constants of any size.

* `SupervisorProofs`. `TypeCorrect`; then two inductive invariants.
  `OneRun` joins `OneConfiguration` and `NobodyLeftBehind`: neither is
  inductive alone, for the configuration changes safely only because no loop
  is left, and no loop is left at that place only because it was cancelled and
  waited for. `EditInv` joins `NoLostEdit` and `WatchOnFile`: an edit raises
  an event only while the watch is really on a file. From `OneRun`,
  `SupervisorRefinesService` shows that each step of the supervisor is a step
  of `ReconfService` or leaves its variables alone.
* `StatQueryProofs`. `QueryInvariant`: the type invariant with `RetryInv`,
  which adds to `RetriesWhatFailed` that a wait is never entered after the last
  attempt and that a first query has no results yet. With it, `QueryRefines`
  shows for each action which step of `RetriedQuery` it is; that a call goes on
  exactly as long as something is unsettled and a try is left, and that no
  answer touches what is settled, are conjuncts of `Answer` there.
  `RequestsAreOfCall` says that the requests do not change from the call to its
  return, and `RequestsCoverKeys` that they cover the keys, `BatchesCover`. The
  latter is an induction over the list of keys: after each of them the requests
  so far are disjoint, have the keys so far, are no longer than a path may be
  unless one key alone is, and none but the only one is empty (`Sound`,
  `AddKeySound`). The provers cannot instantiate an induction theorem that takes
  a predicate; `Induction`, `Recursion` and `InductionUpTo` take sets, and rest
  on the fact that a set of numbers has a least one (`WFMin`). `CallGetsCloser`
  is what `CallReturns` rests on: every step of a call but the cancellation
  lowers the attempts that are left or, within one, the requests.
* `StatsLoopProofs`. `ScheduleInv`: `NothingDropped`, `NoneAhead` and what
  makes the latter inductive, that the item in hand is due no later than any
  other. `GridInv` then says that priorities lie on the grid of the intervals
  (`due[i] = count[i] * Interval[i]`), which gives `EveryPeriodIsServedOnce`.
  `NothingIsDropped` and `NoneGetsAhead` are theorems without a run: a loop that
  drops an item or lets one get ahead violates `EveryPeriodOnce` too.
* `PapiClientProofs`. `BodyComesFromOk` needs that a call which has not
  returned has no result; `RequestsAreFresh` needs the same of a request that
  waits to be sent again. `CallGetsCloser` gives the measure for `CallReturns`: the
  passes of the loop over GETs that are left, which no login gives back, then the
  POSTs of the login; it needs that a login for the timer comes before the first
  pass (`LoginInvariant`). `CancelledCallLeaves` says more than `CancelStops` about
  how soon: after the cancellation a call has at most four steps left, whatever
  the limit of retries.
* `PPLoopProofs`. `PollInvariant` joins `SinkFollowsAnswer` with what the
  cluster and the last answer have to do with each other. The comparison of
  creation times finds every change because a dataset that was there at the
  last answer and still is has kept its slot; that is also why workloads that
  come back under a name belong either to the dataset that was listed or to a
  newer one, which is `MislabelsOnlyNew`. Both need that names are unique and
  that creation times are never given twice, which is what the actions of the
  users say.
* `StatPathProofs`. `ScheduleInv` adds to the types that no stat is in two
  active groups, that absolute times obey the minimum, and that the buckets are
  those of `calcBuckets` for complete metadata. From the first, a stat has one
  key, hence one bucket (`OneKey`): `EachStatIsOnce`. `NeverIsTooOften` rests on
  what a division that cuts off can leave (`Truncation`). `PathInv` joins it with
  the types of the whole path, so that the same holds while the buckets are
  collected. Then `RowsAreOfValue`, that every row has numbers of its value, with
  the tags of all objects around them, and that no number is lost but with an
  operation that is dropped. It holds for values of any size and depth that are
  `Regular`, for any order in which Go visits a map. The proof is by induction
  over the depth (`DepthsMatch`). Within one value it follows the loop over
  the parts: `LoopDone` relates the rows, the fields and the tags so far to the
  leaves of the parts visited so far, and `NestedMatches` what is made of them
  after the last one to the leaves of the value. `Regular` is a hypothesis of the
  theorem and no assumption of a module, since the code does not establish it;
  each of its clauses is needed.
* `PromSinkProofs`. The counts are cardinalities: `CarryUnion`, `CarryBounds` and
  `CarryRest` say how they change as samples come and go, which makes
  `LabelCounts` inductive (`FamiliesOK`, of which it is a part). `SinkInv` adds
  that a sample that is held was written. `Tracked` adds that what lives is held,
  and that what is held expires when its last write says; `PagesAreExact`, which is
  `ScrapesAreExact`, follows, since a scrape keeps what lives of what is held
  (`CollectSorts`). It is no invariant of single states but of the step in which a
  scrape is made.
* `PPSinkProofs`. `ContentInv`: every sample was made from a point of a dataset,
  no two have the same family and identity, and the path of an export is the
  one that is remembered, from which `OnePath` and `NoDuplicates` follow: the
  labels of a sample determine its identity but for the number of a pinned
  workload (`LabelsTellTags`). `TimingInv` relates the age of the samples that a
  dataset's last write gave to the time since, in this poll or the one before;
  `GapsAreSlow` follows where `Period <= Lifetime`. `LastOfDs` says of which points
  these samples are: from it come `PanelsShowAll` and `PanelsMissLookedUp`.

Every safety property of the passing runs is stated by a theorem, the two
refinements included. Only model-checked: the liveness properties
(`ShutdownCompletes`, `ReloadServed`, `StaleEndpointCloses`, `CallReturns`,
`StopsWhenCancelled`, `CancelStops`, `FindsChanges`), since fairness and `ENABLED`
are out of the prover's reach. Of `CallReturns` and `CancelStops` what is left to
TLC is that a call which has not returned can make a step.

## What is not modelled

* In `PPSink` the datasets are fixed and every request succeeds (`PPLoop` has the
  changes and the errors); the eleven fields of a workload are treated alike.
* HTTP, TLS, basic authentication and service discovery of the endpoints; the
  listing of `/metrics`; formats of points, logs and pages. They keep no state
  that anything modelled depends on.
* Of `dashgen`, reading the datasets and the layout of the JSON; dashboards and
  scripts.
* The race on the global `log` variable during a reload, an overflow of the
  queue of fsnotify, and an edit between the first reading of the file and the
  start of the watch.
* The identity of a sample as a string: tags with "=" and "," in their values.

## Plan

Done, in this order: `ConfigWatcher`, `Supervisor`, `ReconfService`,
`StatQuery`, `StatsLoop`, `PromSink`, `PapiClient`, `PPLoop`, `Buckets`,
`DecodeValue`, `StatPath`, `RetriedQuery`, `PPSink`, and the proofs of all of
them. Next:

1. `StatsLoop` with `RetriedQuery` in the place of `Fetched` and `FetchFails`,
   and with the summary statistics as requests of their own.
2. Datasets that change in `PPSink`, with the samples of removed datasets, which
   stay on the page until they expire.
3. Of the liveness properties of `Supervisor` and `PPLoop`, the part that can be
   proved: measures that each step of a shutdown or of a cancelled poll lowers, as
   there are for `StatQuery` and `PapiClient`.
