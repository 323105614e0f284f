# Metrics plugin: formal models, model checks and proofs

This directory holds TLA+ models of the Mattermost metrics plugin
(`server/*.go`, `webapp/src`), the TLC configurations that check them on small
instances, and theorems about them checked with TLAPS. Source lines are given as
`file.go:line`, relative to `server/` unless a path is given. `PROJECT.json`
maps every definition to the lines it stands for.

## 1. The system and its parts

The plugin scrapes the metrics endpoints of the servers of a Mattermost
deployment into a local time series database (TSDB), copies the TSDB's blocks to
the deployment's file store, and lets an administrator pack the blocks of a time
window into an archive (a *dump*) through *dump jobs*. In a cluster (HA) every
server runs a plugin process; one of them, the *scraper*, collects metrics, the
others only serve requests and run jobs.

| part | source | state it keeps | operations |
|---|---|---|---|
| Dump jobs | `job.go` | scheduler metadata entries, the map of started jobs under one KV key, `*DumpJob` in memory, archives in the file store | `CreateJob`, `GetAllJobs`, `DeleteJob`, `DeleteAllJobs`, `UpdateJob`, `JobCallback`, `DeleteDump` |
| HTTP API | `api.go` | none | seven routes, `authorized` |
| Block synchronisation | `sync.go`, `copy.go` | blocks of the local TSDB, block directories of the file store | `syncFileStore`, `syncWithRemote`, `cleanupRemote`, `copyDirectory` |
| Dump creation | `dump.go`, `copy.go` | a temporary directory, the archive | `createDump`, `copyFromFileStore`, `compressDirectory` |
| Lifecycle | `plugin.go` | goroutines, `closeChan`, `waitGroup`, `tsdbLock`, the TSDB, the scrape manager | `OnActivate`, `OnDeactivate` |
| Scraper election | `plugin.go` | the cluster mutex `singletonLock` | `LockWithContext` in `OnActivate`, `Unlock` in `OnDeactivate` |
| Cluster discovery | `cluster.go`, `plugin.go` | the last list of nodes | `pingClusterDiscoveryTable`, `topologyChanged` |
| Scrape targets | `configuration.go`, `calls_targets.go` | none | `generateTargetGroup`, `generateCallsTargets`, `resolveURL` |
| Configuration | `configuration.go` | the active configuration | `loadConfig`, `setConfiguration`, `getConfiguration`, `ConfigurationWillBeSaved`, `SetDefaults`, `IsValid` |
| Statistics | `stats.go` | none | `GetTSDBStats` |
| Support packet | `support_packet.go` | none | `GenerateSupportData` |
| Log adapter | `log.go` | none | `Log` |
| Web client | `webapp/src` | the list shown, a reload timer | mount, reload, create, delete, download |
| Build tools, mocks | `build/`, `server/mocks` | none | generated code and tooling |

How they interact: the web client calls the HTTP API; its handlers run the
operations on dump jobs, which hand callbacks to the job scheduler of the plugin
API and meet each other, on all servers, at one KV entry. A callback calls
`createDump`, which reads the block directories that the scraper's goroutine
`syncFileStore` writes and removes. `OnActivate` elects the scraper, opens the
TSDB and starts that goroutine, the scrape manager and the ping goroutine, which
sends scrape targets to the manager over a channel; `OnDeactivate` ends them.

What is hard, and the properties that make each part correct:

- **Dump jobs.** Any handler or callback of any server may run between the read and
  the write of the jobs map; processes die and restart between any two steps; a
  job sits first in the scheduler, then in the map, and is listed by two separate
  reads; the archive and the record that names it are written one after the
  other. Correct means: no update is lost (`RecordsIsolated`), a job runs once
  and its outcome does not change (`OutcomeIsFinal`), the two places behave as one
  registry (`ImplementsRegistry`), a listing misses nothing (`ListingComplete`),
  an archive that exists is served (`ArchiveServed`),
  records and archives agree (`DumpBacked`, `NoOrphanDump`), and every job ends
  (`JobFinishes`, `CancelCompletes`).
- **Blocks and dumps.** The file store has neither locks nor atomic directories: a
  dump reads what another server is writing or removing. Correct means: a
  readable `meta.json` stands for whole data (`MetaMeansWhole` in `StoreInv`), a
  dump is broken only by the cleanup of obsolete blocks and by tombstones that are
  being uploaded, the last file of a block (`BrokenOnlyByCleanup`), a successful dump
  omits no block but those past their retention or with an error that is logged, at
  debug level only if the `meta.json` is unreadable (`DumpIsComplete`), every block
  arrives (`BlockIsStored`) and leaves at the end of its retention (`ObsoleteIsRemoved`).
- **Lifecycle and election.** Four goroutines, three channels and a cluster mutex,
  ended in an order that must leave nothing behind. Correct means: one scraper
  (`OneScraper`), no use of a closed TSDB (`NoUseAfterClose`), targets that follow
  the topology (`TargetsFollow`), and a deactivation that returns
  (`DeactivationEnds`, `DeactivationAlwaysEnds`).
- **Configuration and scrape targets.** Settings are saved on the server, loaded by
  hooks that may overlap, and replaced while the ping goroutine makes targets from
  them; in a cluster targets are sent only when the topology changes. Correct means:
  settings in force are complete and valid whatever was saved (`ActiveIsValid`),
  valid ones that were loaded come into force (`SettingsApply`), a group goes by one copy of them
  (`OneCopy`), what is remembered was sent (`SentIsRemembered`), and the scraper ends
  up on the right targets (`SingleFollows`, `ClusterFollows`).
- **Statistics, dump times, log adapter.** Pure functions with edge cases
  (no block, unreadable ones, a zero that stands for none, indexes that move, items
  that are not strings). Correct means: what a direct definition says, on every small
  input (`StatsAreTrue`, `DumpTimesAreTrue`, `LogIsFaithful`).
- **Web client.** Answers arrive out of order or not at all, and after the table is
  gone. Correct means: only jobs that have had their outcome can be downloaded or
  removed one by one (`OnlyEndedTouched`), the interval ends with the table (`TimerEnds`), the list
  converges to the server's (`TableConverges`), modals close (`ModalCloses`).

The hazards are listed with their lines in `PROJECT.json` under "hazards".

## 2. Modules

| module | models | state | checked by | proofs |
|---|---|---|---|---|
| `DumpJobs` | `job.go`, the handlers of `api.go` that call it, `support_packet.go` | 14 variables, 23 actions | `jobs_*` | `DumpJobsProofs`, `DumpArchivesProofs` |
| `JobRegistry` | what an administrator sees of the jobs (abstract) | 3 variables | through `ImplementsRegistry` and `JobTable` | in `DumpJobsProofs` |
| `DumpJobsHistory` | `DumpJobs` with a history variable for requests that read | +1 | `jobs_store` | `DumpArchivesProofs` |
| `MetricsStore` | `sync.go`, `copy.go`, the reading half of `dump.go` | 7 variables | `store_*` | `MetricsStoreProofs`, `DumpReadsProofs` |
| `Lifecycle` | `plugin.go`, the topology of `cluster.go` | 8 variables | `lifecycle*` | `LifecycleProofs` |
| `Targets` | `generateTargetGroup`, `generateCallsTargets` (operators) | - | `scraping` | `ScrapingProofs` |
| `Scraping` | `configuration.go`, the ping goroutine of `plugin.go`; extends `Targets` | 10 variables, 12 actions | `scraping` | `ScrapingProofs` |
| `JobTable` | the table of jobs of the web client; composed with `JobRegistry` | 13 variables, 14 actions | `job_table` | `JobTableProofs` |
| `LogAdapter`, `BlockTimes` | `log.go`, `stats.go` and the times of `dump.go` (operators) | - | `algorithms` | `AlgorithmsProofs` |
| `Algorithms` | one call of each of these | 2 variables | `algorithms` | `AlgorithmsProofs` |
| `MC*` | instances for TLC: model values, inputs, symmetries | | | |

The detailed modules meet at interfaces that each models as a choice of the
environment. `DumpJobs` takes `createDump` as one step that succeeds or fails;
`MetricsStore` shows when it does. `MetricsStore` takes deactivation as a closed
channel and a goroutine that returns; `Lifecycle` shows that the TSDB stays open
until then, and that only one process runs this goroutine. `Lifecycle` takes the
goroutine as one that ends, possibly early. `Lifecycle` has the ping goroutine on
every server, with targets reduced to the topology; `Scraping` has it on the
scraper, with the settings and the targets themselves. `JobTable` has `JobRegistry`
for its server, which `DumpJobs` is proved to implement: the safety it shows of the
table (`TableInv`) holds over the scheduler, the locks and the crashes of `DumpJobs` as
well. Its liveness does not follow: it assumes that the server answers, which the
deadlock of `jobs_cancel` prevents.

### 2.1 `DumpJobs`

The actors are the goroutines of the job scheduler, `<<n, j>>` for job `j` on node
`n`, and the HTTP handlers. Each action is the code between two accesses to shared
state: `UpdateJobLock` takes the KV mutex and reads the jobs map (nobody else can
change it then), `UpdateJobWrite` writes it and releases the mutex, and so on. A
record is its status: `DumpLocation` is set exactly when the status is success.

| action | code |
|---|---|
| `CreateJob` | `CreateJob`, job.go:85-101 |
| `GetScheduled`, `GetFinished` | the two reads of `GetAllJobs`, job.go:103-158, for the listing, `DeleteAllJobs`, the download (api.go:147) and the support packet (support_packet.go:18) |
| `ReadArchive` | the read of the archive the listing has named, api.go:168, support_packet.go:48 |
| `DeleteJob`, `DeleteJobLock`, `CancelScheduled`, `DeleteDump`, `DeleteJobWrite` | `DeleteJob`, job.go:161-207, and `DeleteDump`, job.go:268-286 |
| `DeleteNext`, `RemoveDumpDirectory` | `DeleteAllJobs`, job.go:209-231 |
| `StartCallback`, `UpdateJobLock`, `UpdateJobWrite`, `CreateDump` | `JobCallback` and its two `UpdateJob`, the second one deferred |
| `RunJob`, `EndRun`, `Poll` | the scheduler (external) |
| `ContextDone` | a request context that ends while the handler waits |
| `Crash`, `Activate` | a process that dies; `SetCallback` and `Start` of the scheduler in `OnActivate` |

A handler whose process dies is gone; the cluster mutexes the process held expire.

### 2.2 `MetricsStore`

A block in the file store is a directory of three files in the order of their
names: the data (`chunks/`, `index`), `meta.json`, `tombstones`. A file is missing,
torn (being written, or left behind by a failed write) or whole. Writing a file is
two steps, removing a directory one step per file in any order, reading a block
from a dump one step for `meta.json`, one for the listing, one per file. Time is a
counter; a block is known by the largest time of its samples (`maxT`), which is
what retention and dump windows look at.

| action | code |
|---|---|
| `SyncTick`, `FinalSync`, `CopyFile` | the select and the deferred function of `syncFileStore`, `syncWithRemote`, `copyDirectory`, `copyFile` |
| `CleanTick`, `RemoveFile` | `cleanupRemote`, `RemoveDirectory` of the file store |
| `LoopEnds`, `Deactivate`, `Activate` | `closeChan` and the goroutine's start |
| `StartDump`, `ReadMeta`, `ListBlock`, `FetchFile`, `OpenDump` | `createDump` and `copyFromFileStore` |
| `CutBlock`, `CompactBlocks`, `DropBlock`, `Advance`, `Crash` | the TSDB, time and the process (external) |

### 2.3 `Lifecycle`

`proc[n]` is where the hooks of the process of node `n` are, `gr[n]` where its four
goroutines are. `Lock` and `LockTimeout` are the two ends of `LockWithContext`,
`OpenTSDB` the rest of `OnActivate`; `Deactivate`, `Wait`, `CloseTSDB` and `Leave`
are `OnDeactivate` with its deferred unlock. `PingTick` and `PingSend` are the two
halves of a turn of the ping goroutine: the decision, and the send over the
unbuffered `syncCh`, which is one step with the manager's receive. `PingFails` is every
error that ends this goroutine: of the database, of the query, of making the targets. An error of
`OnActivate` before the mutex is a process that ends (`Crash`). Whether the
deployment is a cluster (`ha`) does not change while a process runs.

### 2.4 `Scraping` and `Targets`

A target is the host and the endpoint its labels stand for; a group is a set of
them, because the manager scrapes the same whatever the order. Settings are two
fields: the node exporter switch, and one that stands for those `IsValid` looks at;
either may be nil. Loading the settings in `OnActivate` and making them active is one
step, since no hook has been called by then.

| action | code |
|---|---|
| `Save` | the server: `ConfigurationWillBeSaved` (configuration.go:222), then the hook |
| `LoadConfig`, `SetConfiguration` | the two halves of `OnConfigurationChange`, configuration.go:208-217 and 158-180 |
| `LoadFails` | the error of `LoadPluginConfiguration`, configuration.go:212: the hook returns it and nothing else happens |
| `Activate`, `Stop` | `loadConfig` in `OnActivate`, plugin.go:69; the end of the process |
| `PingTick` | tick, query, `topologyChanged`, and the copy of the settings, plugin.go:209-223, configuration.go:264 |
| `Gather` | the rest of `generateTargetGroup`, with `GetPluginStatus` and `resolveURL` that may fail |
| `Send` | the send over `syncCh` and the manager's receive |
| `PingFails` | the two errors that end the goroutine, plugin.go:213, 225 |
| `ChangeTable`, `ChangeCalls` | servers and the Calls plugin (external) |

### 2.5 `JobTable`

The table from its mounting to after its unmounting. Requests are sent, served (the
server lists the jobs at one moment) and answered in separate steps, so that answers
overtake each other. The server is `JobRegistry`, an instance over the same
variables; `Answer` makes the step a command asks for, `Server` every other one.

| action | code |
|---|---|
| `MountJobs`, `MountStats`, `MountFails` | `componentDidMount`, job_table.tsx:50-57 |
| `Unmount` | `componentWillUnmount`, job_table.tsx:59-63 |
| `Tick`, `ServeReload`, `ShowJobs`, `ReloadFails` | the interval and `reload`, job_table.tsx:56, 65-68 |
| `Submit`, `Confirm`, `Remove` | the buttons, job_schedule_modal.tsx:78, job_remove_modal.tsx:45, job_download_link.tsx:8 |
| `Answer`, `Finish` | the command on the server and its `finally`, job_table.tsx:82-103 |
| `OpenOrClose` | the modals |

### 2.6 `LogAdapter`, `BlockTimes`

Each is the function the code computes, a loop as what it holds after each iteration,
next to a definition that says what a reader expects, as conditions on the input.
Blocks are the records of their `meta.json` in the order in which they are listed. A
list of log items is a sequence of strings and of values of other types
(`OtherValues`), which equal none of the strings that the adapter compares them with
(log.go:54, 68, 69). The tests pass the level as a string; the TSDB and the scrape
manager log through go-kit's `level` package, whose levels are values of a type of their
own. Both kinds are inputs of the run and of the proofs.

### 2.7 External parts

What is not in the repository is modelled from how the code uses it and from what
its callers may rely on:

- *Job-once scheduler*: every process keeps a goroutine per metadata entry it has
  created or read when polling or starting. When its time comes, the goroutine
  takes the cluster mutex of the job, looks for the entry, runs the callback under
  one mutex per process, removes the entry and releases both. A job read back from
  its entry carries a map, not a `*DumpJob` (so the type assertion in
  `JobCallback` fails, job.go:50). `Cancel` waits for the mutex of the job.
- *Cluster mutex*: one holder at a time; refreshed while its process lives,
  expires after it died. Waiting is polling: no queue.
- *KV store*: single reads and writes are atomic; they may fail without effect.
- *File store*: no atomic directories; a write may fail and leave part of a file.
- *TSDB*: blocks are immutable; cut, compacted, dropped at any time while open.
- *Scrape manager*: `Run` receives target groups until `Stop`, then returns.
- *Discovery table*: lists the servers that run, this one included, ordered by
  identifier.
- *Server*: saves settings only if `ConfigurationWillBeSaved` lets it, and calls
  `OnConfigurationChange` later, in a goroutine of its own;
  calls `OnActivate` once per process, `OnDeactivate` at most once after
  it, and then ends the process; requests are served only while active.

## 3. Runs

The constants are the only bounds: the identifiers of jobs (`Jobs`) and blocks
(`Blocks`), the requests served at a time (`Callers`), the dumps (`Dumps`) and the last
point of time (`MaxClock`), the calls of the hook and the requests of the web client in
flight (`Hooks`, `TimerReloads`, `Commands`). How many requests, restarts and faults
happen, and in which order, is not bounded, with two exceptions: transient failures in
`Scraping` (`MaxGlitches`) and failing requests in `JobTable` (`MaxFailures`), because
neither promises anything while failures go on for ever.

| run | instance | shows |
|---|---|---|
| `jobs_crash` | 2 nodes, 2 jobs, 1 administrator who creates and deletes; crashes, restarts, failing dumps, reads, writes and removals | `IInv` (inductive), `RecordsIsolated`, `OutcomeIsFinal`, `ImplementsRegistry` |
| `jobs_store` | 2 nodes, 2 jobs, 2 administrators who create, list, delete, download and take support packets; no faults | `IInv`, `RecordsIsolated`, `DumpBacked`, `NoOrphanDump`, `ListingComplete`, `ArchiveServed` |
| `jobs_finish` | 1 node, 2 jobs, every request but deletions; failing dumps, schedulings and reads, cancelled requests | `JobFinishes`, no deadlock |
| `jobs_cancel` | 1 node, 2 jobs, creation and deletion | violates `CancelCompletes` |
| `store_dump` | 2 blocks, 1 dump, retention 1, time 0..3; every fault but a failing listing of the file store | `StoreInv` (inductive), `BrokenOnlyByCleanup`, `DumpIsComplete` |
| `store_sync` | 3 blocks (two cut, one compacted), no dump; listings of the file store that fail in a synchronisation or a cleanup | `BlockIsStored`, `ObsoleteIsRemoved` |
| `store_partial` | 1 block, failing writes | violates `BlockIsStored` |
| `lifecycle` | 1 server or a cluster of 2; every fault | `LifeInv` (inductive), `TargetsFollow`, `DeactivationEnds` |
| `lifecycle_hang` | 1 server, no faults | violates `DeactivationAlwaysEnds` |
| `scraping` | 1 server or a cluster of 2, 1 RTCD node, 3 settings (nothing saved, exporter off, invalid), 2 calls of the hook, 1 transient failure (of a load, a query or a lookup) | `ScrapingInv` (inductive), `SingleFollows`, `ClusterFollows`, `SettingsApply` |
| `job_table` | 1 job, 1 reload of the timer and 1 command with its reload in flight, 1 failing request | `TableInv` (inductive), `TableConverges`, `ModalCloses` |
| `algorithms` | log lists of up to 4 pairs, levels as strings and of go-kit, up to 3 blocks, 5 dump windows | `LogIsFaithful`, `StatsAreTrue`, `DumpTimesAreTrue` |

*Why the bounds are enough.* Every conflict in `job.go` is between two actors over
one entry or between one job's record and another's: two jobs, two nodes and two
handlers give every pair, in every order, and the proofs remove the bound for the
properties they cover. In `MetricsStore` blocks only meet in a compaction of two
into a third (`store_sync`) and in the order a dump or a synchronisation takes
them (two suffice); time 0..3 with retention 1 and local retention 2 has a block
in the window, obsolete in the file store but still local, and dropped. In `Lifecycle`
processes meet only at the mutex and the discovery table. In `Scraping` a list of one
server and one of two are the two branches of `generateTargetGroup`, and two calls of
the hook give every overlap; one failure is followed by every recovery. In `JobTable`
a reload of the timer, one of a command and the first request of the mounting give
three answers in any order; jobs do not meet in it (the proof of `TableInv` is for any
number), and a status of one job with every history is what a list can be wrong about.
In `algorithms` three blocks give every order of a least, a greatest and an unreadable
one, and four pairs every position of the message and the level.

*Windows.* `store_dump` asks for all but a block of the last point of time, so that
blocks inside and outside the window are met.

*Symmetry* is used in runs without liveness only: over jobs, over nodes swapped
together with their handlers, over blocks. No definition chooses among them.

*Deadlock* is checked in `jobs_finish`, `store_*` and `lifecycle`. `scraping` stops when
the ping goroutine has ended or the saved settings keep the plugin from being
activated, `job_table` when the table and its requests are gone, `algorithms` after a call. The other runs of
`DumpJobs` turn it off because the code really stops: with deletions they reach
the deadlock that `jobs_cancel` shows, and identifiers run out. `lifecycle_hang`
stops where the finding says.

*Fairness.* A goroutine that can run does (weak fairness). A goroutine that waits
for a mutex polls it, and a `select` picks at random among its ready cases: neither
misses for ever something that is ready again and again (strong fairness). Requests,
polls, ticks of the clock, restarts, activation, elections and faults are never owed:
where a handler can fail, the failure is an action of its own without fairness
(`PingFails`, `LoadFails`, the leaving of `SyncLeaves`), or a branch next to a normal one
that is always enabled with it, so that fairness never forces it (`OpenTSDB`, which a
process takes once; the reads, writes and listings of `MetricsStore`; `Gather`, at most
`MaxGlitches` times). A cleanup that cannot list the file store changes nothing and is
tried at the next tick: `ObsoleteIsRemoved` assumes that it succeeds in the end.
`TargetsFollow`, `SingleFollows` and `ClusterFollows` speak of a
ping goroutine that no error has ended.
The ticker of the ping goroutine does tick, and a call of the hook goes on. In the web
client the interval ticks, requests are answered and their promises settle, all of
which the browser does unless a request fails; what the administrator does is never
owed; that requests are answered is an assumption about the server, which
`JobRegistry` does not give. `SettingsApply` assumes that calls of the hook do not overlap
(if they do, the older one may be the last to set its settings) and that the last of them
could load the settings (`NoneFailed`): nothing repeats a load that failed, and the
older settings stay in force until the next save or activation.

### Findings

1. `jobs_cancel`: `DeleteJob` calls `scheduler.Cancel` under the KV mutex (job.go:184).
   If the callback of the job has started and waits for the KV mutex in its first
   `UpdateJob`, it holds the mutex of the job that `Cancel` waits for. Both wait
   for ever, and with them every later request about jobs.
2. `store_partial`: `syncWithRemote` takes any listed directory for a stored block
   (sync.go:139). A block whose copy failed is never completed; without a
   `meta.json` it is not cleaned up either.
3. `lifecycle_hang`: the ping goroutine's send does not look at `closeChan`
   (plugin.go:228). If the scrape manager stops first, `OnDeactivate` does not return.

What the passing runs leave out because of these: `CancelCompletes` and
`DeactivationAlwaysEnds` are replaced by `JobFinishes` (runs without deletions) and
`DeactivationEnds`; `DumpBacked` is checked without `deleteAll`, without failing
writes of the KV store and without crashes (a record may survive its archive
otherwise: job.go:188, and job.go:224 where `DeleteAllJobs` removes the archives of
jobs that finished after its listing), `NoOrphanDump` likewise. `OnlyEndedTouched` is
about the removal of a single job: "Remove All" (job_table.tsx:98-103) has
`DeleteAllJobs` cancel the jobs it has listed, running ones too (job.go:215, 184), and so
leads to the deadlock of finding 1. `TimerEnds` excepts a
table that goes before its first answers, whose interval is then never cleared
(job_table.tsx:56).

Four more places where the code does not do what its comments say, or loses something
without a word. They were met while modelling and have no run of their own:

- *The level of log entries* (log.go:69). The comment at log.go:19-21 says that `Log`
  "calculates the log level", and the example at log.go:41-51 shows an entry of the
  TSDB with `level=info`. The level in such an entry is a value of go-kit's `level`
  package, not a string; no case of the `switch` is equal to it, and **every** entry
  of the TSDB and of the scrape manager, an error too, is logged by `LogInfo`. The
  theorem `GoKitLevelsAreLost` states it; `LogIsFaithful` says what still holds.
- *The requested window* (job_table.tsx:73-75). The comment speaks of adding one more
  day to the range; the day is added to the object that the modal keeps, so that a second
  submission of the same selection asks for two more days, a third for three.
- *The ping goroutine* (plugin.go:212-215, 224-227, 197-200). The comment at
  plugin.go:183 says "we want to continuously check for changes to the cluster"; the
  first error ends the goroutine until the plugin is activated again.
- *Two settings lookups* (configuration.go:212, 228). A load that fails leaves the
  older settings in force with nothing to repeat it, and `ConfigurationWillBeSaved` looks
  under `PluginName` instead of the plugin's identifier and so always examines the
  defaults.

## 4. Proofs

TLAPS proves, for every value of the constants that satisfies the modules' named
assumptions (distinct model values, natural numbers, known faults, blocks that begin
after 1970 and not after their end, loggable lists of pairs of items that are strings or
equal to none of the adapter's):

| theorem | module | says |
|---|---|---|
| `Invariance` | `DumpJobsProofs` | `Spec => []IInv` |
| `RecordsAreIsolated` | `DumpJobsProofs` | `Spec => RecordsIsolated` |
| `OutcomesAreFinal` | `DumpJobsProofs` | `Spec => OutcomeIsFinal` |
| `RegistryIsImplemented` | `DumpJobsProofs` | `Spec => ImplementsRegistry` |
| `StoreInvHolds` | `MetricsStoreProofs` | `Spec => []StoreInv` unless listing the file store may fail |
| `LifeInvHolds` | `LifecycleProofs` | `Spec => []LifeInv` |
| `ScrapersExclusive` | `LifecycleProofs` | two live scrapers of a cluster are the same |
| `ScrapingInvariance` | `ScrapingProofs` | `Spec => []ScrapingInv` |
| `GroupsAreExpected` | `ScrapingProofs` | the targets generated are those the settings ask for, but for the empty label set |
| `TableInvariance` | `JobTableProofs` | `Spec => []TableInv` |
| `DumpsAreBacked` | `DumpArchivesProofs` | `Spec => []DumpBacked` without `DeleteAllJobs`, crashes and failing writes of the KV store |
| `NoDumpIsOrphaned` | `DumpArchivesProofs` | `Spec => []NoOrphanDump` without crashes and without failures of the KV store, of removing and of creating a dump |
| `ListingsAreComplete` | `DumpArchivesProofs` | `HistSpec => []ListingComplete`, whatever fails |
| `ArchivesAreServed` | `DumpArchivesProofs` | `HistSpec => []ArchiveServed` unless reading an archive may fail |
| `OnlyCleanupBreaksDumps` | `DumpReadsProofs` | `Spec => []BrokenOnlyByCleanup` unless listing the file store may fail |
| `DumpsAreComplete` | `DumpReadsProofs` | `Spec => []DumpIsComplete` unless listing the file store may fail |
| `LogsAreFaithful` | `AlgorithmsProofs` | `Spec => []LogIsFaithful`, for lists of any length and values of any type |
| `GoKitLevelsAreLost` | `AlgorithmsProofs` | an entry whose level is not a string goes to `LogInfo` |
| `StatsDescribeBlocks` | `AlgorithmsProofs` | `Spec => []StatsAreTrue`, for any number of blocks |
| `DumpTimesEnclose` | `AlgorithmsProofs` | `Spec => []DumpTimesAreTrue`, for any number of blocks and any window |

*Dump jobs.* That a record with an outcome never changes is not inductive by itself.
`IInv` adds what it rests on: who is inside the critical section of the jobs map,
and that the map in his hands is the stored one (`ReadModifyWrite`); that only one
goroutine of the cluster runs a job, and only while its metadata entry exists
(`OneRunner`); that a job is tracked where it was created while this entry exists
(`KnownJobs`), because a job must not lose its only capable runner to another node
and come back; how far the callback is and what the record may say then
(`Progress`); and that a final record repeats the callback's outcome (`Outcome`).
Every action keeps every conjunct; isolation, finality and the refinement are then
properties of single steps from states of `IInv`. The refinement maps `created` to
the used identifiers, the merge of entries and records to the visible status, and
the `*DumpJob` to the outcome; each action is an action of `JobRegistry` or a stutter.

*Archives.* `IInv` types a request but does not say where it may be; `Shape` does. With
it `DumpBacked` needs that the archive of a success is uploaded before the record is
written (`Uploaded`), and that a `DeleteDump` that has removed the archive ends by
deleting the record. The assumptions are what the code needs: `DeleteAllJobs` removes the
directory although a job may have finished since it listed the jobs, and a `DeleteDump`
that dies or cannot write leaves the record without its archive. `NoOrphanDump` needs
that only a success is about to be recorded for an archive (`Committing`) and that who
deletes the record of a success has removed the archive (`Erasing`); a crash, an archive
that cannot be removed or a record that cannot be written leaves an orphan, and an
upload that fails may leave a part of an archive.

*Listings and downloads.* The history variable `lasting` holds the jobs (or archives)
there since a request began. A listing that misses one would have found it neither among
the scheduler's entries nor, later, in the stored records; `Remembered` says that a
lasting job without a record was among the entries that were read. This holds with every
fault, because the record of a job is written before its entry goes. `Kept` says the same
of archives: their record, once read, says success. Reading an archive may fail by itself,
which is what the assumption of `ArchivesAreServed` leaves out.

*Blocks.* `MetaMeansWhole` holds because files are copied in order into a directory
that did not exist: `Copying` says so for the block in progress and for those to
come. `Cleaning` says that only obsolete blocks are removed, and obsolete blocks
stay so because time does not go back and blocks do not change. `Fetching` types
the dumps. If listing the file store fails, a synchronisation copies over whole
blocks; `Copying` does not hold then, hence the assumption.

*Dumps.* A dump fetches a block file by file while the scraping node uploads and removes
files. `SoundDump` follows it: a block it has chosen by its `meta.json` is whole or
obsolete, and so is what it has fetched of the first two files, because whole blocks stay
whole until they become obsolete (`WholeStays`) and obsolete ones stay so
(`ObsoleteForGood`). `OwingDump` accounts for every block that was whole when the dump
started: fetched, logged as an error, obsolete, or still to come.

*Lifecycle.* `OneScraper` and `NoUseAfterClose` need `Stages`: goroutines run only
between `OpenTSDB` and the end of `Wait`, the TSDB is open until `CloseTSDB`, and a
process of a cluster gets to `OpenTSDB` only with the mutex. A step of one node
keeps the invariant for the others unless it takes their mutex (`NodeStep`).

*Scraping.* The invariant is inductive: a call of the hook carries complete settings
(`LoadedIsComplete`) and only valid ones get through `setConfiguration`; the group the
goroutine is about to send covers the list it has just remembered, so that it still
does once it has been sent. What a group covers comes from two lemmas that say which
targets each half of it has (`ServerTargetsHas`, `CallsTargetsHas`); they also give
`GroupsAreExpected`.

*Job table.* An outcome never changes in the registry (`RegistryStep`), so every list
taken from it, at the server, in flight or on the screen, stays truthful however old
it is (`StaysTruthful`); a request to remove a job comes from such a list.

*Algorithms.* Each loop is a function defined by recursion, so the proofs show that there
is one and then what it holds after each iteration: the statistics of the blocks up to
there (`DescribesMore`), the times of those taken (`EnclosesMore`). Induction is stated for a set of numbers (`Ascent`)
rather than for a predicate, and rests on the least counterexample that the library's theorem
on well-founded relations gives; `Iteration` builds the function. The number of samples
is compared with a sum over a set, taken in an order of its own: the same induction over
subsets shows that the order does not matter (`SumsInAnyOrder`). For the log adapter,
removing a pair from the list is removing two items (`PairRemoved`), and the first item
equal to a key is that key (`KeyIndex`) - also the level's, looked for after the message
is gone. The level is then the value the list has, which chooses the call only if it is a
string (`GoKitLevelsAreLost`).

*Only model-checked.* Liveness (`JobFinishes`, `BlockIsStored`, `ObsoleteIsRemoved`,
`TargetsFollow`, `DeactivationEnds`, `SingleFollows`, `ClusterFollows`, `SettingsApply`,
`TableConverges`, `ModalCloses`), which TLAPS cannot reach under fairness. Every safety
property of a passing run is proved, under the assumptions of the table; TLC checks
the named assumptions on every instance.

## 5. What is not modelled

- The periods of tickers and time-outs: a tick or a time-out may come at any time.
  The race of the 20 seconds of `LockWithContext` with the expiry of a dead
  process's mutex is a choice.
- The contents of blocks, compaction and packing of a dump.
- HTTP routing, permissions, decoding and the writing of responses (a response races
  with the callback of the job it shows, api.go:90).
- Changes of the retention period while the plugin runs, and the data race on the
  pointer to the configuration (plugin.go:142, sync.go:31); the comment at
  configuration.go:155 speaks of a panic where `setConfiguration` returns an error,
  which no caller can provoke.
- Ports, addresses and labels beyond host and endpoint; the SQL query of the discovery
  table and the age of its entries.
- In the web client: rendering, formatting, the download in the browser, which days are
  preselected and requested (job_schedule_modal.tsx:51, job_table.tsx:75; with no day selected the submission fails in
  the click handler, line 80), and the statistics, fetched once per table.
- Build tools and generated mocks.

## 6. Plan

What is left are proofs, in this order:

1. What remains of `DumpBacked` with `DeleteAllJobs` and with crashes: which records may
   be without their archive, and that only these are.
2. What remains of the store's properties when listing the file store fails: that a block
   that is being copied over is the only one that may be torn.
3. Action properties of the configuration and of the lifecycle (what a step may not undo)
   from `ScrapingInv` and `LifeInv`.
