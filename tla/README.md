# A verification model of process_exporter

The exporter walks `/proc` on an interval, turns what it reads of each process
into per-group figures, and shows them to Prometheus. This directory holds a
TLA+ model of that program, the TLC configurations that check it on small
instances, and proofs that TLAPS checks for every size.

The interesting part of the program is not the parsing. It is that a process is
read in up to seven system calls while the machine runs on, that what is
exported is the difference of two such readings, and that a PID, a user, a
program or a file may be another one by the time the second is taken.

## 1. The system

| Part | State it keeps | Operations | Talks to |
|---|---|---|---|
| `scan` (scan.go) | the scan number | `Scan`, `readProcess`, `ResetState` | reads `/proc`, the state map, the filter, the namer, the active configuration |
| state map (state.go) | PID -> entry, the generation | `NextGeneration`, `Lookup`, `Put`, `Touch`, `Prune` | owned by the scanner |
| `filter` | compiled rules | `NeedsCmdline`, `Keep`, `IsKernelThread` | called by the scanner |
| `namer` | compiled rules | `Name`, `Sanitize` | called by the scanner |
| `aggregate` | accumulators, names seen, number of results | `Apply`, `Reset` | takes a `Result`, gives a `Snapshot` |
| `config` watcher | active configuration, stamp of the file, subscribers | `Run`, `reload`, `publish`, `Subscribe`, `Current` | the file, SIGHUP, channels to its subscribers |
| `config` load | none | `Load`, `Parse`, `normalise`, `Validate`, `NamingChanged` | called by main and the watcher; its result goes to `filter.New` and `namer.New` |
| `procfs` | the user cache | one reader for each file, `UserCache` | the kernel, `/etc/passwd` |
| `metrics` | the published snapshot, self-metrics | `Publish`, `Snapshot`, `Collect` | main, scrapes, HTTP handlers |
| `api` | the state of `Run` and of its listener | `/metrics`, `/groups`, `/stats`, `/readyz`, ... | the registry |
| main | the scan loop | | its source is not in the repository; what it does is taken from the comments of the packages and from docs/tech_spec.md |

What is hard here:

- **Concurrency with the kernel.** Every read races with exit, fork, exec,
  setuid and PID reuse.
- **Partial failure.** Each of the seven reads may find the process gone, be
  denied, or fail, and each has its own way out of `readProcess`.
- **Memory over time.** Baselines, cached names, cached descriptor counts and
  accumulators are used scans after they were taken.
- **Reloads.** A configuration arrives from a file that is edited at any time,
  through a channel that drops values.
- **Readers without locks.** Scrapes and requests walk a published snapshot, and
  names are looked up, while the next snapshot or a refresh replaces what they
  hold.
- **Ordering and limits.** Totals are copied, then pruned; the retention, the
  scan schedules and the channel all have a boundary.

What makes each part correct:

- *Scanner and state map*: a counter never includes what a process did before
  it was first read, nothing is lost or counted twice while the process keeps
  its entry, a running process keeps its entry, the map holds only what the
  last scan saw, and each listed process is tallied once.
- *Aggregator*: an exported total never goes backwards within the retention,
  and is forgotten after it.
- *Scanner and aggregator together*: each unit of work after the first reading
  enters one total at most once, and a total falls only by being forgotten.
- *Loader*: what is published can be compiled, keeps to its interval, and has the
  lists the operator wrote.
- *Watcher*: subscribers end with the newest configuration, and no edit hides
  another.
- *Registry and API*: what is published is never changed, a scrape shows one
  snapshot, no counter falls from one snapshot to a newer one, the self-metrics
  agree with it, and a stop request ends the server.
- *User cache*: after a refresh no name is older than the refresh, but for a
  lookup that it overtook, and no name is stale for ever.

## 2. The modules

| Module | Models | Role |
|---|---|---|
| `StateMap` | scan/state.go | operators on the map from PIDs to entries |
| `Filter` | filter/filter.go, `FilterConfig.NeedsCmdline` | pure operators |
| `Namer` | namer/namer.go | pure operators, over `Filter`'s texts |
| `ProcTable` | the kernel (external) | the process table and its steps |
| `Scanner` | scan/scan.go | the composition: a scanner on a running machine |
| `Aggregator` | aggregate/aggregate.go | accumulators, retention, snapshot |
| `Ledger` | | what a group's counter promises: the abstract specification |
| `Pipeline` | | `Scanner` and `Aggregator` composed; refines `Ledger` |
| `Registry` | metrics/metrics.go | the pointer, `Publish` and `Collect`, over `Aggregator` |
| `Server` | api/api.go | handlers, `Run` and its listener, over `Registry` |
| `Exporter` | | aggregator, registry and server composed with the loop of main |
| `LoadConfig` | config/load.go, defaults.go, config.go | from a document to a configuration: pure operators |
| `Watcher` | config/watcher.go | file, signals, reload, subscribers, over `LoadConfig` |
| `UserCache` | `UserCache` of procfs/system.go | lookups and refreshes that cross |
| `*Proofs` | | theorems: see section 4 |
| `MC*` | | values of the constants for TLC |

### ProcTable and Scanner

`proc` is the process table: PID -> start time, program, user, zombie. An
instance of a process is its start time, so a PID that is handed out again is
another instance. `work[i]` is the true value of every counter of instance `i`:
each unit of work adds one. The kernel forks, runs, executes, changes users,
exits and reaps between any two reads.

A scan is the sequence of actions `BeginScan`, then for each batch `StartBatch`,
the look at the context, and for each PID of it `ReadStat`, `ReadCmdline`, `ReadStatus`, `FilterAndName`, `ReadStatm`,
`ReadIO`, `ReadFDs`, `ReadSmaps` and `Record`, then `EndScan`; `AbortScan` is the
look that finds the context done. Each read is one system call with the code that
follows it up to the next; a stop request may fall between any two of these
actions. `pc` says which read comes next, and the operators `AfterStat`, `AfterCmdline`, `AfterStatm`, `AfterIO`
and `AfterFDs` skip the reads that the configuration, the cache or the schedule
make unnecessary. `FilterAndName` is the filter and the one `readlink` of
`exe`. PIDs are taken in any order, as the directory has none. The limits file
is read with `fd` and has no outcome of its own. What a process without a memory
map answers to `fd` and `smaps` is `WithoutMemory`: it depends on `SmapsRollup`,
whether the kernel has `smaps_rollup`, which the program finds out once.

| Code | Model |
|---|---|
| `StateMap.m`, `gen`, `Scanner.scanNo` | `m`, `gen`, `scanNo` |
| locals of `Scan` (`cfg`, `pids`, `i`, `end`, `doFDs`, `doSmaps`) | `scan`; `room` is what the batch has left |
| locals of `readProcess` (`st`, `prev`, `cmdline`, `userName`, `p`) | `rd` |
| `Result` | `res`, with the tallies as sets of PIDs |
| `Deps.Config`, `Filter`, `Namer` | `cfg` |
| ctx | `cancelled` |

`late`, `emitted` and `base` are history: what was read after a stop request,
what has been reported for each instance, and what its counter was at the first
read. They are written and never read by the program's part of the model.

Abstractions: the eight counters are three families, one for each file (`cpu`
from stat, `ctx` from status, `io` from io). A descriptor or PSS figure is the
number of the scan that read it, as only its age can be wrong. `Base` and
`Sanitize` are functions given by the model. A configuration, its filter and
its namer are captured together.

### Aggregator

The accumulators are a function from (name, user) to totals and a time. `Apply`
is one action, as the code holds the mutex throughout: it accumulates, copies
the totals into the live groups and prunes. The code is given the retention on
each call, from a configuration that may be reloaded; here it is one constant, so
nothing is said of a retention that changes while groups are away. A group's
sample has the descriptor and PSS sums, the worst ratio and the coverage counts
with the code's conditions on them; threads and memory are sums like `openFDs`. The list of groups is in any
order, as it comes out of a Go map. `exported` is history: what a key last
showed.

### Ledger and Pipeline

`Pipeline` lets the loop of main run: a scan (`ScanRound`), its result applied
(`ApplyResult`), the time (`Clock`) and a naming change that resets scanner and
aggregator (`NamingChange`) between two rounds. The kernel takes steps at any
time, and the watcher activates configurations at any time (`ReloadStep`), with
another naming too: scans and results may be of the new naming before the loop
answers it with the reset, or with none.

`Ledger` says what a CPU counter promises, without scans, files or PIDs: a
process works; it is *opened* once, which fixes what will never be counted; from
then on its work is *credited*, each unit at most once and to one group; a total
grows by exactly what is credited to it or is closed to zero when nothing is. The
refinement `Counted` maps

| Ledger | Pipeline |
|---|---|
| `consumed` | `work` |
| `opened` | `base["cpu"]`, the value at the first reading |
| `credited` | `emitted["cpu"]`, less what is in a result not applied yet |
| `total` | the accumulator of the group, zero when there is none |

so `Record` opens or stutters, `ApplyResult` credits, prune and reset close, and
every other step of the scanner stutters. What is recorded between a
scan and its `Apply` is in transit: the baseline has moved, the total has not.
Work between two entries of one process is never credited, as `credited` may
stay behind `consumed`; that is what a lost entry costs.

### Registry, Server and Exporter

The published pointer is an address. `heap` has the snapshots somebody can still
reach (the registry, a scrape, a `/groups` request); a snapshot whose last
reader has let go is dropped, so the state does not grow with the past.
`Publish` stores the pointer (`StoreSnapshot`) and then sets the self-metrics
one step at a time (`SetSelf`), as each is read by a collector of its own.
`Collect` is `BeginCollect`, which loads the pointer, a `CollectRow` for each
group with the series the code leaves out when nothing could be read, and
`EndCollect`. `/groups` is `GroupsLoad`, `GroupsSort` on its copy of the list,
in any order the sort allows, and `GroupsAnswer`. `/stats` and `/readyz` look at
one value: operators `Stats` and `Ready`.

`Run` and its listener are `srv`, `lis` and the channel `errCh` of capacity one:
the listener fails or is closed (`ListenerEnds`), sends (`ListenerSends`), and
`Run` takes the error (`RunReturnsErr`) or the stop request (`BeginShutdown`,
`EndShutdown`). `EndShutdown` needs no condition, as the ten seconds may pass
with requests open.

`Exporter` adds the loop: `ScanAndApply`, `StartPublish`, `GoOnPublishing` and
`NamingChange`. What a scan returns is one of `Results`; `known` decides whether
a process has deltas. The clock moves between two rounds (`Clock`), as the time
of a result is read when its scan begins. `era`, which counts the naming changes
before each snapshot, is history: `CountersOnward` speaks of two snapshots of one
naming.

### LoadConfig and Watcher

A document is what the decoder takes from a file: the fields it mentions.
`Parse` decodes into `Default`, normalises and validates, and is a function.
Lists keep the difference of nil and empty, on which the defaults depend, rules
their order and their fields, and `Validate` is the conjunction of what must
hold for it to report nothing. A pattern that does not compile is a member of
`BadPatterns`; a directory one of `Dirs`. `FilterNew` and `NamerNew` say when
compiling what was published succeeds, and `Sleeps` what `Scan` really sleeps,
beside `Estimate`, which is what `Validate` computes with truncated division.

`Watcher` takes one action for each system call, critical section and channel
operation of `Run`, `reload` and `publish`; its `Load` calls `Parse`. The file
is content and modification time; the subscribers empty their channels at any
time; the operator edits at any time.

### UserCache

One action is one critical section of the mutex or one read of the system
outside of it: `NameMisses`, `LookupId`, `NameStores`; `RefreshReads`,
`RefreshSwaps`. A hit changes nothing. Accounts are created, renamed and deleted
(`Change`); some are found by `LookupId` only. Each text is kept with the number
of changes its account had seen, which is history, as are `floor` and `crossed`.
`LookupFails` and `PasswdFails` let either read of the system fail: a lookup that
fails stores `uid:NNNN` for an account that exists (`Unread`), a file that cannot
be read gives an empty map.

### Mistakes

Each module defines, beside the operations, the plausible mistakes in them
(`PutOnce`, `PruneNothing`, `SwapStampingLate`, `CollectRowReloading` and
others). Put in the place of the operation, each makes the property it is paired
with in PROJECT.json fail.

## 3. The runs

Passing runs. Deadlock is checked in all of them; `Halted` and `PipelineHalted`
are steps that change nothing in the states in which the program has stopped or
a bound is reached.

| Run | What it shows | Bounds |
|---|---|---|
| `ScannerReuse` | `TypeOK`, `NoLifetimeTotalCPU`, `CPUConserved`, `OwnIdentity`, `KeepsLive` through PID reuse, also in the middle of a reading | 1 PID, 2 instances, 2 users, work 3, 3 scans, 2 configurations of one naming |
| `ScannerFaults` | `NoLifetimeTotalCPU`, `Accounting`, `FDFresh`, `PSSFresh`, `MapTracksScan` with every fault of every read, and resets | 1 PID, 2 instances, work 1, 3 scans, both periods 2 |
| `ScannerReload` | `CPUConserved`, `CtxIOConserved`, `KeepsLive`, `MapTracksScan`, `SkipsUnneeded` while filters change, listings fail, and the process executes, changes users and exits, with `smaps` for want of `smaps_rollup` | 1 process, 4 configurations, 3 scans |
| `ScannerStop` | `StopsWithinBatch`, `Accounting`, `ScanEnds`, with a stop request at any time | 3 PIDs, batches of 2 and of 1, 3 instances, 2 scans |
| `PipelineLedger` | `KeepsLedger`, `ForgetsAfterRetention`, `LiveGroupsKept`, `ResumesWithinRetention`, `TotalsBacked` | 1 PID, 2 instances, 2 groups of each of 2 namings, work 1, 4 scans, retention 1 of 2 units, reloads and resets |
| `ExporterScrapes` | `TypeOK`, `ScrapeWhole`, `SelfMetricsAgree`, `CountersOnward`, `PublishedFrozen`, `ServerStops` | 3 results, each one of 2, of up to 2 groups, 1 naming change, a clock of 1, 1 scrape and 1 request at a time |
| `UserCacheRefresh` | `TypeOK`, `FreshSinceRefresh`, `NamesSettle` | 2 accounts, 2 changes of each, 1 lookup and 1 refresh at a time, either of which may fail |
| `WatcherReload` | `TypeOK`, `NewestDelivered`, `StampMeansLoaded`, `PublishedCompiles`, `SleepsFit`, `ListsAsWritten`, `Converges` | 8 documents, 3 edits, 2 signals, 2 subscribers |

Why the bounds are enough. What goes wrong between a process and its entry
needs two holders of one PID, a first reading, a second, and one after the
entry was replaced: two instances and three scans. A refresh that fails after
one that did not needs two refreshes and a scan between them: period 2, three
scans. Walks that overlap a change of the list need more PIDs than one, and
a batch boundary inside the walk needs one PID more than a batch. A group that
is pruned and comes back needs an opening, a credit, an absence longer than the
retention and a return: four results, a clock of two and a retention of one. A
reader that is overtaken needs its own snapshot and two newer ones, so that the
first is neither shown nor the next to be: three results. A naming change must
have a result on each side. That two snapshots further apart than the retention
are compared no more needs a clock beyond it, which `PipelineLedger` has for the
totals and `OnwardCorrect` for the snapshots. A lookup that is overtaken needs one account, one
that answers from elsewhere needs another, and a name that is read, changed and
changed back needs two changes. A channel that is full when the next value
arrives needs two publications; the third covers a value that returns to an
earlier one. The documents hold both sides of each check that a property is
about: patterns that do not compile in a list and in a rule, an empty and an
absent list, and a batch setting on each side of the estimate. The theorems of
section 4 carry most of these properties to every size.

`KeepsLive` is checked without faults and without kernel threads kept by the
filter: `BugKthreadSmaps` shows that it fails with them. `CtxIOConserved` is
checked with readable files and without PID reuse: `BugZeroBaseline` shows the
first; for the second, a reading put together from the files of two processes
has the context switches and bytes of the wrong one, and the next `Lookup`
discards it. `FDFresh` and `PSSFresh` hold while listings succeed, as a failed
listing consumes its slot of the schedule. `StampMeansLoaded`, `ListsAsWritten`
and `Converges` assume that two edits have distinct modification times and that
the file is not edited before the watcher exists (`EarlyEdits` FALSE).
`FreshSinceRefresh` leaves out `crossed`, the names stored by a lookup that had
its answer when a refresh swapped the map: those may be old, which is what the
code allows, and `NamesSettle` says that they do not stay. It says no more: an
account that exists may stay `uid:NNNN` as long as lookups of it fail, because a
failed lookup is cached until the next refresh, when it may fail again.
`StopsWithinBatch` allows a whole batch after the request: the look at the context
has let it through, and the request comes before its first read.
`SkipsUnneeded` is about reads that were skipped. A `cmdline` or `status` that was
tried and failed leaves an empty text or no user, and the code decides over that.
`SelfMetricsAgree` is about the time between two rounds; within one, a scrape
may see the new snapshot with the old self-metrics, but never the reverse.

Runs that end in a violation. Each checks one statement that a document or a
comment of the repository makes and the code does not keep; PROJECT.json quotes
it.

| Run | Statement | What happens |
|---|---|---|
| `BugZeroBaseline` | a delta is never a lifetime total (state.go:5-7) | it is after a scan in which `io` was unreadable: the stored baseline is zero. The same code treats `status` so |
| `BugKthreadSmaps` | entries of an older generation belong to processes that are gone (README.md:86) | ESRCH of `smaps_rollup` loses the entry of a kernel thread that the filter keeps |
| `BugReadyAfterReset` | not ready while the counters are meaningless (user_manual.md:162, api.go:162-164) | a naming change empties the totals and the baselines, the next result has no delta, and `/readyz` goes on answering 200, as the number of scans survives |
| `BugWatcherStart` | a modified file is reloaded (watcher.go:13) | not one modified between main's load and `NewWatcher` |

Other disagreements between text and code met while modelling. The model
follows the code; no run is spent on them.

- scan.go:284, an ignored process costs one small read: it never gets an entry,
  so `cmdline` and `status` are read on every scan before the filter.
- scan.go:243-245, a denied cmdline is not fatal: it is empty, so with
  `ignore_kernel_threads` the process is ignored as a kernel thread.
- user_manual.md:1402, 1468, alerts on zombies: they have no command line and
  are ignored by default.
- state.go:26-28, user_manual.md:471, name and user never change: the cached
  name outlives execve and the cached user outlives setuid; a user cached while
  `status` was unreadable is `uid:0`.
- README.md:86 again: an error of `stat` other than exit also loses the entry
  of a running process.
- user_manual.md:999, the two expensive reads never meet: they do for a common
  period of 2 or 3, and on the first scan.
- user_manual.md:980, 1608, `groups` equals `names_seen`: not when two users run
  one program, as names are counted without the user.
- tech_spec.md:660, `MaxFDs` is matched to `OpenFDs`: a member without a limit
  counts in the second only.
- load.go:126-129, the duration estimate "warns rather than blocks": it is added
  to the problems like any other and rejects the file.
- system.go:128-131, "a newly created account resolves without a reload": not
  one that was looked up before it existed, as the failed lookup is cached.
- user_manual.md:485, a retention of 0 keeps nothing: `prune` returns at once for
  it, so the accumulators are kept for ever (aggregate.go:298).
- A stop request in the middle of a walk returns no result, so what the
  processes read so far had used since the scan before is in no total. The
  exporter stops, and no text says otherwise.

### Fairness

`Scanner!FairSpec` assumes weak fairness of the scanner's own steps: a read of
`/proc` returns, and the goroutine that scans waits for nothing but the sleep
between two batches, which is finite. It assumes nothing of the kernel, of
reloads or of a stop request.

`Watcher!FairSpec` assumes weak fairness of the watcher's goroutine, whose
ticker fires every ten seconds and whose sends never block, and of each
subscriber's receive. No edit and no signal is fair.

`Exporter!FairSpec` assumes weak fairness of `Run`, whose select notices a done
context and a sent error and whose `Shutdown` has a timer of ten seconds, and of
the listener's send, whose channel has a buffer. Clients, the scan loop and
naming changes owe nothing: a request may stay open for ever.

`UserCache!FairSpec` assumes that a lookup and a refresh that have begun end.
`NamesSettle` takes the reloads that keep coming as its premise and the end of
the changes from the bound `MaxChanges`.

## 4. What is proved

Every theorem holds for every value of the constants that its module's
assumptions and the theorem's own hypothesis allow. The last column names the
hypothesis; section 3 says which runs check the same property, and each
hypothesis is met by one of them.

| Module | Theorem | Property | If |
|---|---|---|---|
| `ScannerProofs` | `TypeCorrect` | `Spec => []TypeOK` | |
| | `CountingCorrect` | `Spec => []NoLifetimeTotalCPU` | |
| | `StopsCorrect` | `Spec => []StopsWithinBatch` | |
| | `SkipsCorrect` | `Spec => []SkipsUnneeded` | |
| | `SchedulesApart` | the two expensive reads meet on the first scan only | one period of four or more |
| `TallyProofs` | `AccountingCorrect` | `Spec => []Accounting` | |
| | `MapCorrect` | `Spec => MapTracksScan` | |
| | `KeepsLiveCorrect` | `Spec => KeepsLive` | `NothingLost` |
| `ResultProofs` | `ResultsAsAssumed` | what `ExporterAssumption` says of a result holds of the scanner's | |
| | `CPUConservedCorrect` | `Spec => []CPUConserved` | `NothingLost` |
| | `CtxIOConservedCorrect` | `Spec => []CtxIOConserved` | `NothingLost`, `Readable` |
| | `FDFreshCorrect` | `Spec => []FDFresh` | `SteadySchedule` |
| | `PSSFreshCorrect` | `Spec => []PSSFresh` | `SteadySchedule` |
| | `OwnIdentityCorrect` | `Spec => []OwnIdentity` | `Unchanging` |
| `PipelineProofs` | `RetentionCorrect` | `PipelineSpec => []ForgetsAfterRetention` | |
| | `LiveCorrect` | `PipelineSpec => []LiveGroupsKept` | |
| | `ResumesCorrect` | `PipelineSpec => ResumesWithinRetention` | |
| | `LedgerKept` | `PipelineSpec => KeepsLedger`, the refinement | |
| | `BackedCorrect` | `PipelineSpec => []TotalsBacked` | |
| `ExporterProofs` | `TypeCorrect` | `Spec => []TypeOK` | |
| | `FrozenCorrect` | `Spec => PublishedFrozen` | |
| | `ScrapeCorrect` | `Spec => []ScrapeWhole` | |
| | `SelfCorrect` | `Spec => []SelfMetricsAgree` | |
| | `OnwardCorrect` | `Spec => []CountersOnward` | |
| `WatcherProofs` | `TypeCorrect` | `Spec => []TypeOK` | |
| | `DeliveryCorrect` | `Spec => []NewestDelivered` | |
| | `StampCorrect` | `Spec => []StampMeansLoaded` | `EarlyEdits = FALSE` |
| | `CompilesCorrect` | `Spec => []PublishedCompiles` | |
| | `EstimateCorrect` | `Spec => []SleepsFit` | |
| | `ListsCorrect` | `Spec => []ListsAsWritten` | `EarlyEdits = FALSE` |
| `UserCacheProofs` | `TypeCorrect` | `Spec => []TypeOK` | |
| | `FreshnessCorrect` | `Spec => []FreshSinceRefresh` | |

`AggregatorProofs` has the facts about the operators that the others cite.

**Scanner.** From `KernelAssumption` and `ScannerAssumption`: PIDs are positive
naturals and finitely many (the kernel has `pid_max`), users are naturals, the
bounds naturals, users with an account are users, and batch sizes integers.

*Counters.* `NoLifetimeTotalCPU` is not inductive: it says nothing of the entry
that the next delta is taken against, nor of the reading in progress.
`CountingInv` adds `UniqueStarts`, that two PIDs never hold the same instance,
and `Baselines`, that an entry's baseline is at least what was first read plus
what was reported since, and that a reading of an instance is no older than its
baseline and no newer than its work. The steps that matter are `Record`, where
the delta moves `emitted` and the baseline together, and `ReadStat`, where
`Lookup` decides whether there is a baseline at all; the kernel's steps only
raise `work` or start an instance that has no history.

*Stopping.* A look at the context lets a batch through, and the request may come
before the first PID of it is read. `StopInv` therefore says that what was read
since the request and what the batch has room for are together no more than a
batch. A scan that begins after the request has room for nothing until it looks at
the context, and then ends, so nothing is carried from a batch of one size into
one of another.

*Skipped reads.* `SkipInv` says when a reading may arrive at the filter without its
command line having been tried: the filter does not ask for one, and the name is
in an entry that is still in the map when the name is taken (`Skipped`).
`KeepUnread`, that a filter which does not ask for the command line decides alike
for every one, then gives the property. A read that was tried and failed is not
covered: `cmdRead` records the attempt, as the code's `cmdlineRead` does.

*Tallies and map.* `Accounting` needs to know which process is under way:
`TallyInv` says that it is one that was taken from the list, and none between two
processes. Every step of a walk then either files the process under one tally
(`Files`) or goes on with none (`GoesOn`), and one lemma for each of the two
carries the invariant. `MapTracksScan` follows from `GenInv`: while a scan walks,
the entries of its generation are those of the processes it has met, and
everything reported has one. Both hold with every fault, failed listings and
resets.

*Running processes.* `KeepsLive` holds under `NothingLost`: no reset, no `stat`
that fails, no read that takes a living process for a vanished one, and
`smaps_rollup` read of nobody unless every process has a memory map. Each is needed: the first three
lose the entry by the code's own rule, the last is `BugKthreadSmaps`. `LiveEntries`
says that an entry of an older generation, once its PID was passed, is of an
instance that has gone; `Mapped` that a walk which reads `smaps_rollup` meets no process
without memory. So prune takes no entry of an instance that is still running.

*Conservation.* `CPUConserved` is an equality, so nothing may get lost, and the
invariant (`Exact`) must also say that a running process that was read has an
entry, which is `KeepsLive` again, and that a reading which found no entry is the
first of its instance. The ticks come with `stat`, the read that also has the
start time, and PID reuse cannot mix them up. Context switches and bytes come
with later files and may be those of the next holder of the PID; `Readable`
therefore excludes that (no `reap`, with which a reading stays one of the holder
of its PID: `Settled`), and files that are not read, which leave a zero baseline
(`BugZeroBaseline`).

*Age of figures.* `Recent` says of the figure in an entry that no scan was due
to renew it since the one that read it, and `RecentInv` keeps that over `Put`
and over a refresh that failed, which leaves no figure. It needs `SteadySchedule`: a
failed listing uses up its scan number, an ignored process keeps its entry by
`Touch` and is not read, and a reload may change the period; after each of them a figure may be older, and the code does not promise otherwise.

*Identity.* `OwnInv` says of what a reading has so far that it is of the
instance whose `stat` was read, if that one is still running. That is all that
holds when the PID may be handed out between two files, and it is enough: the
entry of such a mixture carries the start time of an instance that has gone, and
no `Lookup` finds it. `Unchanging` is needed as name and user are cached for
good: `exec`, `setuid`, a changed rule or an unreadable status would each leave
an older identity, as section 3 lists. All else may be reloaded: `SameNaming`
asks of the configurations only that they share the rules, the fallback and
whether users are resolved; filters, schedules, caching and which files are read
may change between any two scans.

*Results.* `ResultsAsAssumed` discharges for the scanner what `Exporter` assumes
of `Results`.

**Sums.** The model sums figures over sets with `SumFunctionOnSet` of the
community modules, a fold. `SetInduction` gives induction over the subsets of a
finite set without a predicate as a parameter (a set of subsets that contains
each subset whose one-smaller parts it contains), and with it the sum of a union,
of a function updated at one place, of a part, of two functions, and of shares:
`SumShared`, what goes to each of several receivers is together a part of what
there is.

**Pipeline.** From `AggregatorAssumption` and those of the scanner. *Retention*:
the two properties are inductive together, as `Apply` stamps each live group
with the time it prunes at, so prune takes none of them, and the clock moves
only while the snapshot keeps its own time. `ResumesCorrect` adds `ExportedKept`,
which relates what was exported of a group last to its accumulator.

*Refinement.* `LedgerKept` is the step simulation for the mapping of section 2,
with every fault, filter, retention and reset. `LedgerInv` collects what it
needs: the invariants of the scanner, that no two processes of a result are the
same instance, so that the groups' sums credit none twice (`Distinct`, from
`HoldersInv`: a start time is never of two PIDs, wherever it is written down),
and that every walk ends in a result to apply (`Pending`). In `Pipeline` nobody
stops the scanner; a stop loses the walk and the program with it. One lemma for each kind of step shows it to be a step of the ledger:
`Record` opens or moves work into transit, a scan that begins or aborts has
nothing in transit, a naming change closes the totals and drops what is in
transit, and `ApplyResult` credits. In the last the work is in the sums: an
accumulator grows by the sum over its group's members (`Added`), which is the
sum of the credits of the instances assigned to it.

*Totals together.* `TotalsBacked` is then a fact of the ledger: `SharesBacked`
says that where each credit goes to one total and a total otherwise falls to
zero, a sum of totals covered by the credits stays covered. `BackedInv` states
it for every finite set of groups, and `LedgerInv` bounds the credits by the
work since the first reading.

**Exporter.** From `ExporterAssumption`: a result is of finitely many processes,
whose deltas are not negative. `HeapInv`: addresses grow, and what is shown is the
newest address. `StepKinds` reduces every step of the composition to three
kinds: the registry is left alone, `Publish` stores at a fresh address, or a
reader lets go. `FrozenCorrect` is then three cases.
`ExporterInv` adds what the others need. `Rounds` numbers the snapshots: the
n-th result is published at address n, so that whoever holds an address knows
which snapshot it is. `Published` says which self-metrics are still to be set
and which already agree, `Pointers` that the heap holds what the registry, the
scrape and the request point at and nothing else, `Rows` that a scrape has sent
the first rows of the list of its own snapshot, in order, and `Told` that a
`Run` that is serving has a listener that accepts or an error on its way.

`CountersOnward` compares any two snapshots that are still held, and the totals
that produced the first are gone when the second is made. `OnwardInv` therefore
relates each snapshot of the current era to the totals as they are now
(`GoesOnFrom`): a group it shows has an accumulator, seen since, with no counter
below what was shown, unless the retention may have passed. `RoundGoesOn` carries
this over `Apply`, which adds and then prunes; the snapshot that waits for
`Publish` is related to all older ones; a naming change begins an era of which no
snapshot is; and a tick only lets fewer groups be within the retention.

**Watcher.** From `WatcherAssumption` and `LoadConfigAssumption`: an absent file
is not a content, documents give numbers for the numeric fields, the
subscribers form a sequence, the empty pattern compiles.

`NewestDelivered` does not say what `publish` sends, nor that the channel it
has drained is still empty when it sends again. `Publishing` says both: the
configuration being published is the active one, as one goroutine loads and
publishes, and only the subscriber touches the channel meanwhile, and it only
takes. `StampMeansLoaded` is about the two states in which no reload is under
way; `StampInv` carries it through a reload, by modification times alone: what
was loaded under a stat that is still the file's is what the file still holds.
Without `EarlyEdits = FALSE` it is false, which is what `BugWatcherStart` shows.
The three properties of what is loaded follow from `TypeOK`, that every
configuration held anywhere came from `Parse`: `ConfigValid` says that `Parse`
answers with a validated configuration, `ConfigCompiles` that nothing validated
fails to compile, `Truncation` that the estimate is no less than the sleeps in
spite of its division, and `ParseKeepsLists` that `normalise` replaces only nil.

**User cache.** From `UserCacheAssumption`. `Inv` says of each value on its way
(a lookup's answer, a refresh's map) that it is not older than what was read
before it, and of the cache that only a lookup that was overtaken is behind.

TLC checked the properties on the configurations of section 3 before they were
proved, and with each hypothesis, evaluated there as an assumption, the invariants
`LiveInv`, `Exact`, `Settled`, `RecentInv`, `OwnInv`, `StopInv` and `SkipInv`
of the scanner. Model-checked only are the liveness
properties (`ScanEnds`, `Converges`, `ServerStops`, `NamesSettle`), which are out
of the prover's reach, as is ENABLED; and the four statements that do not hold
have their counterexamples from TLC.

## 5. What is not modelled

- The text formats of `/proc` files, YAML and JSON, durations and regular
  expressions: parsing, with no state. `Sanitize` and `filepath.Base` map one
  text to another.
- main, which is not in the repository: its scan loop appears as the guards of
  `BeginScan`, `ScanRound` and `ScanAndApply`, one scan at a time, each result
  applied and published before the next, resets only between scans. The order in
  which it stores configuration, filter and namer is unknown, so a scan captures
  the three as one.
- `AddOverrun` and `SetBuildInfo`, which touch one value each; the duration
  histogram and the exporter's CPU counter, which are sums like `readErrs`;
  gauges like `names_seen`.
- `/config`, `/livez` and `/`, which answer with one value.
- Sorting `/groups` by `rss` and by `name`, which is sorting by another figure.
- `ignore_users` and the switches of a configuration in the loader, which
  nothing validates; of each shipped default list one element. The scanner has
  them.
- Reloads of the retention, see section 2.
- The clock tick, page size and boot time, read once.
- Floating point of the totals, log lines.
- Counter width: a Go counter is 64 bits and the kernel's do not reach it.

## 6. Plan

Every safety property of the runs is a theorem. What is left is to state the age
of figures in terms of the scans that were due rather than of one period, so that
it holds through reloads of the schedule; and, with main's source, its reload
handler: the three values a scan captures, stored one after another, and a
retention that may be another on each `Apply`.
