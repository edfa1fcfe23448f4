# BLACKTERM Sentinel: formal models, checks and proofs

Sentinel observes an authorised IPv4 network: it probes every address of a target,
stores what it found as a snapshot in SQLite, compares it with the snapshot before,
keeps a table of assets with their first and last sighting, and, when it watches,
records the differences as events. This directory models the part of the program that
carries that logic, checks it with TLC and proves the central results with TLAPS.

All source paths below are relative to `src/internal/` unless they begin with `src/`.

## 1. Inventory

### Components

| Component | State it keeps | Operations | What makes it correct |
|---|---|---|---|
| scan cycle, `cli/root.go` `performScanCycle` | locals of one cycle: previous snapshot, known addresses, what each probing stage found | expand, read previous, read known, discover, merge, scan, assemble, compare, save | changes of a snapshot are its differences from its predecessor; what is saved is what is there |
| `scan`, `watch`, `cli/root.go` | context, timer, the variable `baseline`, the deferred status update | start, baseline, wait, cycle, record events, stop | every committed change becomes an event; an interruption ends the watch and deactivates its row |
| snapshot store, `store/store.go` | tables `scans`, `hosts`, `services`, `changes`, `findings` | `SaveSnapshot`, `LatestSnapshot` | a snapshot and everything derived from it is committed as one |
| asset intelligence, `store/store.go`, `assets/` | tables `assets`, `service_history` | `updateAssetIntelligence`, `KnownAssetIPs` | the tables are a digest of the log of scans |
| event log, `monitor/events.go`, `store/store.go` | table `events` | `EventsFromChanges`, `SaveEvents` | the events explain how the network came to be as it was last seen |
| monitoring status, `store/store.go` | table `monitoring_status`, one row per target | `SetMonitoringStatus` | the row tells whether a watch runs and when it last scanned |
| comparison, `diff/diff.go` | none | `Compare` | no difference missed, none reported twice |
| probing pools, `scanner/`, `discovery/`, `fingerprint/enrich.go` | goroutines, two channels, a limiter, a context | feed, probe, deliver, close, collect | complete unless cancelled, no duplicate, no panic, no leak |
| discovery sources, `discovery/neighbor.go`, `interface.go`, `enrich.go` | none (the ARP table belongs to the system) | `NeighborTable`, `MatchingInterface`, `ReverseDNS` | a missing answer is not an error |
| HTTP and TLS inspection, `fingerprint/http.go` | the requests of one inspection | `InspectHTTP` | an unchanged service has an unchanged fingerprint; redirects end; what is reported is of the last response |
| security analysis, `analysis/` | none | `AuthExposure`, `FingerprintFindings` | the findings follow from what was read, at the boundaries of days and versions too |
| dashboard, `dashboard/server.go` | the refresh under way and what the page shows; reads the database on each request | `refresh`, `DashboardSummary` and one query per panel | the numbers of one page belong together; an error shown is an error |
| target expansion, `target/target.go` | loop variable and list | `Expand` | exactly the host addresses of the prefix, within the limit, for every prefix it accepts |
| notifications, `notify/notify.go`, the loop in `runWatch` | the events still to be considered | `ShouldNotify`, `Notify` | recorded events at or above the chosen level, no other |
| reports, further queries, browser, configuration, migration | none | formatting, single SELECTs, calls of the system | covered by their unit tests |

### How they interact

A command is one operating system process. It calls the stages of a cycle in order and
passes data between them by value; inside a stage, goroutines meet on unbuffered
channels. Processes share nothing but the database file: every call of the store is a
transaction of its own, and nothing spans two calls. A signal cancels the context of
its process, which the probing stages consult and the database calls do not. The
dashboard is one more reader of the file.

### What is hard

- *Several actors.* A `scan` run beside a `watch` of the same target interleaves with
  it call by call. The previous snapshot is read at the start of a cycle and used at
  its end, seconds or minutes later.
- *Partial failure.* The snapshot, the monitoring row and the events of one cycle are
  three writes. Any may fail, and the process may die between them.
- *Cancellation.* A cancelled context makes every pool return early, without an error,
  with what it has.
- *Rewriting in place.* One transaction ages every asset of a target and then
  refreshes the observed ones in a loop, in which two hosts may be one asset.
- *Goroutines.* Four pools close one channel from the feeder and one from a closer
  while workers send.
- *Round trips.* A snapshot is compared with what JSON and the database made of the
  one before.
- *Readers without a transaction.* The dashboard makes nine reads for one page while a
  watch commits between them; two watches of one target write one monitoring row.
- *Loops over other people's data.* `Expand` counts through a prefix with a carry that
  wraps; an inspection follows redirects wherever the servers send it.

`PROJECT.json` lists these hazards one by one, each at its line and with the properties
that would catch it. A note says where a property only bounds the damage, takes the
behaviour as intended, or where there is none.

That `Enrich` writes into the hosts its feeder still ranges over is not among them. A job
is a value the feeder has finished reading when it sends it, and the result that causes
the write comes back after that send: the two channels order the write behind the read.

## 2. Modules

| Module | Models | Proved about |
|---|---|---|
| `Diff` | `diff.Compare`; what a fingerprint is after the database (`Persisted`) | `AssetStoreProofs` |
| `AssetStore` (extends `Diff`) | the database: log of scans, `assets`, `service_history`; `SaveSnapshot` as one step, in closed form; the reads | `AssetStoreProofs` |
| `SnapshotTx` (extends `AssetStore`) | `SaveSnapshot` statement by statement, with failures; implements `AssetStore` | `SnapshotTxProofs` |
| `ProbeCall` | what the callers of the probing pools rely on, without goroutines | by `ProbePoolProofs` |
| `ProbePool` | the goroutines of the four probing pools; implements `ProbeCall` | `ProbePoolProofs` |
| `Monitor` (extends `AssetStore`) | what the database sees of `scan` and `watch`: which rows they write, in which order | `ConsoleProofs` |
| `ScanCycle` (extends `AssetStore`) | `scan` and `watch` processes over one database and a changing network; implements `Monitor` | `ScanCycleProofs`, `ScanCycleRefinement` |
| `Analysis` | findings of a service, severity of an event, `ShouldNotify` | by `StagesProofs` |
| `Inspect` (extends `Analysis`) | `InspectHTTP`: redirects, and what is kept of the last response | `StagesProofs` |
| `TargetExpand` | `Expand`: the loop from a prefix to its addresses | `StagesProofs` |
| `Console` (extends `Monitor`, `Analysis`) | the page of the dashboard read by read, and the notifications of a watch, beside the writers of `Monitor` | `ConsoleProofs` |
| `SumProofs` | nothing of the code: finite sets of numbers and sums, for the proofs of several components | |
| `MCAssetStore`, `MCSnapshotTx`, `MCProbePool`, `MCScanCycle`, `MCStages`, `MCConsole` | the small instances TLC checks | |

The modules form two chains of abstraction over one database. Downwards, `SnapshotTx`
executes the one step `SaveSnapshot` of `AssetStore`, and `ProbePool` the one call
`ProbeCall`. Upwards, `ScanCycle` is the processes in full, `Monitor` what is left of
them for a reader of the database, and `Console` puts readers beside `Monitor`, not
beside `ScanCycle`, whose network and probing no reader can tell.

### Diff

A snapshot is seen as a function from addresses to `Absent` or the services of the
host, and the services as a function from ports to a fingerprint or `Closed`. The
protocol is `tcp` everywhere and the name of a service is a function of its port, so
the port is the key that `serviceIndex` builds. A fingerprint is an opaque value: what
matters is whether two are equal, and what `StoredPrint` makes of one on its way
through JSON and back. `Exposure` and `Replay` are not code: they define what a reader
of the change log can rebuild, and serve the property `EventsExplainLatestSnapshot`.

### AssetStore

`scans[t]` is the log of target `t`; `assets[t][k]` and `history[t][k][p]` are the rows
of its tables, or `NoRow`. `SaveSnapshot` is the whole operation: it appends the scan,
ages the rows of every asset of the target, refreshes those observed and clears and
sets the services. `AssetAfter` and `HistoryAfter` say what the code's two UPDATEs and
its loop amount to for one row: the last host of an identity in address order leaves
its address, the last one with a name its name, and each counts as an observation.
The `mac` column repeats what the key says and is left out, as are the severity
findings, which nothing reads back in a cycle.

### SnapshotTx

The working rows of the open transaction are in `tx`; the variables of `AssetStore` are
what other connections read. `OpenTx`, `AgeAssets`, `ClearPresence`, one `UpsertHost`
per host and `CommitTx` follow the statements, and `RollbackTx` may happen at any
point, for an error, the deferred `Rollback` or the death of the process. SQLite lets
one transaction write at a time, so one suffices. The refinement mapping is the
identity on the committed tables: `StoreSpec` is a property of `TxSpec`.

### ProbePool

One module for `Scan`, `Discover`, `DiscoverICMP` and `Enrich`, which are the same
program but for a few lines; `kind`, chosen initially, tells them apart: only the ICMP
pool keeps negative answers to itself, only the service scan returns to its loop when
it drops one, and `Enrich` has no limiter. A send on an unbuffered channel is one step
of both sides: `Feed` is feeder and worker, `Deliver` worker and collector. A `select`
with a cancelled context is a choice.

The mapping to `ProbeCall` forgets goroutines and channels: `answers` are the jobs the
network answers, `collected` the results the collector has, `returned` is the state of
the collector. A step of feeder, worker or closer is a stutter.

### ScanCycle

`pc[p]` is the call a process makes next and `local[p]` the variables of its cycle.
Each database call and each probing stage is a step. `net` is the network, which
changes under the processes (`Drift`); `Faults` says what else may happen: the ARP
table lags behind (`"arp"`), probes are lost or late (`"loss"`), a database call fails
(`"database"`, the database is locked when another process writes), a signal arrives
(`"interrupt"`), a process dies (`"crash"`). After `Exit` or `Crash` a process may be
started again. A batch in `events` is one call of `SaveEvents`, whose transaction
commits all its events or none. `ScanCycle` uses the one-step `SaveSnapshot` that
`SnapshotTx` is shown to implement, and for the probing stages the outcome that
`ProbePool` shows the pools to have: everything that answers, or any part of it when
the context is done.

A signal that arrives between two database calls is the step `Interrupt`. Errors of
target expansion and interface detection have the control flow of a failing
`LatestSnapshot` and are not told apart from it.

A device may be `quiet`: it answers the service scan and no discovery probe. The
addresses the asset table knows are probed for services without having been
discovered, so a quiet device at such an address answers, but it is no part of the
inventory, which `discovery` alone decides; `LastSeenNeedsSighting` is about this.

### Monitor

`stage[c]` is the write a client makes next and `work[c]` what it carries from one to
the next. A cycle is two steps, `Begin` or `Again` and `Commit`, and the hosts
committed are any at all. What it keeps of the program is the order of the writes
(snapshot, monitoring row, events), that a watch drops the changes of its baseline,
that the change list is none or the differences from *some* saved snapshot, and the
deferred update at the end. In the mapping of `ScanCycle`, the places from `previous`
to `save` are one stage, `cycle`, and `work` is what of the locals is still to be
written (`DatabaseView` in `ScanCycle`).

### Console

`MonitorStep` is taken over unchanged; `Considered` adds that a watch with `--notify`
goes through its events once `SaveEvents` has returned, and `Consider` is one turn of
that loop, in any order, each notification able to fail. A refresh of the page is five
requests: the reads of `DashboardSummary` are made in its order, the four lists
independently, and other clients commit between any two. Of a list only the number of
its rows is kept, since that is what page and cards have in common. A list without rows
is the JSON `null` (`Drawn`), on which drawing stops with what was drawn before.

### Analysis and Inspect

The findings are sets of records of severity and title; what a rule looks at is in
`HTTPFingerprint` and `TLSFingerprint` and nothing else of a response is. `Inspect`
is the client with its `CheckRedirect`: each server answers a page, a redirect or
nothing (`NoAnswer`: no connection, no handshake or a timeout, which `InspectHTTP`
treats alike). The scheme kept is that of the port inspected; headers, form and
certificate are of the last response; a certificate is kept if both the port and the
last address are secure ones. `DaysRemaining` is the conversion to `int` with its
rounding toward zero.

### TargetExpand

An address is a number of `Bits` bits and `Inc` wraps, as the carry does. `Parse` has
the error paths, `Visit` is one round of the loop with the limit inside it, `Finish`
the trimming. `net.ParseCIDR` also accepts prefixes of IPv4-mapped addresses, for
which the loop counts through wider addresses, `Contains` compares by family, and the
mask has a different length: the `mapped` form has all three. The high part of such an
address ends in `MappedOnes` ones. The code's own values are 32, 96, 16 and a limit of
65536; TLC takes smaller ones, the proofs take any.

## 3. Runs

| Run | Question | Bounds | Distinct states |
|---|---|---|---|
| `asset_store` | Do the tables say what the log says? | 1 target, 2 addresses, 1 hardware address, 1 port, 5 scans | 271 000 |
| `snapshot_tx` | Does the transaction implement the atomic save, and what do rows say of names? | the same with 2 names, 3 scans | 186 000 |
| `probe_pool` | Are the pools complete, truthful, do they end, do they implement the call? | 2 workers, 3 jobs, all four kinds, every set of answering jobs | 50 000 |
| `cycle_watch` | What does one watch guarantee through faults and restarts? | 1 address, 1 port, 4 cycles, all faults, a quiet device among the devices | 2 420 000 |
| `cycle_live` | Does every committed change become an event, does a watch end, is it `Monitor`? | 1 address, 3 cycles, drift and interruption, fairness | 53 000 |
| `cycle_pair` | What is left when a scan runs beside a watch? | 1 address, 3 cycles, drift, loss, ARP, failing calls | 1 860 000 |
| `stages` | Do the loops of expansion and inspection return, and what? | every prefix of every 4-bit address, plain and mapped (3 high bits, the last two ones), limit 8; 3 addresses that answer each other in every way | 94 000 |
| `dashboard` | What of one page belongs together; which notifications are recorded events, and is one shown twice; what do two watches do to one row? | 2 targets, 1 address, 3 scans; two watches, or a watch, a scan of the other target and one refresh; every watch notifies | 259 000 |
| `steady_title` | Is a steady network quiet? **No** | 2 cycles, no fault | |
| `interrupted_scan` | Is every saved snapshot complete? **No** | 2 addresses, 2 cycles | |
| `lost_events` | Does no snapshot replace another in silence? **No** | 2 cycles | |
| `empty_page` | Is an error on the page a failed request? **No** | as `dashboard` | |

*Why these bounds.* Five scans hold a first sighting, a refresh and three misses with
one scan to spare, so a row can turn OFFLINE and come back. Two addresses and one
hardware address let an asset move and be shown at two addresses at once, and its port
may close, without a move, at the first address; two names,
one of which classifies the device, let a name be kept, replaced and disagree with the
services. Two workers and three jobs let one worker finish two jobs while the other is
held up. Four cycles hold a snapshot from before a restart, the baseline after it and
two cycles that record events; three hold the baseline and two, or two overlapping
cycles and one that follows. `MaxScans` bounds the log and is a guard of `StoreNext`,
`OpenTx`, `Start` and `Timer` (`CycleAllowed`) and of nothing else. The address of the
cycle runs stands for any one address: the stages treat addresses apart from each
other, and the rows of two addresses that are one asset are the subject of
`asset_store` and `snapshot_tx`.

With four bits there are prefixes of every length from /0 to /4, on both sides of the
trimming rule and of the limit of 8, with the one that ends at the last address and the
one that wraps; three high bits hold blocks below and above the IPv4
one. Three addresses, one
plain and two secure, make circles of one to three redirects and every change of
scheme; the hours are those on either side of each comparison. For the page, two scans
of its target and one of another are what a card and a list can disagree about;
`CardLimit` is 2 and `FindingRows` and `EventRows` are 1, so that one scan reaches the
limits. `MaxRefreshes` is 1: `shown` then is of that refresh or of none. `MCConsole`
names what it leaves out (`FetchedInOrder`, `StampsInOrder`, `PageLimits` and
`ListsUndisturbed`, which lets nobody write once the summary is read) and why no
property tells the difference. The two watches are interchangeable, so the run takes
one of each two states that differ in them only (`MCSymmetry`).

*Deadlock.* `probe_pool` checks it: a state without a step is one where goroutines wait
for each other, and `Rest` is possible only when all have returned. In the other runs
the bound on scans, a process nobody starts, a page that has been drawn or a loop that
has returned is a legitimate end, and their configurations say `CHECK_DEADLOCK FALSE`.
That the loops of `stages` do not end elsewhere is what `ExpandReturns` and
`InspectionReturns` say.

*Fairness.* `ProbePool!Fairness` says that the scheduler runs every goroutine that can
run; probes end because they have timeouts. `CycleFairSpec` says that a running process
goes on: probes have timeouts and database calls return. No one is obliged to start a
command, to interrupt it or to fail, and the timer is left without fairness because the
bound may forbid it. `ChangesBecomeEvents` holds under these assumptions without
failing calls; with them, `lost_events` shows that it does not. In `stages`, `Expand`
waits for nothing and every request is answered or times out, so both loops always
take their next step; nothing else is assumed. `Console` has no fairness and no
liveness property.

### What the failing runs say of the program

- `steady_title`: `InspectHTTP` cuts a title at byte 120. If that is inside a
  character, the stored title differs from the one read again, and every cycle reports
  SERVICE_CHANGED.
- `interrupted_scan`: an interrupted cycle saves what it had seen as the latest
  snapshot; its report says `STATUS COMPLETE`. The next cycle reports the missed hosts
  as new.
- `lost_events`: the snapshot is committed before the events are written. If that
  write fails, the change is in the table `changes` and never an event.
- `empty_page`: the queries return a nil slice when there are no rows, the page gets
  `null` and calls `map`, `slice` or `length` on it. The exception is shown as
  "Dashboard error" although every request succeeded, the text "No events recorded." is
  never seen, and the panels after the empty one keep what they had.

One more disagreement is not a failing run because no document denies it: two cycles
that overlap both compare with the same older snapshot, so `ChangesAreFromPredecessor`,
which `cycle_watch` checks of one process, does not hold of two. `cycle_pair` shows
what still does: changes are the differences from *some* earlier snapshot, for a watch
never from one older than its baseline (`WatchComparesSinceBaseline`), events are
never invented or repeated, and the asset table stays a digest of the log in the order
of saving even when a snapshot stamped earlier is saved later, which the clock of
`asset_store` cannot produce.

## 4. Proofs

`AssetStoreProofs` first proves about the operators of `Diff`, for every pair of views:
`ReplayRebuildsExposure` (the changes `Compare` reports, replayed on the hosts and open
ports of the old snapshot, give those of the new one: no difference is missed, none
invented) and `NoChangeMeansSameView`. Both go address by address, through
`ChangesOfHost`. About `StoreSpec` it proves, for every set of targets, addresses,
hardware addresses, names and ports and for any number of scans:

- `TypeCorrect`: `StoreSpec => []TypeOK`. `SaveSnapshot` is the only step; the lemmas
  `AssetAfterType` and `HistoryAfterType` follow the cases of a row. The row of an
  observed asset takes its address from `LastOf`, a choice that needs the holders of an
  identity to be finite and not empty (`FiniteSetHasMax`, `LastOfHolders`).
- `AssetsAlwaysDigestLog`: `StoreSpec => []AssetsDigestLog`. `AssetsDigestLog` is
  inductive together with `TypeOK`: `LogStep` says how the sightings of an identity
  grow by one scan, `DigestStep` treats the four cases of `AssetAfter` against it.
- `StateAlwaysTellsRecentSightings`: `StoreSpec => []StateTellsRecentSightings`. This
  one is not inductive: the state of a row after a miss depends on its count of misses,
  which the property does not mention. `DigestInv` adds `StateFollowsMisses`, the state
  as a function of that count, and the count is tied to the log by `AssetsDigestLog`.
- `HistoryAlwaysTellsLatestScan` and `NameAndTypeAlwaysDigestLog`: the service history
  and the names and device types of the rows. Both go row by row (`HistoryStep`,
  `NameAndTypeStep`) over the cases of one scan: row or none, observed or not, and for
  a name, whether a holder has one. The second needs `DigestInv`: that a first row has
  no earlier sighting whose name it could have forgotten.
- `CountAndNewAlwaysAgreeWithLog`: the observation count of a row is a sum over the log of
  how many hosts had its identity in each scan. `CountInv` says that sum for every
  identity; `CountStep` follows one scan, in which an asset shown at two addresses counts
  twice and stays NEW only if it had never been counted. The sum is `SumFunction` of the
  community modules, a fold, whose recursion no prover here can unfold over all inputs:
  `SumProofs` counts up to the length of the log instead (`CountUp`: a set that holds 0
  and the successor of each of its numbers below n holds n) and gets from that what a sum
  of one element more is.

None of these proofs asks who saves: `TablesInv`, their conjunction, is kept by `AnySave`,
a `SaveSnapshot` with any hosts, time and changes, so the specifications that extend
`AssetStore` inherit it.

`SnapshotTxProofs` proves about `TxSpec` that the statements of the transaction
compute that closed form:

- `AlwaysLoopInvariant`: `TxSpec => []LoopInvariant`. `UpsertAssetStep` and
  `UpsertServiceStep` show that one round of the loop takes the closed form for the
  hosts visited to the closed form with one host more: an INSERT for a new identity,
  an UPDATE of the aged row for a known one, an UPDATE of what the loop wrote itself
  for a further host with the same hardware address. The invariant is not inductive by
  itself. `LoopOrder` adds that the hosts visited come before those left (or the host
  visited would not be the last holder of its identity), `BeforeLoop` what the rows are
  before the loop starts, `RoomForScan` that the model's bound still holds at the
  commit; `TxInv` is their conjunction.
- `TransactionImplementsStore`: `TxSpec => StoreSpec`. `CommitTxSaves` uses
  `LoopInvariant` with no host left; every other step, a failure or a crash among them,
  leaves what other connections read unchanged (`TxStepRefines`).
- `TransactionKeepsDigest`, `TransactionKeepsNames` and `TransactionKeepsCounts`: so what
  is proved of `StoreSpec` holds of the detailed transaction too; `TransactionTypeCorrect`
  is part of `TxInv`.

`ProbePoolProofs` proves about `Spec` of `ProbePool`, for any number of workers and
jobs and every kind of pool: `PoolTypeCorrect`, `NeverSendOnClosed`,
`AlwaysReportedOnceAndTruly` and `AlwaysCompleteUnlessCancelled`. The invariant `PoolInv` says where each job is: not fed yet,
held by exactly one worker, reported, or, when the context is done, dropped. Its parts
are `Places` (a busy worker has a job of its own that is not reported), `Truth` (what a
worker is about to send is what the network answered), `Closing` (the order in which
the goroutines end; a worker that ends without cancellation found `jobs` closed) and
`NothingDropped`. None of the properties is inductive alone: that no job is reported
twice needs that no two workers hold it, and completeness at the return needs
`Closing`, by which every job was fed and no worker holds one any more.
`PoolImplementsCall` then is the refinement: a step of the collector collects, its
return is one of the call, all other steps stutter.

Two more theorems are what safety has to say of `EverythingReturns`. `PoolStepsRunOut`:
every step makes `StepsLeft` smaller, which is four for each job not yet fed, what the
workers may still do with the jobs they hold, and one each for feeder, closer, collector
and signal, so that no interleaving goes on for ever. `PoolNeverDeadlocks`: until all
have returned, one goroutine can go on, which `SomebodyCanGoOn` spells out as the guards
of their steps, without the signal. A circle of feeder, worker, closer and collector
waiting for each other is thereby excluded for every number of workers and jobs;
`Closing` does the work, by which a worker ends only when there is nothing left to feed.

`ScanCycleProofs` proves about `CycleSpec`, for any number of processes, addresses,
ports and snapshots and, unless said otherwise, under every fault:

- `CycleTypeCorrect`, `CycleKeepsDigest`, `CycleTellsRecentSightings` and
  `CycleKeepsTables` (counts, names, types and service history, from `TablesInv`), from
  `CycleInv`: the types, `DigestInv` of the store, `Control` (which process may be where,
  and that what is to be saved has a time) and `Budget` (that the bound of the model
  leaves every cycle under way a time and a place in the log, so that the bound disables no step of
  the code). `OwnStep` and `Whereabouts` sum up the sixteen actions once: where a
  process is after its step and what of its locals it still has.
- `EventsAlwaysReportCommittedChanges`, from `StampInv`: times in the log are distinct,
  a cycle that has its time shares it with nothing until its snapshot is saved, and
  afterwards with that snapshot and no event until its events are.
- `ChangesAlwaysFromSomeEarlierScan`, from `OriginInv`: the snapshot a cycle has loaded
  is an entry of the log, which only grows. It assumes `FaithfulPrints`, that the
  database gives every fingerprint back as it was: otherwise the changes are those of
  what was read, not of what is stored, which is what `steady_title` shows.
- `WatchAlwaysComparesSinceBaseline`, from `SinceInv`, under `FaithfulPrints` too, for any
  number of processes. The baseline of a watch is a place in the log, and the log only
  grows, so the snapshot a later cycle loads is at that place or behind it
  (`SinceAfterRead`), whatever others have saved meanwhile; what it compares and saves
  is then behind the one it loaded (`SinceAfterAssemble`, `SinceAfterSave`).
- `ChangesAlwaysFromPredecessor`, `MonitoringRowAlwaysTellsWatch` and
  `LastSeenAlwaysNeedsSighting` assume `Alone`, that there is one process: then what was
  the latest snapshot at the beginning of a cycle still is at its end (`AloneInv`), and
  the time of a cycle is later than any in the log (`ReadyInv`). With two processes
  the first is false (see `cycle_pair`).
- `EventsAlwaysExplainLatestSnapshot`, under `Alone`: whenever a watch waits, the events
  recorded since its baseline, replayed on what the baseline showed, give what the latest
  snapshot shows. The property is a fold over all batches, so `ExplainInv` is stated for
  what a reader has been told so far: `Telling` is the function from the number of batches
  read to the exposure rebuilt, which exists (`TellingExists`) and is the fold
  (`RebuiltIsTold`). While a cycle is under way, what was told is the snapshot it
  loaded; after its save, that plus the changes still carried; after its `SaveEvents`,
  by `ReplayRebuildsExposure`, the snapshot just saved. `FaithfulPrints` is not assumed:
  the database never changes which ports are open (`StoredShowsSame`), and a reported
  change of a fingerprint leaves the exposure as it is.
- `OwedEventsAreNeverDropped` and `InterruptedGoesToItsEnd`, the safety sides of
  `ChangesBecomeEvents` and `InterruptEndsWatch`, under `NoLoss`, that no call fails and
  no process dies (`lost_events` shows what happens otherwise), for any number of
  processes. `Ahead` numbers the places of a process by the steps it has before it:
  nothing that happens to a process that owes events, or whose context is cancelled,
  makes the number larger, each step of its own makes it smaller (`GoesOn`), and it owes
  them, or stays cancelled, until they are recorded, or it has ended. That the batch
  recorded is of that snapshot follows from the distinct times of `StampInv`. What
  is left to fairness is that a process which can go on does.

`ScanCycleRefinement` proves `ProcessesImplementMonitor`: `CycleSpec => ImplementsMonitor`,
with one lemma for each kind of step (`StagesUnseen`, `SaveSeen`, `RecordSeen`, ...).
`OriginInv` says that the changes saved are among `PossibleChanges`, `StampInv` that
their time is new, and `Rested` that a process that waits carries nothing. TLC checks
the same with drift and interruption only; the theorem holds for every fault and any
number of processes.

`ConsoleProofs` proves of `MonitorSpec`, for any number of clients, that the tables stay
digests of the log (`MonitorKeepsDigest`, `MonitorKeepsTables`) and
`IdleRowAlwaysMeansAnotherEnded`. The property is not inductive. `RowInv` adds
`CarriedIsSaved` (what a client writes to the row is the time of a saved snapshot),
`RowNamesSaved` (also before the wait, while events are recorded), `IdleHasEnded` (an
inactive row has an owner that is off, because the first thing every watch does is to
mark the row active) and `OnlyWatchesDeactivate`. Of `ConsoleSpec` it proves:

- `ReadersKeepMonitor`: `ConsoleSpec => MonitorSpec`. Page and notifications write nothing
  the writers rely on, so every theorem about `Monitor` holds beside them.
- `ToastsAlwaysAreRecordedEvents`. `ToastInv` adds that the notices a watch has still to
  consider are of a batch that is in the database already: `Considered` takes them from
  what `Record` has just appended, and events are never removed.
- `ToastsAlwaysShownOnce`. `StillUntold` says that what a watch has still to consider
  nobody has shown and no other watch of the target has to consider. It is kept because
  what has been shown or is still to consider is recorded (`ToastInv`), while `Considered`
  adds events of a batch recorded by no one before (`NoticesAreNew`, from the `RecordInv`
  below): a scan is stamped once and its events are saved once. A crash only forgets.
- `SummaryAlwaysIsOfConsecutiveScans`. `SummaryInv` says of a summary under way which
  entry of the log each card was read from: `AssetsRead` and `CardsRead` number them, and
  the numbers never decrease in the order of the reads because the log only grows.
- `QuietPageAlwaysAgrees`. If nothing is committed during a refresh, `QuietInv` has every
  answer equal to what the tables say now, since `Version`, which counts what was
  committed, can only stay the same if the tables did. That no more events are counted
  than scans saved needs `RecordInv` of the writers: each batch is of one scan of its own
  target (`BatchesAreOfScans`, `RecordedOnce`), also the one a client is about to write
  (`CarriedIsOfScan`, `CarriedByOne`). The comparisons count finite sets, so the findings
  of a host, its services and the changes of a scan are shown to be finite first.

`StagesProofs` proves of `ExpandSpec`, for any number of address bits and any limit below
the size of the address space, `AlwaysExpandsToHostAddresses` and
`ListAlwaysStaysBounded`. `LoopInv` says where the loop is: over an IPv4 prefix, k rounds
have kept the k first addresses of the block, and the loop variable is k beyond its
beginning, modulo the size of the space; over a prefix shorter than the mapping, nothing
was kept and the IPv4 block is still ahead. Three facts of arithmetic carry the steps. A
block lies within the space, so a remainder can only be met after its last address, when
`Contains` says no or, for the /0, the limit has ended the loop (`BlockOfTarget`,
`V4Loop`). A mapped block either divides the IPv4 block evenly or is an even number of
times as large, and `V4Block` is odd, so that a network whose first address is IPv4 has
no other addresses (`MappedSizes`, `EvenMultiple`). Powers of two of a sum are products,
which `Doubling` gets by counting the subsets of a set with one element more and
`PowersOfTwo` by counting up. `ExpandRoundsRunOut` is the safety side of `ExpandReturns`:
each round makes `RoundsLeft` smaller, a bound on the rounds before the list is too long
or the loop has come to the IPv4 block, from which a mapped /80 begins almost 2^48
addresses away.

Of `InspectSpec` it proves, for any addresses and answers, `InspectionAlwaysBounded`,
`LoginFindingAlwaysTellsPort` and `CertificateEndAlwaysReported`. `InspectInv` says that
nothing is kept while requests are made and that what is kept then is `Fingerprints` of
the last answer; the rest are facts about `Analysis` (`FindingKinds`, `TitleTells`,
`FindingsDue`: a title among the findings tells which rule fired) and one about rounding
(`DaysOfHours`).

The assumptions are those of the modules on their constants: `IPs` is a finite set of
numbers (the order in which the loop visits hosts), the values that mean "nothing" are
not values, `NameClass` is defined on the names, `StoredPrint` is idempotent, times are
positive numbers, watches are clients with a target, the targets, the ports and the
workers are finitely many, there is a worker, `CardLimit` is a number, an address has at
least two bits and the limit of `Expand` is below the size of the address space. TLC
evaluates them in every run. `FaithfulPrints`, `Alone` and `NoLoss` are hypotheses of
the theorems that name them and of no other.

Every invariant and every action property of the passing runs is a theorem. Checked by
TLC only is liveness under fairness, which is out of the prover's reach:
`EverythingReturns`, `ExpandReturns`, `InspectionReturns`, `ChangesBecomeEvents` and
`InterruptEndsWatch`. Of each, theorems say what does not depend on fairness:
`PoolStepsRunOut` and `PoolNeverDeadlocks`, `ExpandRoundsRunOut`, `InspectionAlwaysBounded`
(each step of an inspection is a request, and there are at most three),
`OwedEventsAreNeverDropped` and `InterruptedGoesToItsEnd`. The four failing runs, which
show single behaviours, are TLC's too.

## 5. Not modelled

- Reports and every other text: wording of events, findings and errors, HTML, the
  PowerShell script of a notification, titles and headers no rule looks at.
- `AssetHistory`, `RecentChanges`, `ListLatest` and `WebInterfaces`: one SELECT each,
  whose rows are printed and go nowhere else.
- The parsing of `arp -a`, of flags and of what the system says of interfaces; the model
  starts from what they may yield.
- The browser, the configuration and the migration of older databases: a call of the
  system, a table of defaults, statements that run once.
- Two refreshes of one page under way at a time: which is drawn last is up to the
  network. The hazard is listed without a property, since nothing says what should be.
- Time beyond its order: the interval of a watch, the timeouts of probes and the busy
  timeout of SQLite are choices between their outcomes.

`PROJECT.json` gives the reason for each component.

## 6. What is left

In this order, if the development goes on:

1. Two refreshes of the page, once the code says which should win.
2. Several addresses in the runs of `ScanCycle`: the theorems cover them, a run would
   only show more of the faults together.
