# TLA+ model of parquet-factory

parquet-factory is a batch job that a cron schedule starts once an hour. Each
run reads rule-result reports from one Kafka topic. Every partition gets its own
goroutine. The run keeps the reports of hours that have already ended, writes two
parquet tables per hour to S3 (`rule_hits` and `archives`), and commits the
consumer-group offsets only if both tables were written. Only two things outlast
a process: the committed offsets in Kafka and the files in the bucket. This
project models that cycle, run after run, and checks what survives.

## The system's parts and how they interact

| Part | Source | State | Operations |
|---|---|---|---|
| Partition consumer | `reportreader/reportreader.go`, `reportreader/utils.go` | per-partition read position, worker status | `New`, `Start`, `consumePartition`, `markMessage`, `getInitialOffsetTracker`, `initPartitionConsumer`, `waitTimeout` |
| PartitionTracker | `reportreader/offset_cache.go` | last processed offset per partition | `RecordOffset`, `GetOffset` |
| Offset commit | `reportreader/offset_manager.go` | offsets committed in Kafka | `OffsetCommit` (`MarkOffset` forward only, then `Commit`) |
| limitChecker | (not in this snapshot; spec 4.4) | consumed-record counter, hour ceiling | `CheckMessage`, `MessageProcessed`, `CanConsumeMore` |
| Stop header | `reportreader/header_checker.go` | none | `checkHeaders` |
| ArchivePathSet | `utils/utils.go` | paths seen in this run | `Add` |
| Aggregator | `rulereportaggregator/rulesreports.go`, `rule_hits.go`, `archives.go` | `ReceivedReports` | `Handle`, `WriteResults`, `createRuleHitTable`, `createArchivesTable`, row generation |
| S3 writer | `s3writer/*.go` | bucket objects | `GetLastIndexForParquet`, `NewFile`, `CloseFile`, `DeleteFiles` |
| Entry point | `cmd/parquet-factory/main.go` | process phase | `startKafkaCollection`, `waitForConsumers`, signal handling |

How the parts interact within a run:

* The workers share four objects. The limitChecker's check and its increment are
  each atomic, but they are two separate calls. The tracker, the path set and the
  aggregator each sit behind their own mutex.
* A worker stops in one of three ways. It passes the record cap, it sees a
  message from the current hour or a stop header, or it fails.
* The supervisor in `Start()` cancels the context in three cases: every worker
  has returned, one worker has failed, or `consumer_timeout` has passed. main
  goes on as soon as the context is cancelled, and the workers that are still
  running keep going. That interaction is where the findings below come from.

## Modules

| Module | Models |
|---|---|
| `ParquetFactory` | the process cycle over several runs: consumers, supervisor, main, one step per table write, commit |
| `TableWriter` | one table write in detail: per-hour index lookup, NewFile/AddRow/CloseFile, two-stage rollback |
| `TableWrite` | the abstract table write that `TableWriter` implements (and that `ParquetFactory`'s `WriteTable` step assumes) |
| `CollectedDate` | `ExtractCollectedDate` and `GetHourOnly`: from an archive path to its hour bucket (`HourOf` in `ParquetFactory`) |
| `MC_ParquetFactory`, `MC_TableWriter` | model values and constants for TLC |

### ParquetFactory

`ParquetFactory.tla` models the whole process cycle: consumer workers, the
supervisor, main, the table writes (one step per table) and the offset commit,
repeated over `MaxRuns` cron runs. `MC_ParquetFactory.tla` instantiates it for
TLC with two partitions (three in the at_least_once and failures runs), four
paths over two hours, and a message log per question.

State and where it comes from in the code:

| Variable | Code |
|---|---|
| `committed` | the group's committed offsets in Kafka (survives runs) |
| `logStart` | the first offset of each partition that broker retention has not deleted (survives runs) |
| `store` | parquet files in the bucket, as (table, hour, run, rows) (survives runs) |
| `run`, `phase` | which process; main's position: consume, rule_hits, archives, commit, exited |
| `worker[p]` | where `consumePartition` of partition p is (idle, consuming, checked, done, failed) |
| `next[p]` | the offset the partition consumer delivers next |
| `tracked[p]` | `PartitionTracker.offsets` |
| `consumed` | `limitChecker.consumedMessages` |
| `seen` | `processedMessages` (ArchivePathSet) |
| `reports` | the paths in `ReceivedReports` |
| `cancelled` | the `Start()` context is done |
| `ceiling` | `limitChecker.limitTimestamp`: the hour floor of the run's start time, set in `New` |
| `taken[p]` | history only, no code counterpart: the offsets of p that passed `CheckMessage` in this run |

Each branch of `consumePartition` is an action of its own, in the order the loop
runs:

* `WorkerLimitReached`, `WorkerOpen` and `WorkerOpenFails` cover the set-up.
* `WorkerReceive` covers `checkOffset` (skip an offset at or below the
  tracked one), then the `CheckMessage` cap and the hour ceiling. A message
  carries the hour of its Kafka timestamp; it is taken only when that hour is
  before the run's `ceiling`.
* `StreamClosed` is sarama closing the partition consumer whose fetch offset
  fell below the log start: the `range` ends, `AsyncClose`, and the outer loop
  goes back to `WorkerOpen`. `WorkerOpen` resolves `OffsetOldest` to the log
  start and retries at `OffsetOldest` on `ErrOffsetOutOfRange`
  (`initPartitionConsumer`).
* `ProcessStop` covers the stop header.
* `ProcessUnparsable`, `ProcessDuplicate` and `ProcessHandleError` are the three
  `continue`s.
* `ProcessReport` covers Handle followed by `markMessage`.
* `markMessage` includes `RecordOffset` with its negative-lag error.

The supervisor's actions are `AllWorkersReturned` and `Timeout`, and
`StartFails` when `Start` cannot list the partitions: the context is
cancelled and no worker starts. main's actions
are `ConsumersDone`, `WriteTable` (per table), `OffsetCommit` and `Kill`. A new
cron process is `NewRun`: it reseeds the tracker from `NextOffset` of the
committed offsets, and sarama returns `OffsetOldest` when nothing is committed.
Its ceiling is the same hour as the previous run's or a later one.
`NewFails` is a process whose `New` fails (client, consumer or offset
manager, or `getInitialOffsetTracker`): main ends it with `CONSUMERERROR`
before it reads anything. The broker's
`Retain(p)` deletes the oldest offset of a partition at any moment, between
runs or while a worker reads it.

`WriteTable` is one step with three outcomes:

* every non-empty hour's file is written;
* a write fails and the rollback `DeleteFiles` removes the run's files of that
  table;
* a write fails, the rollback also fails, and part of the files stay
  (`DeleteErrors`).

`OffsetCommit` marks every tracked offset and commits it. With `CommitErrors`,
any subset of the partitions may fail to advance, because sarama's per-partition
commit errors never reach the caller. The empty subset also covers a
`ManagePartition` error part-way through the loop: `OffsetCommit` returns before
`Commit()`, so the offsets already marked are not sent either. The offset
manager was closed by a deferred `Close()` in `getInitialOffsetTracker`, so the
`Close()` at the end of `OffsetCommit` flushes nothing more; the model assumes
the closed manager still commits or fails per partition.

### TableWriter and TableWrite

`createRuleHitTable` and `createArchivesTable` have the same control flow, and
`TableWriter.tla` models that flow for one table over `MaxRuns` runs.

* `store` holds the bucket objects under the table prefix. Each object has a key
  (hour, index) and rows. Its `run` field is a ghost that names the invocation
  that wrote it.
* The actions follow the code:
  - `Begin` builds the row map.
  - `PickHour` takes any remaining hour, because Go map order is unspecified.
    It lists that hour and computes `fileID`.
  - `NewFileOk` and `NewFileFails` cover `NewFile`.
  - `AddRows` adds the rows. Each row may be dropped on an `AddRow` error.
  - `CloseOk` makes the object appear, replacing any object with the same key.
  - `CloseFails` is the table function's own `DeleteFiles(savedFiles)`.
  - `Rollback` is `WriteResults`' `DeleteFiles`.
* `TableWrite.tla` states what a table write promises. The files of an
  invocation appear all at once, earlier files are never lost, and a failed
  invocation leaves files only where deletion failed.
* The refinement mapping `Visible` hides the objects of the invocation that is
  still running. `WritesRefineTable` (`Abstract!Spec`) is checked as a temporal
  property.

### CollectedDate

A path is abstracted to two things: whether its text matches the shape of
`timestampRe`, and the six numeric fields the regex groups capture.

* `MatchesTimestampRe` is the digit classes of the groups.
* `ParsesRFC3339` is `time.Parse`'s range checks, including the number of days
  in the month and the leap-year rule.
* `GetHourOnly` zeroes the minutes and seconds (not checked by a property: it
  is correct by its shape).

The single variable `path` ranges over every input of the bounded set. Each state
is one input, and the invariants compare the code's result with a reference
calendar, `DaysFromCivil`, which is the era-based days-from-civil formula.

## Properties

* `TypeOK` is the type invariant.
* `AtLeastOnce`: every well-formed report with a dated path, at an offset below a
  committed offset, is stored in `archives`. If it has rule hits, it is also
  stored in `rule_hits`. This is the promise of spec section 5: offsets advance
  only after everything consumed is persisted.
* `RecordCapBound`: the records processed in one run exceed `max_consumed_records`
  by at most one per extra partition. This is the race between `CheckMessage` and
  `MessageProcessed`.
* `ArchivesIdempotent`: no two archives files hold the same row. Spec 4.7 claims
  the outputs are "idempotent modulo rule_hits".
* `NoDuplicateRows`: no row is in two files of the same table. Spec 8 item 7
  states this for a failed run followed by a good one, and the rollback run
  shows it fails there. The retention run checks it with no injected
  failures and every path at a single offset. There the tracker is seeded
  with the committed offset (the last one processed), the partition is opened
  one past it, and `checkOffset` skips anything at or below it, so no later
  run hands a committed offset to the aggregator again, even across
  retention reopens. Reading the committed offset as the next one to fetch
  (the usual Kafka convention) breaks it. It is not exactly-once in general:
  the dedup set is per run, so one archive sent at two offsets and split
  across runs by the record cap is written twice with no failure at all (the
  rerun_duplicates finding).
* `CommitCoversRead` (action property): `OffsetCommit` never moves a committed
  offset over an offset that this run did not take through `CheckMessage`,
  unless retention deleted it. It holds with every failure enabled, timeouts
  included: the timeout loss is of a report that was read but missed a table,
  never of an offset committed unread. Committing the next offset to fetch
  (last + 1) instead of the last one processed breaks it.
* `WritesRefineTable` (TableWriter): the detailed write implements `TableWrite`.
  It fails if an index is reused, if a rollback misses a file, or if a rollback
  deletes an earlier run's file.
* `ExtractAgreesWithCalendar` (CollectedDate): a well-shaped path is given a
  date exactly when its fields form a real instant in 2000-2099, and the date is
  that instant.
* `RunEnds` (liveness): every run that starts consuming reaches exit.
* `RetainedReportsStored` (liveness): every well-formed, dated report is
  eventually in `archives` with its offset committed, so no later run reads it
  again. There are two exceptions. One is a report that retention deleted
  first. The other is a report that the last explored run still held back
  behind a message at or past that run's ceiling. The property fails if the
  out-of-range retry skips to the newest offset, or if a message past the
  ceiling is committed past.
* `StopMarkerIncluded`: once the offset of a stop-marked message that carries
  a report is committed, that report is in `archives`. This is the spec's
  glossary ("process that message and then terminate") and its test 7 ("table
  is built from messages up to and including this one").

## Runs

| Run | cfg | Expect | Shows |
|---|---|---|---|
| at_least_once | `MC_ParquetFactory_atleastonce.cfg` | pass | write, delete and commit failures, kills, three runs and three partitions, with no timeout: nothing committed is lost, the cap overshoot is bounded, and runs end |
| failures | `MC_ParquetFactory_failures.cfg` | pass | every failure including timeouts, open errors and quiet partitions, over three partitions: the timeout ends every run, and no commit passes an offset the run did not take |
| timeout_loss | `MC_ParquetFactory_timeout_loss.cfg` | violation of AtLeastOnce | main writes and commits while a worker still handles and marks messages after the timeout (or after another worker failed) |
| resent_loss | `MC_ParquetFactory_resent_loss.cfg` | violation of AtLeastOnce | `processedMessages.Add` runs before `Handle`, so a report first received malformed is later dropped as a duplicate, and its offset is committed past |
| rollback_duplicates | `MC_ParquetFactory_rollback.cfg` | violation of NoDuplicateRows | with only write failures, a run whose archives table fails keeps its rule_hits files, and the next run writes them again (spec 8.7 against spec 7's "rollback is localized") |
| table_write_refines | `MC_TableWriter_failures.cfg` | pass | with NewFile, CloseFile, DeleteFiles and AddRow failures on a bucket that already holds indexes 0 and 2, the writer refines `TableWrite` and indexes grow by one per run |
| list_error_overwrite | `MC_TableWriter_list_error.cfg` | violation of WritesRefineTable | a failed listing makes the writer start at index 0 and replace an earlier run's file |
| collected_date | `MC_CollectedDate.cfg` | pass | the regex and `time.Parse` together accept exactly the real dates of 2000-2099 (leap years 2000/2024 and the 2100 non-leap year, month lengths, field overflow of 24, 60, 13, 32) |
| rerun_duplicates | `MC_ParquetFactory_rerun_duplicates.cfg` | violation of ArchivesIdempotent | a kill after the table writes and before the commit makes the next run write the same archives rows again |
| retention | `MC_ParquetFactory_retention.cfg` | pass | retention deletes up to two offsets of p1 before, between or during runs, and later runs may have a later ceiling. A report that is neither deleted nor held back is stored, committed reports are stored, no report is written twice, and runs end |
| stop_marker_dropped | `MC_ParquetFactory_stop.cfg` | violation of StopMarkerIncluded | the worker marks a stop-marked message and returns before `Handle`, so the report that message carries is committed but in no table |

Each violation is recorded as a finding in `PROJECT.json`.

## Bounds

The bounds and why they are enough:

* **Two partitions, three in the at_least_once and failures runs.** Two is the
  least needed for workers to race on the cap counter, the path set, and the timeout against a
  running worker. With three, three workers pass `CheckMessage` before any of
  them counts, so the overshoot of two that `RecordCapBound` allows really
  happens (an ad-hoc invariant `consumed < MaxRecords + 2` is violated there).
* **`MaxRecords = 2` (1 in the at_least_once and failures runs).** The cap is
  reachable before the logs run out, so both the cap path and the overshoot
  happen. Only distinct reports count and there are four paths, so with three
  partitions the cap must be 1 for an inclusive cap check to pass the bound.
* **The third partition's log.** In at_least_once it repeats two good reports
  of the others. A third partition carrying a good `c` after p2's malformed `c`
  only reproduces the resent_loss violation.
* **Logs of three or four messages.** Together they contain every branch:
  - a good report with hits;
  - a good report without hits;
  - an undated path;
  - a malformed report;
  - non-JSON;
  - the same path on both partitions;
  - a stop header;
  - a current-hour message.
* **TableWriter.** Two hours, one with two rows and one with one row, and a
  bucket that already holds `-0` and `-2` in the first hour: the gap is the
  case of spec test 6. Together these make the index choice, a failure after one
  saved file, and a rollback over a non-empty `savedFiles` all reachable.
* **CollectedDate.** The years 1999, 2000, 2023, 2024 and 2100 cover the
  pattern's century, the 400-year rule, an ordinary year and a leap year. Every
  other field takes the values at either side of each bound the regex or the
  parse imposes.
* **`MaxRuns`.** Two runs are enough for a failed or killed run to be
  followed by one that re-reads from the committed offsets. The at_least_once
  run uses three, so two failed or killed runs in a row can precede a good
  one. The failures run stays at two: with three partitions it already has
  about 200,000 states.
* **Retention run.** p1 holds `a`, then `b` stamped in hour 1, then `c`
  stamped in hour 0. The first ceiling is hour 1, so `c` waits behind `b`
  until a run with ceiling 2. `MaxLogStart = 2` lets retention delete `a`, and
  then `b`, at any point. Three runs give time for a deletion between runs,
  one during a run, and a run at the later ceiling. `MaxRecords = 3` fits the
  backlog, so the cap holds nothing back.
* **`MaxCeiling = 1`** in every other ParquetFactory run keeps the ceiling
  fixed, as it is within one hour.

## Fairness

* Each worker goroutine, the supervisor, main's steps and the next cron run are
  weakly fair. A goroutine that can take a step keeps being scheduled, and cron
  keeps starting processes.
* `Kill` is not fair, because a signal may never come.
* `Retain` is not fair: retention may never delete anything.
* The clock is not forced forward. A new run may have the same ceiling as the
  last one, as when cron fires twice in one hour. `RetainedReportsStored`
  therefore excuses only what the last explored run holds back behind its
  ceiling.
* The supervisor's wait on the context with `consumer_timeout` = 0 is a real
  `wg.Wait()` with no bound (`reportreader/utils.go:61`). So `RunEnds` needs
  either a timeout or `LiveProducers`, the assumption that a partition keeps
  getting traffic past the hour ceiling. The hazard is listed in `PROJECT.json`.

## Not modelled, and why

* **Configuration, metrics, logging, TLS/SASL set-up.** These are I/O with no
  effect on the control flow. Their values that matter appear as constants:
  `MaxRecords` and `ConsumerTimeout`.
* **Test data and mocks.**
* **The date parser inside `ParquetFactory`.** There it is the `HourOf`
  constant. `CollectedDate` checks the parser itself.
* **Path formatting.** `GenerateParquetFilepath` and `GenerateHourPrefix` are not
  modelled. Keys are (hour, index) pairs.
* **The per-hour loop inside `ParquetFactory`.** There a file is identified by
  the run that wrote it, and `TableWriter` shows that this is sound while
  listing succeeds.
* **`S3Writer.New` and `listMaxKey` paging.** These are client construction and
  library behaviour.
* **`TrackPartition`.** It only fills `limitReached`, which nothing reads. It
  fails only on a partition tracked twice, and `getInitialOffsetTracker` runs
  once per process.
* **Overlapping invocations.** Two invocations at once would collide on file
  indexes and race on the commit. Spec 6 (spec.md lines 96 and 235) states
  the index collision itself and assumes the scheduler runs one invocation at
  a time, so the project models one at a time.
* **A positive `time_shift`.** Traffic that arrives during a run is stamped
  with the current hour, which is at or past the ceiling only when the shift
  is 0.
* **`AddRow` dropping a row.** This is non-fatal by design, so no property claims
  more than the abstract write allows.

## Plan

1. **TableWriter** (done): the per-hour write, its refinement, and the
   list-error violation.
2. **Retention and the moving hour ceiling in ParquetFactory** (done).
3. **CollectedDate** (done).
4. **An abstract at-least-once queue spec**, which the whole cycle refines in
   the configurations without the two findings' behaviours.
