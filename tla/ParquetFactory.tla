--------------------------- MODULE ParquetFactory ---------------------------
(***************************************************************************)
(* One parquet-factory process per cron run, repeated MaxRuns times.       *)
(*                                                                         *)
(* Within a run: one goroutine per Kafka partition (consumePartition)      *)
(* feeds the shared limitChecker, PartitionTracker, ArchivePathSet and     *)
(* RulesResultsReportAggregator; the supervisor goroutine of Start()       *)
(* cancels the context when every worker returned, when a worker failed,   *)
(* or on consumer_timeout; main then runs WriteResults (rule_hits table,   *)
(* then archives table) and, only if both succeeded, OffsetCommit.         *)
(*                                                                         *)
(* Across runs only two things survive: the offsets committed to Kafka     *)
(* (committed) and the parquet files in the bucket (store).                *)
(*                                                                         *)
(* Data abstraction: a message is a record of the facts the code branches  *)
(* on; an archive path is a model value whose collection hour is HourOf.   *)
(* A file is identified by (table, hour, run): within one run there is a   *)
(* single writer, so GetLastIndexForParquet yields a fresh index per run   *)
(* (the index computation itself is modelled in TableWriter).             *)
(***************************************************************************)
EXTENDS Integers, Sequences, FiniteSets

CONSTANTS
    Partitions,      \* partitions of the configured topic
    Paths,           \* archive paths carried by reports
    NoPath,          \* a value that is not JSON: GetPathFromRawMsg fails
    Hours,           \* hour buckets (GetHourOnly of the collection date)
    NoDate,          \* ExtractCollectedDate fails on the path
    HourOf,          \* [Paths -> Hours \cup {NoDate}]
    HitPaths,        \* paths whose report.reports is non-empty
    Log,             \* [Partitions -> Seq(Message)]; Log[p][i] has offset i-1
    MaxRecords,      \* max_consumed_records
    MaxRuns,         \* number of cron runs explored
    ConsumerTimeout, \* consumer_timeout > 0 (FALSE: wg.Wait() without bound)
    ConsumeErrors,   \* ConsumePartition may fail with a non-retention error
    WriteErrors,     \* NewFile / CloseFile may fail
    DeleteErrors,    \* DeleteFiles may fail, leaving written files behind
    CommitErrors,    \* the offset commit may fail for some partitions
    Kills,           \* the process may be killed or signalled at any time
    LiveProducers,   \* past the end of Log, a message after the hour
                     \* ceiling eventually arrives on every partition
    MaxLogStart,     \* retention may delete each log up to this offset
    MaxCeiling       \* the last hour a run's ceiling may reach

\* Hours are counted from the first run's ceiling, which is hour 1.
Times == 0..MaxCeiling

\* ts: hour of the Kafka message timestamp; stop: carries the {stop: true}
\* header; wellFormed: the full RulesResultsReport unmarshal in Handle
\* succeeds.
Message == [path: Paths \cup {NoPath}, wellFormed: BOOLEAN,
            ts: Times, stop: BOOLEAN]

ASSUME /\ Log \in [Partitions -> Seq(Message)]
       /\ HourOf \in [Paths -> Hours \cup {NoDate}]
       /\ HitPaths \subseteq Paths
       /\ MaxRecords \in Nat /\ MaxRuns \in Nat \ {0}
       /\ MaxLogStart \in Nat /\ MaxCeiling \in Nat \ {0}

\* sarama sentinels: OffsetOldest / OffsetNewest, and the broker's "no
\* committed offset" value held by a partitionOffsetManager.
OffsetOldest == -2
OffsetNewest == -1
NoOffset     == -1

Tables == {"rule_hits", "archives"}

VARIABLES
    committed,  \* Kafka: committed offset per partition (NoOffset if none)
    logStart,   \* Kafka: first offset retention has not deleted
    store,      \* S3: set of parquet files [table, hour, run, rows]
    run,        \* current cron run
    phase,      \* main: "consume" | "rule_hits" | "archives" | "commit" | "exited"
    worker,     \* consumePartition goroutine state per partition
    next,       \* offset of the next message the partition consumer delivers
    tracked,    \* PartitionTracker.offsets[topic]
    consumed,   \* limitChecker.consumedMessages
    seen,       \* KafkaConsumer.processedMessages (ArchivePathSet)
    reports,    \* aggregator.ReceivedReports (paths; unique by ArchivePathSet)
    cancelled,  \* the context returned by Start() is done
    ceiling,    \* limitChecker.limitTimestamp (hour) of this run
    taken       \* history: offsets per partition that passed CheckMessage
                \* in this run

persisted == <<committed, logStart, store>>
consumer  == <<worker, next, tracked, consumed, seen, reports, cancelled,
              ceiling, taken>>
vars      == <<persisted, run, phase, consumer>>

File == [table: Tables, hour: Hours, run: 1..MaxRuns, rows: SUBSET Paths]

Finished(p) == worker[p] \in {"done", "failed"}

\* A message produced while the run reads: stamped with the current hour,
\* which is not before the ceiling (time_shift 0).
Traffic == [path |-> NoPath, wellFormed |-> FALSE, ts |-> ceiling, stop |-> FALSE]

\* The partition consumer of p has a message to deliver, and which; a
\* fetch below the log start fails instead.
Delivers(p) ==
    /\ next[p] >= logStart[p]
    /\ next[p] < Len(Log[p]) \/ LiveProducers
Msg(p) == IF next[p] < Len(Log[p]) THEN Log[p][next[p] + 1] ELSE Traffic

-----------------------------------------------------------------------------
(* PartitionTracker, limitChecker and offset helpers                      *)

\* Fault variant: the broker's "no offset" value is used as an offset.
NextOffsetRaw(c) == c

\* Fault variant: the committed offset read as the next offset to fetch,
\* the Kafka convention, and stepped back to the last one processed.
NextOffsetPrev(c) == IF c >= 0 THEN c - 1 ELSE OffsetOldest

\* partitionOffsetManager.NextOffset: the committed offset, or the
\* configured Consumer.Offsets.Initial (OffsetOldest) when there is none.
NextOffset(c) == IF c >= 0 THEN c ELSE OffsetOldest

changeOffsetIfNotNewestOrOldest(o) ==
    IF o \in {OffsetOldest, OffsetNewest} THEN o ELSE o + 1

\* initPartitionConsumer: ConsumePartition resolves OffsetOldest to the
\* log start; an offset below it fails with ErrOffsetOutOfRange and the
\* partition is opened again at OffsetOldest.
OutOfRange(p, o) == o # OffsetOldest /\ o < logStart[p]

\* Fault variant: the retry after ErrOffsetOutOfRange uses OffsetNewest.
StartOffsetNewest(p, o) ==
    CASE o = OffsetOldest  -> logStart[p]
      [] OutOfRange(p, o)  -> Len(Log[p])
      [] OTHER             -> o

StartOffset(p, o) ==
    IF o = OffsetOldest \/ OutOfRange(p, o) THEN logStart[p] ELSE o

\* Fault variant: the record cap compared with <= instead of <.
CheckMessageInclusive(m) == consumed <= MaxRecords /\ m.ts < ceiling

CheckMessage(m) == consumed < MaxRecords /\ m.ts < ceiling

CanConsumeMore == consumed < MaxRecords

\* PartitionTracker.GetOffset and GetPartitionsForTopic (GetTopics is the
\* one configured topic); every partition is tracked from the start, so
\* the "no offset cached" errors do not arise.
GetOffset(p) == tracked[p]

GetPartitionsForTopic == DOMAIN tracked

\* RecordOffset rejects an offset below the cached one (negative lag);
\* OffsetOldest is let through with a warning.
\* checkOffset: the message is at or below the offset already recorded.
checkOffset(p) == next[p] <= GetOffset(p)

RecordOffsetRejects(p, o) == o # OffsetOldest /\ tracked[p] > o

\* markMessage: MessageProcessed, then RecordOffset; a rejected offset
\* fails the worker.
markMessage(p, o, after) ==
    /\ consumed' = consumed + 1
    /\ IF RecordOffsetRejects(p, o)
       THEN /\ worker' = [worker EXCEPT ![p] = "failed"]
            /\ cancelled' = TRUE
            /\ UNCHANGED tracked
       ELSE /\ tracked' = [tracked EXCEPT ![p] = o]
            /\ worker' = [worker EXCEPT ![p] = after]
            /\ UNCHANGED cancelled

-----------------------------------------------------------------------------
(* Tables built by WriteResults from the reports received so far          *)

\* generateRuleHitRows / generateArchivesRows: reports whose path has no
\* collection date are skipped; rule_hits only gets rows for rule hits.
RuleHitRows(h, reps) == { x \in reps \cap HitPaths : HourOf[x] = h }

\* Rows are unique per (cluster, collected_at, path) key; with reports
\* unique per path in a run this is one row per report.
ArchiveRows(h, reps) == { x \in reps : HourOf[x] = h }

Rows(t, h, reps) ==
    IF t = "rule_hits" THEN RuleHitRows(h, reps) ELSE ArchiveRows(h, reps)

TableFiles(t, reps) ==
    { [table |-> t, hour |-> h, run |-> run, rows |-> Rows(t, h, reps)] :
        h \in { h \in Hours : Rows(t, h, reps) # {} } }

\* Files of a failed table that survive the rollback: none when
\* DeleteFiles succeeds; otherwise those closed before the failing bucket,
\* in Go map order, hence any proper subset.
Leftovers(fs) ==
    IF DeleteErrors THEN { s \in SUBSET fs : s # fs } ELSE {{}}

\* The files of the table main is writing when the process dies.
PendingFiles ==
    CASE phase = "rule_hits" -> TableFiles("rule_hits", reports)
      [] phase = "archives"  -> TableFiles("archives", reports)
      [] OTHER               -> {}

-----------------------------------------------------------------------------
(* Process start: New() and getInitialOffsetTracker()                     *)

\* getInitialOffsetTracker: every partition is tracked and seeded with
\* NextOffset of its committed offset.
SeedTracker(c) == [p \in Partitions |-> NextOffset(c[p])]

\* New: limitTimestamp = GetHourOnly(now + time_shift); the wall clock of
\* a later run is at the same hour or later.
LimitTimestamps(c) == c..MaxCeiling

Init ==
    /\ committed = [p \in Partitions |-> NoOffset]
    /\ logStart = [p \in Partitions |-> 0]
    /\ store = {}
    /\ run = 1
    /\ phase = "consume"
    /\ worker = [p \in Partitions |-> "start"]
    /\ next = [p \in Partitions |-> 0]
    /\ tracked = SeedTracker(committed)
    /\ consumed = 0 /\ seen = {} /\ reports = {} /\ cancelled = FALSE
    /\ ceiling = 1
    /\ taken = [p \in Partitions |-> {}]

NewRun ==
    /\ phase = "exited" /\ run < MaxRuns
    /\ run' = run + 1
    /\ phase' = "consume"
    /\ worker' = [p \in Partitions |-> "start"]
    /\ next' = [p \in Partitions |-> 0]
    /\ tracked' = SeedTracker(committed)
    /\ consumed' = 0 /\ seen' = {} /\ reports' = {} /\ cancelled' = FALSE
    /\ ceiling' \in LimitTimestamps(ceiling)
    /\ taken' = [p \in Partitions |-> {}]
    /\ UNCHANGED persisted

\* New returns an error (the sarama client, consumer or offset manager
\* cannot be created, or getInitialOffsetTracker fails in ManagePartition,
\* TrackPartition or RecordOffset): createKafkaConsumer passes it up and
\* main ends the process with CONSUMERERROR before anything is read.
NewFails ==
    /\ ConsumeErrors
    /\ phase = "exited" /\ run < MaxRuns
    /\ run' = run + 1
    /\ UNCHANGED <<persisted, phase, consumer>>

\* Start: consumer.Partitions fails, the context is cancelled and no
\* worker goroutine is started; main goes on to write and commit.
StartFails ==
    /\ ConsumeErrors
    /\ phase = "consume" /\ ~cancelled
    /\ \A p \in Partitions : worker[p] = "start"
    /\ consumed = 0 /\ seen = {}
    /\ worker' = [p \in Partitions |-> "done"]
    /\ cancelled' = TRUE
    /\ UNCHANGED <<persisted, run, phase, ceiling, taken, next, tracked,
                   consumed, seen, reports>>

-----------------------------------------------------------------------------
(* consumePartition(p)                                                     *)

Running(p) == phase # "exited" /\ ~Finished(p)

WorkerLimitReached(p) ==
    /\ Running(p) /\ worker[p] = "start"
    /\ ~CanConsumeMore
    /\ worker' = [worker EXCEPT ![p] = "done"]
    /\ UNCHANGED <<persisted, run, phase, ceiling, taken, next, tracked,
                   consumed, seen, reports, cancelled>>

WorkerOpen(p) ==
    /\ Running(p) /\ worker[p] = "start"
    /\ CanConsumeMore
    /\ next' = [next EXCEPT ![p] =
                  StartOffset(p, changeOffsetIfNotNewestOrOldest(GetOffset(p)))]
    /\ worker' = [worker EXCEPT ![p] = "consuming"]
    /\ UNCHANGED <<persisted, run, phase, ceiling, taken, tracked, consumed,
                   seen, reports, cancelled>>

\* initPartitionConsumer returns a non-retention error: the worker returns
\* it and the goroutine in Start() cancels the context.
WorkerOpenFails(p) ==
    /\ ConsumeErrors
    /\ Running(p) /\ worker[p] = "start"
    /\ CanConsumeMore
    /\ worker' = [worker EXCEPT ![p] = "failed"]
    /\ cancelled' = TRUE
    /\ UNCHANGED <<persisted, run, phase, ceiling, taken, next, tracked,
                   consumed, seen, reports>>

\* A message arrives; limits.CheckMessage decides whether it is taken.
\* Fault variant: a message past the limits is skipped ("continue") instead
\* of ending the worker ("return nil").
WorkerReceiveContinue(p) ==
    /\ Running(p) /\ worker[p] = "consuming"
    /\ Delivers(p)
    /\ worker' = [worker EXCEPT ![p] =
                    IF CheckMessage(Msg(p)) THEN "checked" ELSE "consuming"]
    /\ UNCHANGED <<persisted, run, phase, ceiling, taken, next, tracked,
                   consumed, seen, reports, cancelled>>

\* checkOffset skips a message at or below the recorded offset; then
\* limits.CheckMessage decides whether it is taken or the worker returns.
WorkerReceive(p) ==
    /\ Running(p) /\ worker[p] = "consuming"
    /\ Delivers(p)
    /\ IF checkOffset(p)
       THEN next' = [next EXCEPT ![p] = @ + 1] /\ UNCHANGED <<worker, taken>>
       ELSE /\ worker' = [worker EXCEPT ![p] =
                            IF CheckMessage(Msg(p)) THEN "checked" ELSE "done"]
            /\ taken' = [taken EXCEPT ![p] =
                      IF CheckMessage(Msg(p)) THEN @ \cup {next[p]} ELSE @]
            /\ UNCHANGED next
    /\ UNCHANGED <<persisted, run, phase, ceiling, tracked, consumed, seen,
                   reports, cancelled>>

\* The fetch offset fell below the log start: sarama closes the partition
\* consumer, the range over Messages() ends, AsyncClose, and the outer
\* loop opens the partition again from the tracked offset.
StreamClosed(p) ==
    /\ Running(p) /\ worker[p] = "consuming"
    /\ next[p] < logStart[p]
    /\ worker' = [worker EXCEPT ![p] = "start"]
    /\ UNCHANGED <<persisted, run, phase, ceiling, taken, next, tracked,
                   consumed, seen, reports, cancelled>>

Skip(p) ==
    /\ next' = [next EXCEPT ![p] = @ + 1]
    /\ worker' = [worker EXCEPT ![p] = "consuming"]

ProcessStop(p) ==
    /\ Running(p) /\ worker[p] = "checked"
    /\ Msg(p).stop
    /\ markMessage(p, next[p], "done")
    /\ UNCHANGED <<persisted, run, phase, ceiling, taken, next, seen, reports>>

ProcessUnparsable(p) ==
    /\ Running(p) /\ worker[p] = "checked"
    /\ ~Msg(p).stop /\ Msg(p).path = NoPath
    /\ Skip(p)
    /\ UNCHANGED <<persisted, run, phase, ceiling, taken, tracked, consumed,
                   seen, reports, cancelled>>

ProcessDuplicate(p) ==
    /\ Running(p) /\ worker[p] = "checked"
    /\ ~Msg(p).stop /\ Msg(p).path \in seen
    /\ Skip(p)
    /\ UNCHANGED <<persisted, run, phase, ceiling, taken, tracked, consumed,
                   seen, reports, cancelled>>

\* processedMessages.Add(path) succeeded, then Aggregator.Handle fails.
ProcessHandleError(p) ==
    /\ Running(p) /\ worker[p] = "checked"
    /\ ~Msg(p).stop /\ Msg(p).path \in Paths \ seen
    /\ ~Msg(p).wellFormed
    /\ seen' = seen \cup {Msg(p).path}
    /\ Skip(p)
    /\ UNCHANGED <<persisted, run, phase, ceiling, taken, tracked, consumed,
                   reports, cancelled>>

ProcessReport(p) ==
    /\ Running(p) /\ worker[p] = "checked"
    /\ ~Msg(p).stop /\ Msg(p).path \in Paths \ seen
    /\ Msg(p).wellFormed
    /\ seen' = seen \cup {Msg(p).path}
    /\ reports' = reports \cup {Msg(p).path}
    /\ next' = [next EXCEPT ![p] = @ + 1]
    /\ markMessage(p, next[p], "consuming")
    /\ UNCHANGED <<persisted, run, phase, ceiling, taken>>

-----------------------------------------------------------------------------
(* Start() supervisor and main (startKafkaCollection)                      *)

AllWorkersReturned ==
    /\ phase = "consume" /\ ~cancelled
    /\ \A p \in Partitions : Finished(p)
    /\ cancelled' = TRUE
    /\ UNCHANGED <<persisted, run, phase, ceiling, taken, worker, next,
                   tracked, consumed, seen, reports>>

Timeout ==
    /\ ConsumerTimeout
    /\ phase = "consume" /\ ~cancelled
    /\ \E p \in Partitions : ~Finished(p)
    /\ cancelled' = TRUE
    /\ UNCHANGED <<persisted, run, phase, ceiling, taken, worker, next,
                   tracked, consumed, seen, reports>>

\* Fault variant: main waits for every worker to return instead of the
\* context.
ConsumersDoneWaitAll ==
    /\ phase = "consume" /\ \A p \in Partitions : Finished(p)
    /\ phase' = "rule_hits"
    /\ UNCHANGED <<persisted, run, consumer>>

\* waitForConsumers returns on <-Start().Done().
ConsumersDone ==
    /\ phase = "consume" /\ cancelled
    /\ phase' = "rule_hits"
    /\ UNCHANGED <<persisted, run, consumer>>

\* createRuleHitTable / createArchivesTable over the reports held now.
WriteTable(t, then) ==
    /\ phase = t
    /\ \/ /\ store' = store \cup TableFiles(t, reports)
          /\ phase' = then
       \/ /\ WriteErrors /\ TableFiles(t, reports) # {}
          /\ \E left \in Leftovers(TableFiles(t, reports)) :
                store' = store \cup left
          /\ phase' = "exited"
    /\ UNCHANGED <<committed, logStart, run, consumer>>

\* Fault variant: the next offset to read (last + 1) is committed, the
\* Kafka convention, while the next run also adds 1 when it opens.
MarkOffsetNext(c, o) == IF o + 1 > c THEN o + 1 ELSE c

\* partitionOffsetManager.MarkOffset only moves the offset forward.
MarkOffset(c, o) == IF o > c THEN o ELSE c

OffsetCommit ==
    /\ phase = "commit"
    /\ \E ok \in (IF CommitErrors THEN SUBSET Partitions ELSE {Partitions}) :
          committed' = [p \in Partitions |->
                          IF p \in ok \cap GetPartitionsForTopic
                          THEN MarkOffset(committed[p], GetOffset(p))
                          ELSE committed[p]]
    /\ phase' = "exited"
    /\ UNCHANGED <<store, logStart, run, consumer>>

\* SIGKILL, or SIGINT/SIGTERM while waiting for the consumers: the process
\* ends without committing; a table being written may be partly in S3.
Kill ==
    /\ Kills /\ phase # "exited"
    /\ \E left \in SUBSET PendingFiles : store' = store \cup left
    /\ phase' = "exited"
    /\ UNCHANGED <<committed, logStart, run, consumer>>

\* Broker retention deletes the oldest segment of a partition, at any
\* time, between runs or while a run reads it.
Retain(p) ==
    /\ logStart[p] < MaxLogStart /\ logStart[p] < Len(Log[p])
    /\ logStart' = [logStart EXCEPT ![p] = @ + 1]
    /\ UNCHANGED <<committed, store, run, phase, consumer>>

Finish ==
    /\ phase = "exited" /\ run = MaxRuns
    /\ UNCHANGED vars

-----------------------------------------------------------------------------

Worker(p) ==
    \/ WorkerLimitReached(p) \/ WorkerOpen(p) \/ WorkerOpenFails(p)
    \/ WorkerReceive(p) \/ StreamClosed(p)
    \/ ProcessStop(p) \/ ProcessUnparsable(p) \/ ProcessDuplicate(p)
    \/ ProcessHandleError(p) \/ ProcessReport(p)

Next ==
    \/ \E p \in Partitions : Worker(p)
    \/ AllWorkersReturned \/ Timeout \/ ConsumersDone
    \/ WriteTable("rule_hits", "archives") \/ WriteTable("archives", "commit")
    \/ OffsetCommit \/ Kill \/ NewRun \/ NewFails \/ StartFails \/ Finish
    \/ \E p \in Partitions : Retain(p)

\* Goroutines that can run keep running; a timer that is armed fires.
Fairness ==
    /\ \A p \in Partitions : WF_vars(Worker(p))
    /\ WF_vars(AllWorkersReturned) /\ WF_vars(Timeout)
    /\ WF_vars(ConsumersDone)
    /\ WF_vars(WriteTable("rule_hits", "archives"))
    /\ WF_vars(WriteTable("archives", "commit"))
    /\ WF_vars(OffsetCommit) /\ WF_vars(NewRun)

Spec == Init /\ [][Next]_vars /\ Fairness

-----------------------------------------------------------------------------
(* Properties                                                              *)

TypeOK ==
    /\ committed \in [Partitions -> {NoOffset} \cup Nat]
    /\ logStart \in [Partitions -> 0..MaxLogStart]
    /\ store \subseteq File
    /\ run \in 1..MaxRuns
    /\ phase \in {"consume", "rule_hits", "archives", "commit", "exited"}
    /\ worker \in [Partitions -> {"start", "consuming", "checked", "done",
                                  "failed"}]
    /\ next \in [Partitions -> Nat]
    /\ tracked \in [Partitions -> {OffsetOldest} \cup Nat]
    /\ consumed \in Nat
    /\ seen \subseteq Paths /\ reports \subseteq seen
    /\ cancelled \in BOOLEAN
    /\ ceiling \in 1..MaxCeiling
    /\ taken \in [Partitions -> SUBSET Nat]

Storable(m) ==
    /\ m.path \in Paths /\ m.wellFormed /\ ~m.stop
    /\ HourOf[m.path] # NoDate

StoredIn(t, x) == \E f \in store : f.table = t /\ x \in f.rows

\* Log[p][i] (offset i - 1) has been deleted by retention.
Expired(p, i) == i - 1 < logStart[p]

\* At-least-once (spec 1, 4.7): once the offset of a message that carries
\* a report is committed, its archives row, and its rule_hits rows if it
\* has rule hits, are in S3. Breaks if main snapshots the reports while a
\* worker still handles and marks messages (Start/waitForConsumers), if a
\* skipped message is marked, or if tracker seeding or commit is off by one.
\* Reports retention deleted are excused.
AtLeastOnce ==
    \A p \in Partitions : \A i \in 1..Len(Log[p]) :
        LET m == Log[p][i] IN
        (i - 1 <= committed[p] /\ Storable(m) /\ ~Expired(p, i)) =>
            /\ StoredIn("archives", m.path)
            /\ m.path \in HitPaths => StoredIn("rule_hits", m.path)

\* Stop marker (spec glossary, test 7: "table is built from messages up to
\* and including this one"): once the offset of a stop-marked message that
\* carries a report is committed, that report is in archives.  The worker
\* marks the message and returns (consumePartition, checkHeaders) without
\* handing it to the aggregator.
StopMarkerIncluded ==
    \A p \in Partitions : \A i \in 1..Len(Log[p]) :
        LET m == Log[p][i] IN
        (m.stop /\ i - 1 <= committed[p] /\ ~Expired(p, i)
            /\ Storable([m EXCEPT !.stop = FALSE])) =>
            StoredIn("archives", m.path)

\* The per-run record cap (limitChecker): CheckMessage and
\* MessageProcessed are separately atomic, so concurrent partition workers
\* may each pass the check before any of them counts; the overshoot is at
\* most one message per other worker.
RecordCapBound ==
    consumed <= MaxRecords + Cardinality(Partitions) - 1

\* Idempotent outputs modulo rule_hits (spec 4.7): no archive path has a
\* row in two archives files.
ArchivesIdempotent ==
    \A f, g \in store :
        (f.table = "archives" /\ g.table = "archives" /\ f # g) =>
            f.rows \cap g.rows = {}

\* No row is in two files of the same table.  Spec 8 item 7 states this
\* for a NewFile/CloseFile failure followed by a good run; WriteResults
\* only deletes the files of the table that failed, so the rule_hits files
\* of a run whose archives table fails stay and the next run writes those
\* rows again.  With no injected failures and each path at one offset it
\* holds across runs: getInitialOffsetTracker seeds the tracker with the
\* committed offset (the last one processed), initPartitionConsumer opens
\* one past it, and checkOffset skips anything at or below it, so no later
\* run hands a committed offset to the aggregator again.  A path sent at
\* two offsets that the record cap splits across runs is written twice.
NoDuplicateRows ==
    \A f, g \in store :
        (f.table = g.table /\ f # g) => f.rows \cap g.rows = {}

\* OffsetCommit never moves a committed offset over an offset that no
\* worker of this run took through limits.CheckMessage, unless retention
\* had deleted it: the tracker handed to MarkOffset holds only offsets
\* recorded by markMessage after the report reached the aggregator, and
\* initPartitionConsumer opens one past the committed offset.  Checked
\* under consumer timeouts, kills, and open, write and commit errors.
CommitCoversRead ==
    [][\A p \in Partitions :
         \A o \in (committed[p] + 1)..committed'[p] :
            o < logStart[p] \/ o \in taken[p]]_vars

\* Every run ends: the workers return (hour ceiling, stop marker, record
\* cap) or the consumer timeout fires, and main writes and exits.
RunEnds == (phase = "consume") ~> (phase = "exited")

\* The last explored run has ended, and a message at or past its hour
\* ceiling, at or before Log[p][i], ended its reader of p unmarked.
HeldBack(p, i) ==
    /\ run = MaxRuns /\ phase = "exited"
    /\ \E j \in 1..i : Log[p][j].ts >= ceiling

\* Retention and the hour ceiling (initPartitionConsumer, consumePartition's
\* outer loop, limitChecker): a report still in the log is eventually
\* stored and its offset committed, so no later run reads it again, even
\* when the committed offset fell below the log start between runs (the
\* open fails with ErrOffsetOutOfRange and is retried at OffsetOldest), the
\* log start passed the reader during a run (sarama closes the stream and
\* the loop reopens it), or a message past the run's ceiling held it back
\* (a run of a later hour reads it).  Checked with a record cap that fits
\* the backlog and no injected write, commit or kill failures.
RetainedReportsStored ==
    \A p \in Partitions : \A i \in 1..Len(Log[p]) :
        Storable(Log[p][i]) =>
            <>(\/ StoredIn("archives", Log[p][i].path) /\ committed[p] >= i - 1
               \/ Expired(p, i)
               \/ HeldBack(p, i))
=============================================================================
