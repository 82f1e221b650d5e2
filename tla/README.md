# Verification of the ecommerce Iceberg pipeline

TLA+ models of this repository's programs: from the CSV file through Kafka and
Flink to Bronze and the DLQ, the DLQ replayer, Bronze to Silver to funnel to Gold
with the Airflow DAG that drives it, and Iceberg maintenance. They are checked
with TLC on small instances, and theorems about them are proved with TLAPS for
every value of the constants.
Paths are relative to the repository root; `pipelines/` stands for
`code/pipelines/`.

Run a check with `tlc -config MCIncremental.cfg MCIncrementalPipeline.tla`, a
proof with `tlapm RunProofs.tla`. `PROJECT.json` lists components, runs, the
lines each definition models, mutants, findings, hazards and theorems.

## 1. The system

```
CSV -> kafka_producer -> Kafka -> raw_zone_consumer (Flink) -> Bronze (Parquet on S3)
                           ^              |
                           |              +-> DLQ topic -> dlq_replayer --+
                           +----------------------------------------------+
Bronze -> bronze_to_silver_events -> silver_events --+-> silver_to_gold -> 5 Gold tables
               |                         |           |
               +- batch file (S3) -> silver_events_to_funnel -> silver_funnel
DAG ecommerce_incremental: silver_events >> silver_funnel >> gold >> health_check
DAGs iceberg_compaction, iceberg_cleanup: iceberg_maintenance over all tables
```

| Component | State it keeps | Operations | Interacts through |
|---|---|---|---|
| Producer `pipelines/ingestion/kafka_producer.py` | counters of attempted, confirmed, failed sends | send a row, delivery callback, flush, final accounting | Kafka topics; callbacks on another thread |
| Raw zone consumer `pipelines/ingestion/raw_zone_consumer.py` | consumer offsets, checkpoints, part files | validate and route a record, finish files with a checkpoint | Bronze files, at-least-once DLQ output |
| Contract and validation `pipelines/common/event_*.py` | none | classify one payload, compute `event_id` | called by consumer, producer, replayer |
| DLQ replayer `pipelines/ingestion/dlq_replayer.py` | the range of one replay, its report | check the range, fetch, correct, send, wait for the acknowledgement | DLQ and event topics, a report file |
| silver_events job `pipelines/silver/bronze_to_silver_events.py` | table silver_events, one batch file per attempt | read a window, deduplicate, MERGE, write the batch, report | Bronze, batch file, XCom (last line of output) |
| silver_funnel job `pipelines/silver/silver_events_to_funnel.py` | table silver_funnel | find affected keys, recompute them, MERGE, report dates; full rebuild | batch file, silver_events, XCom |
| gold job `pipelines/gold/silver_to_gold.py` | five Gold tables | overwrite the partitions of the given dates, table by table; full rebuild | silver_events, silver_funnel, XCom |
| DAG `airflow/dags/ecommerce_incremental.py` | runs, attempts, XComs | schedule, trigger, run, retry, fail | `docker exec`, the one slot of `spark_pool` |
| Maintenance `pipelines/operations/iceberg_maintenance.py` and its DAGs | snapshots, data, delete and orphan files | compact, rewrite deletes and manifests, expire, remove orphans | the Iceberg tables, `spark_pool` |
| Health check, DDL, verification, Spark session, dashboards | none of their own | queries, table creation, configuration | the tables |

What is hard here is mostly not concurrency inside a program but what failure,
retry and lateness do between them:

* An attempt can die before or after any commit, and the retry starts the whole
  command again over tables that the dead attempt has changed.
* The hand-off between tasks (batch file, XCom dates) is separate from the
  tables it describes. Whatever is not in the hand-off is not recomputed.
* Events arrive late and in any order, so a batch changes funnel rows of other
  sessions and Gold partitions of long past days.
* For speed every job prunes: Silver's MERGE by event date, the funnel's
  candidates, evidence and MERGE by partition, Gold by the reported dates. Each
  pruning must be wide enough.
* Counts and acknowledgements of Kafka come late, from another thread, or never,
  and the exit status and the reports are made of them.
* Flink commits offsets and finishes files one after the other, and a resubmitted
  job knows only the offsets.
* Retention removes DLQ records and snapshots while somebody reads them; files
  are deleted next to jobs that write.

What makes each part correct is stated in section 4. The hazards, each with its
line and the properties that watch it, are in `PROJECT.json`.

## 2. Modules

| Module | Models |
|---|---|
| `FunnelRules` | what `silver_events_to_funnel.py` computes: the row of one key, affected keys, pruned reads, the MERGE |
| `GoldRules` | what each Gold table aggregates for a date, and the dates an incremental job selects for it |
| `IncrementalPipeline` | DAG runs one after another: the three jobs, their commits, hand-off, crashes, retries and failures, and the full modes run by hand |
| `DerivedLayers` | abstract specification: Silver grows, funnel rows and Gold partitions are only ever replaced by what Silver defines at that moment |
| `SilverEvents` | copies of events from Bronze through windows, deduplication and the date-pruned MERGE into silver_events |
| `EventRules` | the input contract: `validate_event` with its reason codes and normalisation, `compute_event_id`, topics and types |
| `EventTopics` | the topics and the DLQ as logs, and a record of the DLQ |
| `Producer` | `kafka_producer.py`: rows, sends, callbacks of the client's thread, flush, accounting, exit |
| `RawZone` | `raw_zone_consumer.py`: the Flink job of one topic with checkpoints, restarts, cancellation and resubmission |
| `Ingest` | composes `Producer` and `RawZone` over one topic |
| `DlqReplay` | `dlq_replayer.py`, run again and again over a DLQ that grows and expires |
| `Maintenance` | `iceberg_maintenance.py` and its two DAGs, next to a job that writes the same tables |
| `TableVersions` | abstract specification: only jobs change contents, a version stays readable for the retention |
| `MC...` | instances for TLC |
| `...Proofs` | theorems, see section 6 |

`IncrementalPipeline` extends `GoldRules`, which extends `FunnelRules`.
`IncrementalPipeline` implements `DerivedLayers` (`ImplementsDerivedLayers`; the
three tables are the abstract ones, all else is hidden). `SilverEvents` is the
detailed view of the first task: `IncrementalPipeline!MergeSilver` takes a batch
to be any set of events that holds what earlier attempts of the run merged, and
`SilverEvents` shows that the windows give it one (`RetrySeesWhatItMerged`).
`Producer`, `RawZone` and `DlqReplay` extend `EventTopics`, which extends
`EventRules`. What `RawZone` calls `bronze` is what `SilverEvents` reads: the former
says which records get there and how often, the latter when and in how many copies.
`Maintenance` implements `TableVersions` (`ImplementsTableVersions`).

### Correspondence with the code

*FunnelRules.* An event is a record with its type, session, product, user and
time in seconds (`bigint(event_time)`). A row keeps the three first times, the
counts, the user, the date and `later_purchase_ts`; columns that follow from these
or are only carried along (prices, category, brand, the gaps in seconds) are left
out. `SessionFunnel` is one group of `build_session_funnel`, `AttachCrossSession`
the 30-day join, `PropagatedPartitions` and `PurchaseEvidence` the two reads pruned
to 30 days back and ahead, `MergeDates` the old and new dates given to the MERGE.
`Merge` is pruned like the statement: a row outside those dates is not found, and
its key is inserted again. Everything is a set expression or a fold, without
recursion, so the same definitions are checked and proved about.

*GoldRules.* All builders group by date, so a partition is a function of the Silver
rows of its date. It is modelled by those rows: two partitions with the same rows
have the same sums. A date without rows has no partition (`Absent`).

*IncrementalPipeline.* `task`, `step` and `position` are the program counter: the
running task, how far its attempt has come, the Gold table it is at. One action is
one commit or hand-off:

| Action | Code |
|---|---|
| `MergeSilver`, `WriteBatchOutput`, `ReportSilver` | `main` of the Silver job: MERGE, batch file, last line of output |
| `SkipFunnel`, `PlanFunnel`, `MergeFunnel`, `ReportFunnel` | the task's shell test on `EVENT_COUNT`, `run_incremental` up to its MERGE, the MERGE, the report |
| `OverwriteGold`, `SkipGoldTable`, `FinishGold` | one turn of the loop over `BUILDERS` |
| `FinishRun`, `FailAttempt`, `FailRun` | `health_check` succeeds; an attempt dies anywhere and is retried; retries are used up |
| `RebuildSilver`, `RebuildFunnel`, `RebuildGold` | the jobs' full modes, started by hand between runs |

`merged`, `owedEvents`, `dirty`, `lost` and `unreported` are history variables: they
record which events and partitions still await a recomputation, and no action
reads them (`MergeSilver` uses `merged` only to say that a retry of the same
window reads again what it has read).

A job that raises because a batch spans more than 366 dates (`TooManyDates`) has
no `PlanFunnel` step; only its failure is possible.

*SilverEvents.* A copy of an event is a Kafka record with the time Flink processed
it. Copies wait in `unfinished` part files until a checkpoint makes them visible in
`bronze`, up to `MaxDelay` later. The scheduler starts the latest complete interval
and none it missed (`catchup=False`); an operator may give any window. The table is
a bag, so that a second row of the same copy is seen.

*EventRules.* A payload is its shape (object, other JSON, no JSON, or JSON on which
`json.loads` raises something else), per field the kind of the value and what
`str()` makes of it, and the `event_id`. The hash is modelled by the nine strings
that are hashed, so two ids are equal exactly if these are. `ReasonCode` has the
checks in the code's order.

*Producer.* `main` is at `reading`, `flushed`, `accounted` or `ended`; `sent` and
`appended` are the rows the client or only the broker has.

| Action | Code |
|---|---|
| `SkipRow`, `StopAtRow`, `Publish`, `PublishFails` | one turn of the loop of `main` with `publish`: unknown type, `parse_event_time` raises, `send` succeeds, `send` raises |
| `Flush`, `Account`, `End` | `flush` (returns or raises), the sum of the counts, `sys.exit` |
| `Append1`, `Confirm`, `FailDelivery` | the broker; `on_success`, `on_error` on the client's thread, possibly after the record has arrived |
| `LoseCallback` | a record settled before `add_callback`/`add_errback` have registered |

*RawZone.* Offsets of rows are in `open` part files, in `unfinished` ones that a
checkpoint has closed, or in `bronze` with a count; `buffered` are those in the DLQ
sink.

| Action | Code |
|---|---|
| `Submit`, `Route` | the job with its source settings; `parse_and_validate` and the two INSERTs |
| `WriteDlq`, `Checkpoint` | the at-least-once sink, flushed before a checkpoint completes |
| `FinishFiles`, `CommitOffsets` | what sinks and source do once it has, in either order |
| `Failover`, `Stop` | a task restarts from the last checkpoint; the job is cancelled |

*DlqReplay.* `main` is the place in the program, `records` the fetched offsets still to
be tried, `outcomes` and `reports` what the report file will have and has.

| Action | Code |
|---|---|
| `LoadCorrections`, `CheckBeginning`, `CheckEnd` | `load_corrections`, the two range checks of `fetch_dlq_records` |
| `ReadMessage`, `ResetPosition`, `ReadTimesOut`, `CheckPosition` | its loop, the consumer's reset of a position out of range, its timeout, the check after it |
| `Skip`, `Raise`, `Reject`, `DryRun`, `Send`, `SendRaises`, `Replayed`, `NotAcknowledged` | one record in `replay`: filters, `process_record`, `send`, `future.get` |
| `WriteReport` | flush, `write_report`, the exit status |
| `Die`, `Arrive`, `RejectedAgain`, `Expire` | the process is killed; the broker appends, in time or late; the DLQ grows; retention |

*Maintenance.* A table is a sequence of snapshots, each a set of files; it has one
key, a data file is one row of it and a delete file deletes the row of one data file.
`plan` is what the step in work has written or is to delete.

| Action | Code |
|---|---|
| `Create`, `Begin`, `Die`, `End` | a DAG run with its `--as-of`, an attempt, its death, the exit status |
| `FinishTable`, `StepRaises` | the loop over tables, which goes on after a failure |
| `RewriteDataFiles`/`CommitDataFiles`, `RewritePositionDeleteFiles`, `RewriteManifests` | the procedures; the first writes and commits in two steps |
| `ExpireSnapshots`, `RemoveOrphanFiles`, `DeleteFiles` | metadata first, then one file at a time |
| `BeginWrite`, `EndWrite`, `AbandonWrite` | a job merging into the table, its validated commit, its death |

## 3. Assumptions and abstractions

* Tasks of all runs are sequential: `max_active_runs=1` and a `spark_pool` of one
  slot (`infra/docker-compose.airflow.yml:88`). Jobs in full mode are started with
  `docker exec`, which neither of the two restrains: that they run alone, between DAG
  runs (`ByHand`), is assumed of the operator. A Spark process that
  outlives its killed task is modelled next to maintenance (`Maintenance`), where only files are at
  stake; two Silver or funnel MERGEs at once are not.
* Each MERGE and each partition overwrite is one atomic Iceberg commit.
* `NoUserTies`: the earliest events of a session agree on the user; `min_by` is
  otherwise not deterministic. The prices of a row are picked by `min_by` too
  (`silver_events_to_funnel.py:157-158`) and are left out of the model with their ties;
  `RetriedMergeWritesNothing`, and its theorem, hold up to a price that such a tie
  changes. `EventAssumption`: finitely many well-formed events.
* In the funnel and Gold modules an event has one copy and a valid date. Several
  copies and NULL dates are the subject of `SilverEvents`.
* Full mode is modelled without `--from-date`/`--to-date`.
* Kafka: the clients have `retries=0`, so a record is appended at most once per send
  and may be appended although its sender was told otherwise. One partition per
  topic, one of the DLQ. A DLQ record counts as fetched when the consumer returns it.
  Its reason says nothing of its payload: it may have been rejected under earlier rules
  and be valid today, in which case it is replayed without a correction
  (`docs/domain/data-contracts.md:79-80`).
* Flink: what its checkpoints, committers and Kafka source do is modelled from the
  job's settings (`raw_zone_consumer.py`), not from Flink's code.
* Iceberg: a commit of a rewrite or of a merge is refused if the files it replaces are
  gone or have new deletes. Unless its options have every file
  rewritten (`all` of an invocation names the rewrites that have such options), a rewrite
  takes whatever subset the procedure's defaults choose, and so it is in the weekly
  compaction, which gives no options by default.
* Maintenance attempts run one after the other. No commit keeps its files unreferenced
  for longer than the retention (`LongestWrite`): `remove_orphan_files` relies on it.
* Fairness of the batch runs is `WF_vars(RunStep)`: an attempt that runs eventually commits or fails,
  as a batch job does. Nothing obliges the scheduler or an operator to start a run,
  and an attempt may fail instead of ending well every time. A hang is excluded by
  this assumption (no task has an `execution_timeout`; listed as a hazard).
  Fairness of `Ingest` is that of `JobStep`: a submitted Flink job goes on reading,
  flushing and checkpointing. Nobody has to submit or resubmit it, and
  `RecordsArrive` asks only of a job that stays up. Fairness of `DlqReplay` is that of
  `ReplayStep`: `consumer_timeout_ms` bounds the read, `future.get` has its timeout,
  everything else is computation. `Maintenance` has safety properties only.

## 4. Properties

Of `IncrementalPipeline`:

| Property | Says |
|---|---|
| `UniqueFunnelKeys` | one funnel row per session and product, although the MERGE looks only where it was told |
| `FunnelFreshUnlessOwed` | every key has the row a full rebuild would give it, except while an event that bears on it awaits its funnel MERGE; for keys whose views and carts share a day |
| `NothingMergedIsForgotten` | a run past its funnel task has covered everything its attempts, dead ones too, merged into Silver |
| `StaleGoldIsAccountedFor` | a stale Gold partition was touched by this run, or a failed one, or by hand: it records what a failed run leaves, which nothing in the code repairs, and forbids any other |
| `GoldSettlesRun` | a run past its gold task has overwritten all it made stale, unless a funnel attempt died between MERGE and report |
| `RowsKeepTheirHistory` | rows never vanish and their counts never fall, in whatever order events arrive |
| `RetriedMergeWritesNothing` | the MERGE of a retry physically writes no row |
| `ImplementsDerivedLayers` | every write is a write of the abstract specification |
| `RunsEnd` | every run ends |

Of `SilverEvents`:

| Property | Says |
|---|---|
| `DatedEventsAreUnique` | one row per event with a valid date, whatever windows read its copies |
| `WindowsCoverBronze` | no copy slips between two windows, though its file is finished after the day has ended |
| `RetrySeesWhatItMerged` | a retry reads again every event that the run has merged |
| `InOrderMergesGoForward` | no row goes back to an earlier copy as long as windows are merged in the order of their ends |

Of `Ingest`:

| Property | Says |
|---|---|
| `SuccessMeansDelivered` | a producer that exits with 0 has every row of a known type in its topic, though failures are known only from another thread's counts |
| `RecordsAreKept` | the job starts again nowhere beyond a record that is in neither Bronze nor the DLQ nor a file about to be finished, except for files dropped by a cancellation (`lost`) |
| `RestartsWriteOnce` | task restarts double no row and lose none |
| `IdsTellEventsApart` | producer, JSON and validator together: equal `event_id` exactly for equal events |
| `RecordsArrive` | in a job that stays up every record ends in Bronze or the DLQ |

Of `DlqReplay`:

| Property | Says |
|---|---|
| `ReportTells` | a report stays true whatever arrives after its wait was given up |
| `SentAsItsLineSays` | a record goes out only in a run that was to execute, and only valid: as the one line for its offset corrects it, or as it came if there is none, though the DLQ may hold it twice and earlier rules may have rejected it |
| `RepeatsSendTheSame` | what is sent again, after an error half-way or from another copy in the DLQ, is the same message with the same `event_id`, whatever ids came with the records or were given for them |
| `SentIsAccepted` | what was sent passes today's validation, with the id of its new contents |
| `RangeIsCompleteUnlessExpired` | a report speaks of all of its range, unless retention has passed the start of the range |
| `ReplayEnds` | a replay ends |

Of `Maintenance`:

| Property | Says |
|---|---|
| `SnapshotsAreWhole` | no file of a snapshot, or of a write in progress, is deleted, next to a running job and after dead attempts |
| `FinishedTablesAreClean` | tables not in `failed_tables` are swept, and without dangling deletes if all delete files were to be rewritten, whatever earlier attempts left behind; of a compaction with the default options it says nothing |
| `RemovesOnlyOlder` | late attempts and retries remove nothing younger than the retention at the time the run was due |
| `ImplementsTableVersions` | contents change by job commits only, and versions within the retention stay readable |

Each property of a passing run has a mutant: a plausible wrong variant of one
mapped definition (defined just before it and marked so) that TLC finds to violate
the property.

## 5. Runs

| Run | Instance | Result |
|---|---|---|
| `incremental` | 5 events of 2 sessions, 2 runs or jobs by hand, 1 retry | 8 properties hold, 302 k states |
| `layers` | 3 events, 3 runs, a limit of one date that a batch can exceed | refinement and termination hold, 142 k states |
| `silver_windows` | 2 events, 3 records, 2 copies, interval 3, overlap and delay 1, 8 instants, 1 retry, 1 run by hand | 5 properties hold, 690 k states |
| `ingest` | 4 rows (2 events one cell apart, an unknown type, a bad time), limit with and without the bad time, one earlier record that is no JSON, 1 restart, 2 submissions | 6 properties hold, 598 k states |
| `dlq_replay` | 2 runs out of 7 argument lists, 2 DLQ records of 3 kinds, retention | 7 properties hold, 142 k states |
| `maintenance` | a merge-on-read and a copy-on-write table, 2 runs out of 3 kinds, 1 retry of the cleanup, 1 write of a job, 3 instants | 5 properties hold, 556 k states |
| `midnight` | a session across midnight | `IncrementalEqualsRebuild` violated |
| `lost_dates` | a row that moves to another date | `RetriedRunConverges` violated |
| `gold_rebuild` | the same | `FullRebuildRefreshesTable` violated |
| `silver_by_hand` | as `silver_windows` | `MergesGoForward` violated |
| `silver_undated` | one event without a date | `EventIdIsKey` violated |
| `replay_retention` | as `dlq_replay` | `RangeIsComplete` violated |

Why the bounds are enough to be of interest. Batches are arbitrary sets of the
events, so two runs give every split into two batches and every order of arrival.
The events are chosen around the boundaries of the rules: a late view that moves a
row to another date, a purchase in the last hours of the 30-day window (day 30, so
a window one day short misses it), a purchase of the same session after midnight,
a cross-session purchase that another one precedes. One retry allows one death at
any point and one failed run; a failed run followed by another run or a rebuild
shows what failure leaves behind. `MaxRuns = 4` in `gold_rebuild` leaves room for a
full rebuild after a failed run. In `silver_windows` two data intervals end within
the clock, with copies one unit before, at and after each end. In `ingest` the two
events differ in `"0"` against an empty cell, where a careless test for falsehood
would confuse them, and one cancellation and one restart occur at any point of
offsets, files and DLQ buffer. In `dlq_replay` the second run may repeat the first
over the same offsets, after messages of the first arrive late; one record needs a
correction, one is valid without, on one the replayer raises; lines give a new
`event_id`, an empty one, or none. In `maintenance` a cleanup that
died halfway is retried, and another kind of run follows it; the compaction has no
retry of its own, since nothing in it depends on when it was due and another run of it
does the same. All bounds
(`MaxRuns`, `MaxTime`, `MaxCopies`, `MaxByHand`, `WindowsTried`, `MaxFailovers`,
`MaxSubmissions`, `MaxDlq`, `MaxWrites`) only limit how often something happens;
deadlock checking is off because a behaviour stops there.

### What the violations show

1. **Midnight** (`silver_events_to_funnel.py:297`). Rows are dated by the first
   view, the 30 days run from the first cart. When the two lie on different days, a
   purchase on the last day is in the window but its candidate row is in a partition
   that is not read. `docs/decisions/002` promises equality with a full rebuild. This
   is the one reason for the condition `WithinDay` in `FunnelFreshUnlessOwed`.
2. **Lost dates** (`silver_events_to_funnel.py:389`). The dates that rows move away
   from are read before the MERGE and reported after it. If the attempt dies in
   between, the retry no longer knows them and Gold keeps the old partition, against
   `docs/decisions/004`. This is the one reason for `unreported` in `GoldSettlesRun`.
3. **Gold rebuild** (`silver_to_gold.py:330`). A full rebuild does not clear the
   partition of a date that came to have no rows, so it does not repair 2.
   `docs/conventions/development.md` asks for both.
4. **Order of windows** (`bronze_to_silver_events.py:164`). The MERGE compares
   columns, not which copy is later: an older window merged by hand brings back an
   earlier copy, against the rule in `docs/domain/data-contracts.md:20`.
5. **NULL date** (`bronze_to_silver_events.py:163`). Validation accepts `GMT`, Spark's
   format only `UTC`; the row gets a NULL date that the pruned MERGE never matches,
   and each overlapping window inserts the event again.

6. **Replay and retention** (`dlq_replayer.py:151`). The beginning offset is checked
   once, before the read. If retention passes `--from-offset` in between, the consumer
   resets to the end of the DLQ, the position check passes, and a report without
   errors speaks of no record, against the docstring (`dlq_replayer.py:121`). This is
   the one reason for the condition in `RangeIsCompleteUnlessExpired`.

Divergences noticed while modelling, without a run of their own:

* `dlq_replayer.py:368` calls `failed` a record that was not published at all; in the
  model, as in the code, it may be in its topic (`ReportTells` says `failed` or
  `replayed`).
* `docs/domain/data-contracts.md:88` promises an audit record of each replay; a run
  that raises or is killed after some sends leaves no report.
* `docs/operations/runbook.md:369` reports that the Flink job, resubmitted, resumed without
  a gap; files closed by a checkpoint but not finished when the job is cancelled are lost
  once their offsets are committed (`lost` in `RawZone`).
* `README.md:126` says earlier states can be read within the retention; snapshots
  expire by the time of their commit, so the state that was current at the cutoff goes
  although it was replaced only yesterday. `RemovesOnlyOlder` is by commit time.

## 6. Proofs

All for every finite set of events, any number of retries and runs, every file of
rows, every set of replays, every set of tables and ways to run maintenance. Constants
are restricted only by the named assumptions of the modules, and in
`WindowsAlwaysCoverBronze` by `MaxDelay <= Overlap`.

| Module | Theorems |
|---|---|
| `FunnelRulesProofs` | lemmas on the operators: rows are well-formed, a MERGE keeps one row per key, the pruned reads are wide enough |
| `IncrementalPipelineProofs` | `TypeCorrect`, `FunnelKeysStayUnique` |
| `LayersProofs` | `ImplementsLayers`, `FunnelStaysFresh`, `HistoryIsKept` |
| `RunProofs` | `MergedEventsAreCovered`, `GoldIsSettled`, `StaleGoldIsKnown`, `RepeatedMergeIsIdle` |
| `SilverEventsProofs` | `SilverTypes`, `DatedEventsStayUnique`, `RetriesSeeWhatTheyMerged`, `WindowsInOrderGoForward`, `WindowsAlwaysCoverBronze` |
| `IngestProofs` | `IngestTypes`, `SuccessIsDelivery`, `RecordsStayKept`, `RestartsAlwaysWriteOnce`, `IdsAlwaysTellEventsApart` |
| `DlqReplayProofs` | `RepublishedIsAccepted`, `ReplayTypes`, `SentIsAlwaysAccepted`, `SentAlwaysAsItsLineSays`, `RepeatsAlwaysSendTheSame`, `ReportsAlwaysTell`, `RangesAreCompleteUnlessExpired` |
| `MaintenanceProofs` | `MaintenanceTypes`, `SnapshotsStayWhole`, `FinishedTablesStayClean`, `OnlyOldIsRemoved`, `ImplementsVersions` |

The argument:

* **Pruning is wide enough.** `WindowIsCovered`: a time at most 30 days of seconds
  after another lies on one of the 31 dates from its date on. Hence
  `EvidenceSuffices`: the purchases read give a recomputed row the same later
  purchase as all purchases would, and `RecomputeIsFullRebuild`.
  `MergeReplacesKeys`: a MERGE whose dates cover the target rows of its keys
  replaces exactly those keys; `MergeDatesCover`: the old dates do cover them.
* **`IInv`** adds to the type invariant and key uniqueness that a plan about to be
  merged is what the tables, as they are, give (`PlanIsCurrent`). Without it the old
  dates could be out of date and the MERGE insert a key twice. It holds because
  nothing else writes between a job's reads and its MERGE.
* **Implementation.** With `IInv` the funnel MERGE is a `RefreshFunnel` step for the
  affected keys (`MergeFunnelReplaces`); all other steps are immediate or stutter.
* **Freshness, `FInv`.** `FunnelFreshUnlessOwed` is not inductive: it says nothing of
  a row while some purchase owes it, and propagation finds a row only by what is
  stored. `SessionsAreComplete` supplies it: unless an event of its own is owed, a
  key has a row made of its whole session, joined with whatever purchases. Such a
  row has the right date and anchor, so `PropagationFindsRow` applies; `WithinDay`
  makes its date that of its anchor.
* **A run, `RInv`.** `HandOff` follows the batch from Silver to the funnel task,
  `DirtyIsListed` says where each dirty partition is listed: in the merged events,
  in the plan's dates, or in the tables still ahead. `StaleGoldIsAccountedFor` is
  inductive by itself, as a partition depends on the rows of its date alone.
* **Repetition.** After a MERGE the affected keys of the same batch, found again in
  the changed table, all have their rebuilt row (`MergeLeavesNothing`), so a repeated
  MERGE matches only equal rows.
* **History.** Each row was built from a subset of the events now in Silver, and a
  count over a superset is no smaller.

* **Producer, `ProducerInv`.** Counts alone do not say which rows they count, so the
  invariant has sets of rows of those sizes (`CountsAreOf`): the confirmed ones are
  delivered, the failed ones are others, lost callbacks are in neither. If nothing
  failed and the sum equals the attempts, the confirmed rows are all of them.
* **Flink job, `FlinkInv`.** `RecordsAreKept` speaks of one restart position;
  `KeptInv` says the same of the committed offset too, as a checkpoint becomes one, and
  of the running source's position up to open files and buffer. `FilesInv` keeps
  closed files below the restart position and open ones above it, which is why
  finishing a file doubles nothing (`WrittenInv`).
* **Identity.** Validity of the price excludes the one field where an empty cell and
  its text differ; so Bronze has exactly the cells (`BronzeHasTheCells`).
* **Replay, `IInv`.** A message, under way or arrived, was `Sound` when sent, and stays
  so since DLQ and runs only grow; reports and present outcomes already speak of
  messages under way (`OutcomesTell`, `ReportsTell`), which is what makes late
  arrivals harmless. A corrections file that was loaded has one line at most for an
  offset (`OneLine`), so a message's correction is that line's, or none; and what is
  sent depends on the fields alone (`SameFieldsSameMessage`), since the `event_id` that
  came or was given is overwritten by the hash. `RangeSound` follows the range from the read to the report; the
  reset of a position is excluded exactly while retention has not passed its start.

* **Silver, `IInv` of `SilverEventsProofs`.** `Precedes` is a strict total order
  (`PrecedesIsTotal`), since no two records have the same partition and offset; so
  `Dedup` keeps exactly one copy of an event (`DedupKeepsOne`), and
  `MergeKeepsOneRow`: the partitions of a batch are those of the rows it matches, for
  an event's date never changes. Uniqueness is inductive with that; the rest is not.
  `BatchIsWindow` says that what dead attempts merged is still in the window, as the
  window does not move and Bronze only grows. `RowsAreBehind` puts every row before
  the end of some merged window: a batch of a window that ends no earlier finds a row
  either in its own window, where it has a copy no earlier, or before it.
* **No copy between windows, `RunCovers`.** A copy belongs to the last window that
  holds it (`LastWindowBounds`, on integer division): that one ends an overlap or more
  after its `ingest_ts`, and its run does not begin before it ends, when the file of
  the copy is finished. This is where `MaxDelay <= Overlap` is needed, the overlap of
  two hours against a checkpoint interval of 30 seconds by default
  (`raw_zone_consumer.py:84`); with a longer delay the theorem is false.
* **Maintenance, `IInv` of `MaintenanceProofs`.** What a step deletes was computed
  before, so that `SnapshotsAreWhole` needs to know what plans and writes in progress
  look like. `FilesFit` gives files numbers of their own and makes each a row or the
  deletion of one. `WriteFits` and `RewriteFits` say that files still to be committed
  are on storage, in no snapshot, and younger than `LongestWrite`; `DeletionFits` that
  what is left to delete is older than `older_than` and in no snapshot. As
  `older_than + LongestWrite <= now` (`CleanupInWork`), the two never meet
  (`DeletedIsUnused`). A commit takes only files of the current snapshot and its own,
  so no planned deletion comes back into use.
* **One live row.** `SnapshotsFit` has one live row in each snapshot. That a merge
  sets it (`MergeSetsTheRow`) and a rewrite keeps it (`LiveAfterRewrite`,
  `RewritesKeepTheRow`) rests on Iceberg's validation: a rewrite whose old files got
  new deletes is refused, a merge whose row was rewritten too.
* **Clean tables, `StepsLeft` and `Clean`.** For each step that is done, what it left
  behind: with the order of `STEP_ORDER`, no later step undoes it, even if the delete
  files alone are rewritten in full. Writes of the job
  only add young snapshots and files.
* **Versions.** All snapshots are whole, so every one is a readable version
  (`AllAreReadable`). A merge is then a `Commit` of a value that the table has not had
  (`MergeIsCommit`: rows of snapshots are below the number of the write), a rewrite a
  `Rewrite` (`RewriteIsRewrite`), an expiry a `Forget` (`ExpiryIsForget`: what goes is
  older than the retention of the run, which is no shorter than the shortest); all
  other steps stutter.

Only model-checked: liveness (`RunsEnd`, `RecordsArrive`, `ReplayEnds`), which is out
of the prover's reach. Every invariant, action property and refinement that a passing
run checks is a theorem. The six violations are counterexamples.

## 7. Not modelled, and the plan

Not modelled for good: health check, raw zone verification, DDL runner, Spark
session, dashboards and container configuration; none of them has behaviour over time
of its own. Of the modelled programs, logging, metrics, pauses, message keys and
columns that are only carried along are left out.

Hazards without a property, each with its reason in `PROJECT.json`: a time without
zero padding that makes Spark raise, a hang without `execution_timeout`, full mode with
date options, `min_by` ties (of the user and of the prices), an interval that no run reads, and expiry by commit time.

The order of what follows:

1. Full mode with date options, and an accepted event on which every attempt over its
   window fails.
2. Two MERGEs at once, by a Spark process that outlives its task and its retry.
3. The three DAGs over one pool slot, and that every interval's window is read or known
   to be missed.
4. That `SilverEvents` implements what `IncrementalPipeline` assumes of a batch, as a
   refinement in place of the one property `RetrySeesWhatItMerged`.
