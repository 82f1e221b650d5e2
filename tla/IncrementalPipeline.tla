------------------------ MODULE IncrementalPipeline ------------------------
(***************************************************************************)
(* One run of the DAG airflow/dags/ecommerce_incremental.py after another, *)
(* and the three Spark jobs its tasks start, over the tables they share:   *)
(*                                                                         *)
(*   silver_events  merges a window of Bronze into Silver, then writes the *)
(*                  batch it merged to S3 and hands the path on;           *)
(*   silver_funnel  recomputes the funnel rows that batch affects;         *)
(*   gold           re-aggregates the dates both report, table by table;   *)
(*   health_check   only reads.                                            *)
(*                                                                         *)
(* max_active_runs=1 and the one slot of spark_pool make the tasks of all  *)
(* runs sequential; what interleaves with them is failure.  An attempt may *)
(* die before or after anything it commits, the task is then retried from  *)
(* its start, and a task that is out of retries fails its run.  Between    *)
(* runs an operator may start the jobs' full mode by hand.                 *)
(***************************************************************************)
EXTENDS GoldRules

CONSTANTS
  Retries,    \* retries of a task, 2 in default_args
  MaxRuns     \* bound: DAG runs and jobs started by hand in a behaviour

ASSUME RetriesAssumption == Retries \in Nat
ASSUME MaxRunsAssumption == MaxRuns \in Nat

VARIABLES
  silver,       \* silver_events: the set of event ids merged so far
  funnel,       \* silver_funnel: its rows
  gold,         \* the Gold tables: table -> date -> partition
  task,         \* the running task of the DAG run, "none" between runs
  step,         \* how far the attempt has come
  position,     \* the entry of BUILDERS a gold attempt is at
  failures,     \* attempts of this task that failed
  batch,        \* the deduplicated batch of the last silver_events attempt
  batchFile,    \* the Parquet that attempt's path holds
  eventDates,   \* XCom of silver_events
  plan,         \* what the funnel attempt computed and is about to merge
  funnelDates,  \* XCom of silver_funnel
  runs

(***************************************************************************)
(* History: what the layers owe each other.  No action reads it.           *)
(***************************************************************************)
VARIABLES
  merged,      \* events that attempts of this run merged into Silver
  owedEvents,  \* events merged into Silver that no funnel MERGE has covered
  dirty,       \* Gold partitions whose source this run changed
  lost,        \* those an earlier run or a job by hand left behind
  unreported   \* a funnel attempt of this run died between MERGE and report

layers == <<silver, funnel, gold>>
control == <<task, step, position, failures>>
handoff == <<batch, batchFile, eventDates, plan, funnelDates>>
history == <<merged, owedEvents, dirty, lost, unreported>>
vars == <<layers, control, handoff, runs, history>>

Task == {"silver_events", "silver_funnel", "gold", "health_check"}
NoPlan == [rows |-> {}, dates |-> {}]

\* Gold partitions that events, or funnel rows, of the dates D feed.
EventCells(D) == {t \in GoldTable : ReadsEvents(t)} \X D
FunnelCells(D) == {t \in GoldTable : ReadsFunnels(t)} \X D

----------------------------------------------------------------------------
Init ==
  /\ silver = {}
  /\ funnel = {}
  /\ gold = [t \in GoldTable |-> [d \in Date |-> Absent]]
  /\ task = "none"
  /\ step = "start"
  /\ position = 1
  /\ failures = 0
  /\ batch = {}
  /\ batchFile = {}
  /\ eventDates = {}
  /\ plan = NoPlan
  /\ funnelDates = {}
  /\ runs = 0
  /\ merged = {}
  /\ owedEvents = {}
  /\ dirty = {}
  /\ lost = {}
  /\ unreported = FALSE

Begin(t) == task' = t /\ step' = "start" /\ position' = 1 /\ failures' = 0

\* The scheduler, or an operator, starts a DAG run when none is active.
StartRun ==
  /\ task = "none"
  /\ runs < MaxRuns
  /\ Begin("silver_events")
  /\ runs' = runs + 1
  /\ UNCHANGED <<layers, handoff, history>>

----------------------------------------------------------------------------
(* Task silver_events: bronze_to_silver_events.py *)

\* Events B enter Silver; the ones it did not hold change what is derived from it.
EnterSilver(B) ==
  LET new == B \ silver
  IN  /\ silver' = silver \cup B
      /\ owedEvents' = owedEvents \cup new
      /\ dirty' = dirty \cup EventCells(EventDates(new))

\* Mutation of Batch: hand on only what is new to Silver.
NewToSilver(B) == B \ silver

\* Deduplication keeps one copy of every event_id it read, new to Silver or not.
Batch(B) == B

\* Read the window, deduplicate, MERGE.  Windows overlap and may be chosen by hand,
\* so the batch can hold any events.  Bronze only grows and a retry reads the same
\* window, so it sees again what an earlier attempt of the run merged.
MergeSilver ==
  /\ task = "silver_events"
  /\ step = "start"
  /\ \E B \in SUBSET Event :
       /\ merged \subseteq B
       /\ batch' = Batch(B)
       /\ EnterSilver(B)
       /\ merged' = B
  /\ batchFile' = {}
  /\ step' = "merged"
  /\ UNCHANGED <<funnel, gold, task, position, failures, eventDates, plan,
                 funnelDates, runs, lost, unreported>>

\* Each attempt writes to a path of its own, and nothing if the batch is empty.
WriteBatchOutput ==
  /\ task = "silver_events"
  /\ step = "merged"
  /\ batchFile' = batch
  /\ step' = "written"
  /\ UNCHANGED <<layers, task, position, failures, batch, eventDates, plan, funnelDates,
                 runs, history>>

\* The last line of output becomes the XCom: path, event count, event dates.
ReportSilver ==
  /\ task = "silver_events"
  /\ step = "written"
  /\ eventDates' = EventDates(batch)
  /\ Begin("silver_funnel")
  /\ UNCHANGED <<layers, batch, batchFile, plan, funnelDates, runs, history>>

----------------------------------------------------------------------------
(* Task silver_funnel: silver_events_to_funnel.py --mode incremental *)

\* EVENT_COUNT = 0: the task only echoes an empty result.
SkipFunnel ==
  /\ task = "silver_funnel"
  /\ step = "start"
  /\ batch = {}
  /\ funnelDates' = {}
  /\ Begin("gold")
  /\ UNCHANGED <<layers, batch, batchFile, eventDates, plan, runs, history>>

\* Mutation of PlanFor: rows from the batch instead of the keys' whole history.
PlanFromBatch(S, T, B) ==
  LET K == AffectedKeys(T, B)
      R == Recompute(B, K)
  IN  [rows |-> R, dates |-> MergeDates(T, K, R)]

\* What run_incremental computes before its MERGE, from the tables as they are.
PlanFor(S, T, B) ==
  LET K == AffectedKeys(T, B)
      R == Recompute(S, K)
  IN  [rows |-> R, dates |-> MergeDates(T, K, R)]

PlanFunnel ==
  /\ task = "silver_funnel"
  /\ step = "start"
  /\ batch # {}
  /\ ~TooManyDates(silver, funnel, batchFile)
  /\ plan' = PlanFor(silver, funnel, batchFile)
  /\ step' = "planned"
  /\ UNCHANGED <<layers, task, position, failures, batch, batchFile, eventDates,
                 funnelDates, runs, history>>

\* The MERGE is one Iceberg commit.
MergeFunnel ==
  /\ task = "silver_funnel"
  /\ step = "planned"
  /\ funnel' = Merge(funnel, plan.rows, plan.dates)
  /\ step' = "merged"
  /\ owedEvents' = owedEvents \ batchFile
  /\ dirty' = dirty \cup FunnelCells(RowDates((funnel \ funnel') \cup (funnel' \ funnel)))
  /\ UNCHANGED <<silver, gold, task, position, failures, batch, batchFile, eventDates, plan,
                 funnelDates, runs, merged, lost, unreported>>

ReportFunnel ==
  /\ task = "silver_funnel"
  /\ step = "merged"
  /\ funnelDates' = plan.dates
  /\ plan' = NoPlan
  /\ Begin("gold")
  /\ UNCHANGED <<layers, batch, batchFile, eventDates, runs, history>>

----------------------------------------------------------------------------
(* Task gold: silver_to_gold.py --event-dates ... --funnel-dates ... *)

\* Mutation of Overwrite: overwritePartitions(), which keeps partitions without new rows.
OverwriteNonEmpty(t, D) ==
  gold' = [gold EXCEPT ![t] =
    [d \in Date |-> IF d \in D /\ Contents(t, silver, funnel, d) # Absent
                    THEN Contents(t, silver, funnel, d)
                    ELSE gold[t][d]]]

\* Replace the partitions of the dates D of table t, also by nothing.
Overwrite(t, D) ==
  gold' = [gold EXCEPT ![t] = [d \in Date |-> IF d \in D
                                              THEN Contents(t, silver, funnel, d)
                                              ELSE gold[t][d]]]

\* The table the attempt is at, and the dates it is given for it.
Current == BUILDERS[position]
CurrentDates == SelectedDates(Current, eventDates, funnelDates)

AtTable == task = "gold" /\ position <= Len(BUILDERS)

OverwriteGold ==
  /\ AtTable
  /\ CurrentDates # {}
  /\ Overwrite(Current, CurrentDates)
  /\ dirty' = dirty \ ({Current} \X CurrentDates)
  /\ lost' = lost \ ({Current} \X CurrentDates)
  /\ position' = position + 1
  /\ UNCHANGED <<silver, funnel, task, step, failures, handoff, runs, merged, owedEvents,
                 unreported>>

\* A table without dates is skipped; without any dates the DAG skips the whole job.
SkipGoldTable ==
  /\ AtTable
  /\ CurrentDates = {}
  /\ position' = position + 1
  /\ UNCHANGED <<layers, task, step, failures, handoff, runs, history>>

FinishGold ==
  /\ task = "gold"
  /\ position > Len(BUILDERS)
  /\ Begin("health_check")
  /\ UNCHANGED <<layers, handoff, runs, history>>

----------------------------------------------------------------------------
(* How attempts and runs end *)

\* The next run has its own XComs and paths.
EndRun ==
  /\ Begin("none")
  /\ batch' = {}
  /\ batchFile' = {}
  /\ eventDates' = {}
  /\ plan' = NoPlan
  /\ funnelDates' = {}
  /\ merged' = {}
  /\ lost' = lost \cup dirty
  /\ dirty' = {}
  /\ unreported' = FALSE
  /\ UNCHANGED <<layers, runs, owedEvents>>

\* health_check collects its queries; the run has succeeded.
FinishRun ==
  /\ task = "health_check"
  /\ EndRun

\* Mutation of RetriesLeft: one try too many, after which nothing ends the task.
RetriesLeftAtLimit == failures <= Retries

RetriesLeft == failures < Retries

\* An attempt dies wherever it is.  The retry starts the task's command again.
FailAttempt ==
  /\ task # "none"
  /\ RetriesLeft
  /\ failures' = failures + 1
  /\ step' = "start"
  /\ position' = 1
  /\ plan' = NoPlan
  /\ unreported' = (unreported \/ (task = "silver_funnel" /\ step = "merged"))
  /\ UNCHANGED <<layers, task, batch, batchFile, eventDates, funnelDates, runs,
                 merged, owedEvents, dirty, lost>>

\* Without retries left the task fails, and with it the run: nothing downstream starts.
FailRun ==
  /\ task # "none"
  /\ failures = Retries
  /\ EndRun

----------------------------------------------------------------------------
(* Full modes, started by hand between runs *)

\* Assumed of the operator: nothing in the code keeps such a job from running next to a
\* DAG run.
ByHand ==
  /\ task = "none"
  /\ runs < MaxRuns
  /\ runs' = runs + 1

\* bronze_to_silver_events.py without a window: all of Bronze, hence all of Silver.
RebuildSilver ==
  /\ ByHand
  /\ \E B \in SUBSET Event :
       /\ silver \subseteq B
       /\ silver' = B
       /\ owedEvents' = owedEvents \cup (B \ silver)
       /\ lost' = lost \cup EventCells(EventDates(B \ silver))
  /\ UNCHANGED <<funnel, gold, control, handoff, merged, dirty, unreported>>

\* silver_events_to_funnel.py --mode full, for all dates.
RebuildFunnel ==
  /\ ByHand
  /\ funnel' = Merge(funnel, FullRebuild(silver), {})
  /\ owedEvents' = {}
  /\ lost' = lost \cup FunnelCells(RowDates((funnel \ funnel') \cup (funnel' \ funnel)))
  /\ UNCHANGED <<silver, gold, control, handoff, merged, dirty, unreported>>

\* silver_to_gold.py without dates: overwritePartitions() replaces the partitions
\* the result has rows for.
RebuildGold ==
  /\ ByHand
  /\ \E t \in GoldTable :
       LET D == {d \in Date : Contents(t, silver, funnel, d) # Absent}
       IN  Overwrite(t, D) /\ lost' = lost \ ({t} \X D)
  /\ UNCHANGED <<silver, funnel, control, handoff, merged, owedEvents, dirty, unreported>>

----------------------------------------------------------------------------
SilverTask == MergeSilver \/ WriteBatchOutput \/ ReportSilver
FunnelTask == SkipFunnel \/ PlanFunnel \/ MergeFunnel \/ ReportFunnel
GoldTask == OverwriteGold \/ SkipGoldTable \/ FinishGold
RunStep ==
  SilverTask \/ FunnelTask \/ GoldTask \/ FinishRun \/ FailAttempt \/ FailRun
Operator == RebuildSilver \/ RebuildFunnel \/ RebuildGold

Next == StartRun \/ RunStep \/ Operator

\* Every attempt ends, one way or the other: the jobs are batch jobs, and Airflow
\* marks the task of a lost worker failed.  Nobody has to start anything.
Fairness == WF_vars(RunStep)

Spec == Init /\ [][Next]_vars /\ Fairness

----------------------------------------------------------------------------
(* Properties *)

\* The tables and the hand-off hold what their readers expect: event ids, funnel rows
\* dated like some event, partitions of known dates.
TypeOK ==
  /\ silver \subseteq Event
  /\ funnel \subseteq FunnelRowType
  /\ gold \in [GoldTable -> [Date -> [events : SUBSET Event, rows : SUBSET FunnelRowType]]]
  /\ task \in Task \cup {"none"}
  /\ step \in {"start", "merged", "written", "planned"}
  /\ position \in 1 .. (Len(BUILDERS) + 1)
  /\ failures \in 0 .. Retries
  /\ batch \subseteq Event
  /\ batchFile \subseteq Event
  /\ eventDates \subseteq Date
  /\ plan \in [rows : SUBSET FunnelRowType, dates : SUBSET Date]
  /\ funnelDates \subseteq Date
  /\ runs \in 0 .. MaxRuns
  /\ merged \subseteq Event
  /\ owedEvents \subseteq Event
  /\ dirty \subseteq GoldTable \X Date
  /\ lost \subseteq GoldTable \X Date
  /\ unreported \in BOOLEAN

\* silver_funnel holds one row per (user_session, product_id), its documented grain,
\* although the MERGE only looks for the key in the partitions it was given.
UniqueFunnelKeys ==
  \A f, g \in funnel : KeyOf(f) = KeyOf(g) => f = g

\* Views and carts of key k, which date its row and anchor its window, share a day.
WithinDay(k) ==
  \A e, f \in OfKey(silver, k) :
    e.type # "purchase" /\ f.type # "purchase" => DateOf(e.at) = DateOf(f.at)

\* An event that no funnel MERGE has covered yet bears on the row of key k.
Owes(k) ==
  \E e \in owedEvents :
    \/ KeyOf(e) = k
    \/ e.type = "purchase" /\ FollowsInWindow(SessionFunnel(silver, k), e)

Fresh(k) == FunnelRow(silver, k) \in funnel

\* Recomputing only the affected keys gives every key the row a full rebuild would
\* give it, except while an event that bears on it awaits its funnel MERGE.  Stated
\* for keys whose views and carts share a day: see IncrementalEqualsRebuild.
FunnelFreshUnlessOwed ==
  \A k \in KeysOf(silver) : WithinDay(k) /\ ~Owes(k) => Fresh(k)

\* docs/decisions/002: full rebuild and incremental result are the same.
IncrementalEqualsRebuild ==
  owedEvents = {} => \A k \in KeysOf(silver) : Fresh(k)

\* A run that gets past silver_funnel has covered every event that any of its attempts
\* merged into Silver.  A retry after a crash between MERGE and output finds nothing
\* new in Silver, and still has to hand on what the dead attempt merged.
NothingMergedIsForgotten ==
  task \in {"gold", "health_check"} => merged \cap owedEvents = {}

StaleCells ==
  {c \in GoldTable \X Date : gold[c[1]][c[2]] # Contents(c[1], silver, funnel, c[2])}

\* A Gold partition that differs from its re-aggregation was touched by the current
\* run, or by an earlier one that failed, or by a job by hand.
StaleGoldIsAccountedFor == StaleCells \subseteq dirty \cup lost

\* A run that gets past gold leaves none of the partitions it touched stale, unless
\* a funnel attempt died between its MERGE and its report.
GoldSettlesRun ==
  task = "health_check" /\ ~unreported => dirty = {}

\* docs/decisions/004: repeating the same input converges; whatever attempts died,
\* a run that gets past gold has refreshed every partition it touched.
RetriedRunConverges ==
  task = "health_check" => dirty \cap StaleCells = {}

\* docs/conventions/development.md: a Gold date that came to have no rows loses the
\* ones it had, and full and incremental Gold agree; after a full rebuild of a table
\* all its partitions are up to date.
FullRebuildRefreshesTable ==
  [][task = "none" => \E t \in GoldTable : \A d \in Date :
       gold'[t][d] = Contents(t, silver, funnel, d)]_gold

\* A funnel row is rebuilt from its whole history: it stays, and its counts never go
\* down, however late and in whatever order the events of its session arrive.
RowsKeepTheirHistory ==
  [][\A f \in funnel : \E g \in funnel' :
       /\ KeyOf(g) = KeyOf(f)
       /\ g.views >= f.views
       /\ g.carts >= f.carts
       /\ g.purchases >= f.purchases]_funnel

\* docs/failures/003: a MERGE repeated over the same input rewrites no row.
RetriedMergeWritesNothing ==
  [][step = "planned" /\ step' = "merged" /\ unreported =>
       Written(funnel, plan.rows, plan.dates) = {}]_vars

\* Every write of the jobs, in whatever mode and at whichever attempt, is one of the
\* writes DerivedLayers allows.
Promised == INSTANCE DerivedLayers
ImplementsDerivedLayers == Promised!Spec

\* Every run ends.
RunsEnd == task # "none" ~> task = "none"

=============================================================================
