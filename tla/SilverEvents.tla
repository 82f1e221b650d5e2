---------------------------- MODULE SilverEvents ----------------------------
(***************************************************************************)
(* How copies of events get from Bronze into silver_events: the windows    *)
(* that the runs of airflow/dags/ecommerce_incremental.py read, and the    *)
(* deduplication and date-pruned MERGE of                                  *)
(* code/pipelines/silver/bronze_to_silver_events.py.                       *)
(*                                                                         *)
(* A copy is one record of Kafka as Flink wrote it to Bronze.  An event    *)
(* has several when the producer or the DLQ replayer sent it again, and a  *)
(* record has several when Flink read it again.  ingest_ts is taken when   *)
(* Flink processes the record; readers see the copy only when the          *)
(* checkpoint that finishes its part file completes.                       *)
(***************************************************************************)
EXTENDS Integers, FiniteSets, Bags

CONSTANTS
  Id,         \* event_id values
  EventDate,  \* what transform makes of each event's time, NULL if it does not parse
  NULL,       \* SQL NULL
  Record,     \* the Kafka records of valid events: [id, partition, offset]
  Interval,   \* length of a data interval, a day in the code
  Overlap,    \* how far a window reaches back before its interval, 2 hours
  MaxDelay,   \* longest time from ingest_ts to a finished part file
  Retries,    \* retries of a task, 2 in default_args
  MaxTime,    \* bound: last value of the clock
  MaxCopies,  \* bound: copies ever written to Bronze
  WindowsTried, \* bound: windows chosen by hand
  MaxByHand     \* bound: runs triggered by hand

ASSUME IdAssumption == IsFiniteSet(Id) /\ DOMAIN EventDate = Id
ASSUME RecordAssumption ==
  \A r \in Record : r.id \in Id /\ r.partition \in Nat /\ r.offset \in Nat
ASSUME OffsetsAreUnique ==
  \A r, s \in Record : r.partition = s.partition /\ r.offset = s.offset => r = s
ASSUME TimeAssumption ==
  /\ Interval \in Nat \ {0}
  /\ Overlap \in 0 .. Interval
  /\ MaxDelay \in Nat
  /\ Retries \in Nat
  /\ MaxTime \in Nat /\ MaxCopies \in Nat /\ MaxByHand \in Nat
ASSUME WindowsAssumption ==
  /\ WindowsTried \subseteq [from : Int, to : Int]
  /\ \A w \in WindowsTried : w.from < w.to

VARIABLES
  clock,
  unfinished,  \* copies in part files that no checkpoint has finished
  bronze,      \* copies that readers of Bronze see
  silver,      \* silver_events: a bag, for how often it has the row of a copy
  step,        \* how far the attempt has come, "idle" between runs
  window,      \* --from-datetime and --to-datetime of the run
  interval,    \* number of the run's data interval, 0 for a run by hand
  latest,      \* the last interval the scheduler started a run for
  failures,    \* attempts of this run that failed
  batch,       \* the copies this attempt read, deduplicated
  byHand       \* runs triggered by hand so far

(***************************************************************************)
(* History.  No action reads it.                                           *)
(***************************************************************************)
VARIABLES
  covered,     \* intervals whose run succeeded
  reach,       \* the latest end of a window merged so far
  handed       \* events that attempts of this run merged

flink == <<unfinished, bronze>>
run == <<step, window, interval, latest, failures, batch, byHand>>
history == <<covered, reach, handed>>
vars == <<clock, flink, silver, run, history>>

Time == 0 .. MaxTime
Copy == [record : Record, ingest : Time]
IdOf(c) == c.record.id
IdsOf(C) == {IdOf(c) : c \in C}

Init ==
  /\ clock = 0
  /\ unfinished = {}
  /\ bronze = {}
  /\ silver = EmptyBag
  /\ step = "idle"
  /\ window = [from |-> 0, to |-> 0]
  /\ interval = 0
  /\ latest = 0
  /\ failures = 0
  /\ batch = {}
  /\ byHand = 0
  /\ covered = {}
  /\ reach = 0
  /\ handed = {}

----------------------------------------------------------------------------
(* Time and Flink *)

\* Time passes; every part file is finished MaxDelay after its records came.
Tick ==
  /\ clock < MaxTime
  /\ \A c \in unfinished : clock < c.ingest + MaxDelay
  /\ clock' = clock + 1
  /\ UNCHANGED <<flink, silver, run, history>>

\* Flink reads a record, for the first time or again after it went back to the
\* consumer group's offsets.
Ingest ==
  /\ Cardinality(unfinished \cup bronze) < MaxCopies
  /\ \E r \in Record :
       LET c == [record |-> r, ingest |-> clock]
       IN  c \notin bronze /\ unfinished' = unfinished \cup {c}
  /\ UNCHANGED <<clock, bronze, silver, run, history>>

\* A checkpoint finishes part files.
FinishFiles ==
  /\ \E C \in (SUBSET unfinished) \ {{}} :
       /\ bronze' = bronze \cup C
       /\ unfinished' = unfinished \ C
  /\ UNCHANGED <<clock, silver, run, history>>

----------------------------------------------------------------------------
(* Starting a run: max_active_runs=1, catchup=False *)

\* Mutation of ScheduledWindow: the data interval alone.
WindowOfInterval(k) == [from |-> (k - 1) * Interval, to |-> k * Interval]

\* The window of interval k, from data_interval_start less the overlap.
ScheduledWindow(k) == [from |-> (k - 1) * Interval - Overlap, to |-> k * Interval]

Begin(w, k) ==
  /\ step = "idle"
  /\ step' = "start"
  /\ window' = w
  /\ interval' = k
  /\ failures' = 0
  /\ handed' = {}

\* The scheduler starts the run of the latest complete interval, and none it has missed.
StartScheduled ==
  LET k == clock \div Interval
  IN  /\ k > latest
      /\ Begin(ScheduledWindow(k), k)
      /\ latest' = k
      /\ UNCHANGED <<clock, flink, silver, batch, byHand, covered, reach>>

\* Triggered by hand with a window, or without: then the overlap before now is read.
WindowsByHand == WindowsTried \cup {[from |-> clock - Overlap, to |-> clock]}

StartByHand ==
  /\ byHand < MaxByHand
  /\ byHand' = byHand + 1
  /\ \E w \in WindowsByHand : Begin(w, 0)
  /\ UNCHANGED <<clock, flink, silver, latest, batch, covered, reach>>

----------------------------------------------------------------------------
(* An attempt of task silver_events *)

InWindow(c, w) == w.from <= c.ingest /\ c.ingest < w.to

\* ORDER BY ingest_ts DESC, kafka_partition, kafka_offset DESC: c comes before d.
Precedes(c, d) ==
  \/ c.ingest > d.ingest
  \/ c.ingest = d.ingest /\ c.record.partition < d.record.partition
  \/ /\ c.ingest = d.ingest
     /\ c.record.partition = d.record.partition
     /\ c.record.offset > d.record.offset

\* Mutation of Dedup: the first copy instead of the last.
DedupFirst(C) ==
  {c \in C : \A d \in C \ {c} : IdOf(d) = IdOf(c) => c.ingest < d.ingest \/ Precedes(c, d)}

\* row_number() = 1 in each event_id.
Dedup(C) == {c \in C : \A d \in C \ {c} : IdOf(d) = IdOf(c) => Precedes(c, d)}

\* Mutations of Read: files are listed before they are finished; a retry reads up to its own time.
ReadUnfinished(w) == {c \in unfinished \cup bronze : InWindow(c, w)}
ReadUntilNow(w) == {c \in bronze : InWindow(c, [from |-> clock - Overlap, to |-> clock])}

Read(w) == {c \in bronze : InWindow(c, w)}

ReadWindow ==
  /\ step = "start"
  /\ batch' = Dedup(Read(window))
  /\ step' = "read"
  /\ UNCHANGED <<clock, flink, silver, window, interval, latest, failures,
                 byHand, history>>

\* Mutation of BatchDates: the days the copies were ingested on.
IngestDates(B) == {c.ingest \div Interval : c \in B}

\* collect_set(event_date), which skips NULL.
BatchDates(B) == {EventDate[IdOf(c)] : c \in B} \ {NULL}

\* ON t.event_id = s.event_id AND t.event_date IN D
Matched(T, c, D) ==
  {t \in BagToSet(T) : IdOf(t) = IdOf(c) /\ EventDate[IdOf(t)] \in D}

\* Matched rows are updated if a column changed, the others of the batch inserted.  Were
\* two rows of one event matched, both would be updated; here they become one.  There
\* never are two, as only events without a date have several, and those never match.
Merge(T, B, D) ==
  LET replaced == UNION {Matched(T, c, D) : c \in B}
      kept     == [t \in BagToSet(T) \ replaced |-> T[t]]
  IN  kept (+) SetToBag(B)

\* A batch without dates is not merged at all, though it may hold events.
MergeBatch ==
  /\ step = "read"
  /\ IF BatchDates(batch) = {}
     THEN UNCHANGED <<silver, reach, handed>>
     ELSE /\ silver' = Merge(silver, batch, BatchDates(batch))
          /\ reach' = IF window.to > reach THEN window.to ELSE reach
          /\ handed' = handed \cup IdsOf(batch)
  /\ step' = "merged"
  /\ UNCHANGED <<clock, flink, window, interval, latest, failures, batch, byHand, covered>>

EndRun ==
  /\ step' = "idle"
  /\ batch' = {}
  /\ handed' = {}
  /\ UNCHANGED <<clock, flink, silver, window, interval, latest, failures, byHand,
                 reach>>

\* The batch is written and reported; what follows in the run does not read Bronze.
Succeed ==
  /\ step = "merged"
  /\ covered' = covered \cup ({interval} \ {0})
  /\ EndRun

\* An attempt dies wherever it is; the retry gets the same window.
FailAttempt ==
  /\ step # "idle"
  /\ failures < Retries
  /\ failures' = failures + 1
  /\ step' = "start"
  /\ batch' = {}
  /\ UNCHANGED <<clock, flink, silver, window, interval, latest, byHand, history>>

FailRun ==
  /\ step # "idle"
  /\ failures = Retries
  /\ covered' = covered
  /\ EndRun

RunStep == ReadWindow \/ MergeBatch \/ Succeed \/ FailAttempt \/ FailRun

Next ==
  \/ Tick \/ Ingest \/ FinishFiles
  \/ StartScheduled \/ StartByHand
  \/ RunStep

\* Every attempt ends; time need not pass, and nothing has to arrive or be started.
Fairness == WF_vars(RunStep)

Spec == Init /\ [][Next]_vars /\ Fairness

----------------------------------------------------------------------------
(* Properties *)

TypeOK ==
  /\ clock \in Time
  /\ unfinished \subseteq Copy
  /\ bronze \subseteq Copy
  /\ BagToSet(silver) \subseteq Copy /\ IsABag(silver)
  /\ step \in {"idle", "start", "read", "merged"}
  /\ window \in [from : Int, to : Int]
  /\ interval \in Nat /\ latest \in Nat /\ byHand \in 0 .. MaxByHand
  /\ failures \in 0 .. Retries
  /\ batch \subseteq bronze
  /\ covered \subseteq Nat
  /\ reach \in Int
  /\ handed \subseteq Id

Dated(i) == EventDate[i] # NULL

\* The rows that silver_events has for event i, the equal ones numbered.
RowsOf(i) ==
  UNION {{t} \X (1 .. silver[t]) : t \in {u \in BagToSet(silver) : IdOf(u) = i}}

\* An event whose time parses has one row, in whatever windows its copies are read and
\* read again, although the MERGE only looks in the partitions of the batch.
DatedEventsAreUnique == \A i \in Id : Dated(i) => Cardinality(RowsOf(i)) <= 1

\* code/ddl/01_silver_events.sql: event_id is the logical primary key.
EventIdIsKey == \A i \in Id : Cardinality(RowsOf(i)) <= 1

\* The last scheduled window that holds a copy: later ones start after its ingest_ts.
LastWindow(c) == (c.ingest + Overlap) \div Interval + 1

\* No copy slips between two windows: once the run of the last window that holds it has
\* succeeded, its event is in Silver, also if its file was finished after the day's end.
WindowsCoverBronze ==
  \A c \in unfinished \cup bronze :
    LastWindow(c) \in covered /\ Dated(IdOf(c)) => RowsOf(IdOf(c)) # {}

\* What attempts of a run merged, its next attempt reads again: it can hand on all that
\* the run changed.  IncrementalPipeline relies on it in MergeSilver.
RetrySeesWhatItMerged == step \in {"read", "merged"} => handed \subseteq IdsOf(batch)

\* The copy that a MERGE leaves a row with never comes before the one it had, as long
\* as windows are merged in the order of their ends.
InOrderMergesGoForward ==
  [][step = "read" /\ step' = "merged" /\ window.to >= reach =>
       \A t \in BagToSet(silver), u \in BagToSet(silver') :
         IdOf(t) = IdOf(u) /\ Dated(IdOf(t)) => ~Precedes(t, u)]_silver

\* docs/domain/data-contracts.md: of the copies of an event the latest is kept.
MergesGoForward ==
  [][\A t \in BagToSet(silver), u \in BagToSet(silver') :
       IdOf(t) = IdOf(u) => ~Precedes(t, u)]_silver

=============================================================================
