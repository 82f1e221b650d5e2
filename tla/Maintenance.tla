------------------------------ MODULE Maintenance ------------------------------
(***************************************************************************)
(* code/pipelines/operations/iceberg_maintenance.py and the DAGs           *)
(* iceberg_compaction and iceberg_cleanup, while a job merges into the     *)
(* same tables: docker exec lets it outlive the task that held the slot of *)
(* spark_pool, so that nothing but Iceberg keeps the two apart.            *)
(*                                                                         *)
(* A table is a history of snapshots, a snapshot a set of files.  Tables   *)
(* have one key: a data file is one row of it, a delete file deletes the   *)
(* row of one data file.  A step fails before or after what it does to the *)
(* table; a process dies anywhere.                                         *)
(***************************************************************************)
EXTENDS Integers, Sequences, FiniteSets, SequencesExt

CONSTANTS
  NULL,
  Table,        \* TABLES
  MOR_TABLES,
  Invocations,  \* the arguments maintenance is run with, and how often it is retried
  LongestWrite, \* how long files of a commit are on storage before it at most
  MaxTime, MaxRuns, MaxWrites  \* bounds: the clock, runs and writes of jobs

VARIABLES
  now,
  storage,    \* the files of each table that exist
  snapshots,  \* of each table, in the order of their commits; the last is current
  files,      \* files written so far; it numbers them
  write,      \* what the job is writing, or NULL
  writes,     \* writes the job has begun
  run,        \* the arguments of the run and the time it was due, or NULL
  attempts,   \* attempts it has begun
  older_than, \* what the attempt deletes is older
  todo,       \* tables the attempt has not finished, the first one in work
  steps,      \* steps that table still needs; one that has begun, too
  plan,       \* what the step in work has written or is to delete, or NULL
  failed,     \* failed_tables
  exit,       \* how the attempt ended; "running" while it does not
  runs        \* runs begun

table == <<storage, snapshots, files>>
job == <<write, writes>>
attempt == <<attempts, older_than, todo, steps, plan, failed, exit>>
vars == <<now, table, job, run, attempt, runs>>

\* Mutation of STEP_ORDER: delete files are looked at first.
DeletesFirst ==
  <<"rewrite_position_delete_files", "rewrite_data_files", "rewrite_manifests",
    "expire_snapshots", "remove_orphan_files">>

STEP_ORDER ==
  <<"rewrite_data_files", "rewrite_position_delete_files", "rewrite_manifests",
    "expire_snapshots", "remove_orphan_files">>
CLEANUP_STEPS == {"expire_snapshots", "remove_orphan_files"}
REWRITE_FILES == {"rewrite_data_files", "rewrite_position_delete_files"}
MOR_ONLY_STEPS == {"rewrite_position_delete_files"}

\* all: the rewrites whose options have every file rewritten, in place of the files that
\* the defaults choose.  The weekly compaction gives no options by default.
Invocation ==
  [tables : Seq(Table), steps : SUBSET ToSet(STEP_ORDER), retention : Nat \cup {NULL},
   all : SUBSET REWRITE_FILES, retries : Nat]

\* parse_args: --retention-days comes with a step that deletes, and only then; options
\* with the step they are for.
ASSUME MaintenanceAssumption ==
  /\ NULL \notin Nat
  /\ MOR_TABLES \subseteq Table
  /\ Invocations \subseteq Invocation
  /\ \A a \in Invocations :
       /\ a.retention # NULL <=> a.steps \cap CLEANUP_STEPS # {}
       /\ a.retention # NULL => a.retention >= 1
       /\ a.all \subseteq a.steps
  /\ LongestWrite \in Nat /\ MaxTime \in Nat /\ MaxRuns \in Nat /\ MaxWrites \in Nat
  \* A write takes less than the retention, which is a day at least.
  /\ \A a \in Invocations : a.retention # NULL => LongestWrite <= a.retention

Data(id, row, of) == [id |-> id, created |-> of, row |-> row, deletes |-> NULL]
Delete(id, target, of) == [id |-> id, created |-> of, row |-> NULL, deletes |-> target]

IsData(f) == f.row # NULL
Snapshot(fs) == [time |-> now, files |-> fs]
LastOf(t) == Last(snapshots[t])
LiveIn(fs) == {f \in fs : IsData(f) /\ \A d \in fs : d.deletes # f.id}
RowsIn(fs) == {f.row : f \in LiveIn(fs)}

\* Delete files whose data file the snapshot does not have.
Dangling(fs) ==
  {d \in fs : ~IsData(d) /\ \A f \in fs : IsData(f) => d.deletes # f.id}

Referenced(t) == UNION {snapshots[t][i].files : i \in DOMAIN snapshots[t]}

Init ==
  /\ now = 0
  /\ storage = [t \in Table |-> {Data(0, 0, 0)}]
  /\ snapshots = [t \in Table |-> <<Snapshot({Data(0, 0, 0)})>>]
  /\ files = 0
  /\ write = NULL /\ writes = 0
  /\ run = NULL
  /\ attempts = 0 /\ older_than = 0
  /\ todo = <<>> /\ steps = {}
  /\ plan = NULL
  /\ failed = {}
  /\ exit = "none"
  /\ runs = 0

AddFiles(t, fs) == storage' = [storage EXCEPT ![t] = @ \cup fs]
Commit(t, fs) == snapshots' = [snapshots EXCEPT ![t] = Append(@, Snapshot(fs))]

----------------------------------------------------------------------------
(* The clock and the job *)

Pending == {f.created : f \in (IF write = NULL THEN {} ELSE write.adds)
                          \cup (IF plan = NULL THEN {} ELSE plan.adds)}

Tick ==
  /\ now < MaxTime
  /\ \A c \in Pending : now < c + LongestWrite
  /\ now' = now + 1
  /\ UNCHANGED <<table, job, run, attempt, runs>>

\* A merge writes the new row, and a delete file if the table is merge-on-read.
BeginWrite(t) ==
  /\ write = NULL
  /\ writes < MaxWrites
  /\ writes' = writes + 1
  /\ LET row == Data(files + 1, writes + 1, now)
         old == LiveIn(LastOf(t).files)
         dels == {Delete(files + 2, f.id, now) : f \in old}
     IN  IF t \in MOR_TABLES
         THEN /\ write' = [table |-> t, adds |-> {row} \cup dels, needs |-> old, drops |-> {}]
              /\ AddFiles(t, {row} \cup dels)
         ELSE /\ write' = [table |-> t, adds |-> {row}, needs |-> old, drops |-> old]
              /\ AddFiles(t, {row})
  /\ files' = files + 2
  /\ UNCHANGED <<now, snapshots, run, attempt, runs>>

\* Iceberg commits if the data files that the merge replaced rows of are still live.
EndWrite ==
  /\ write # NULL
  /\ LET t == write.table
         fs == LastOf(t).files
     IN  /\ write.needs \subseteq LiveIn(fs)
         /\ Commit(t, (fs \ write.drops) \cup write.adds)
  /\ write' = NULL
  /\ UNCHANGED <<now, storage, files, writes, run, attempt, runs>>

\* The commit is refused, or the job dies: the files stay behind.
AbandonWrite ==
  /\ write # NULL
  /\ write' = NULL
  /\ UNCHANGED <<now, table, writes, run, attempt, runs>>

----------------------------------------------------------------------------
(* Runs and attempts *)

MayRetry == exit \in {"error", "died"} /\ attempts <= run.args.retries

\* A DAG run is created; its task may get the slot later.
Create ==
  /\ runs < MaxRuns
  /\ exit \in {"none", "success", "error", "died"} /\ ~MayRetry
  /\ run = NULL \/ attempts > 0
  /\ \E a \in Invocations : run' = [args |-> a, due |-> now]
  /\ runs' = runs + 1
  /\ attempts' = 0
  /\ exit' = "none"
  /\ UNCHANGED <<now, table, job, older_than, todo, steps, plan, failed>>

\* Mutation of as_of: the time of the attempt, as without --as-of.
TimeOfAttempt == now

\* --as-of is run_after.  What is run by hand begins when it is due.
as_of == run.due

\* Mutation of Cutoff: nothing is kept.
NoRetention == as_of

\* None if no step deletes.
Cutoff == IF run.args.retention = NULL THEN 0 ELSE as_of - run.args.retention

\* maintain_table leaves out what a copy-on-write table never needs.
StepsFor(t) == run.args.steps \ (IF t \in MOR_TABLES THEN {} ELSE MOR_ONLY_STEPS)

Proceed(tables) ==
  /\ todo' = tables
  /\ steps' = IF tables = <<>> THEN {} ELSE StepsFor(Head(tables))
  /\ plan' = NULL

Begin ==
  /\ run # NULL
  /\ exit = "none" \/ MayRetry
  /\ attempts' = attempts + 1
  /\ older_than' = Cutoff
  /\ Proceed(run.args.tables)
  /\ failed' = {}
  /\ exit' = "running"
  /\ UNCHANGED <<now, table, job, run, runs>>

FinishTable ==
  /\ exit = "running"
  /\ todo # <<>> /\ steps = {}
  /\ Proceed(Tail(todo))
  /\ UNCHANGED <<now, table, job, run, attempts, older_than, failed, exit, runs>>

\* A table that fails does not stop the others.
AfterFailure(tables) == Tail(tables)

\* A procedure raises, or its commit is refused.
StepRaises ==
  /\ exit = "running"
  /\ todo # <<>> /\ steps # {}
  /\ failed' = failed \cup {Head(todo)}
  /\ Proceed(AfterFailure(todo))
  /\ UNCHANGED <<now, table, job, run, attempts, older_than, exit, runs>>

End ==
  /\ exit = "running"
  /\ todo = <<>>
  /\ exit' = IF failed = {} THEN "success" ELSE "error"
  /\ UNCHANGED <<now, table, job, run, attempts, older_than, todo, steps, plan, failed, runs>>

Die ==
  /\ exit = "running"
  /\ exit' = "died"
  /\ plan' = NULL
  /\ UNCHANGED <<now, table, job, run, attempts, older_than, todo, steps, failed, runs>>

----------------------------------------------------------------------------
(* The steps *)

\* parse_steps: the order of the definition, not of the argument.
IsFirst(s) ==
  \E i \in DOMAIN STEP_ORDER :
    /\ STEP_ORDER[i] = s /\ s \in steps
    /\ \A j \in 1 .. i - 1 : STEP_ORDER[j] \notin steps

At(s) == exit = "running" /\ todo # <<>> /\ IsFirst(s)
t1 == Head(todo)
Current == LastOf(t1).files

EndStep(s) == steps' = steps \ {s} /\ plan' = NULL
Unchanged == UNCHANGED <<now, job, run, attempts, older_than, todo, failed, exit, runs>>

\* What a rewrite takes up of what it could: all of it, or what the defaults choose.
Chosen(s, fs) == IF s \in run.args.all THEN {fs} ELSE SUBSET fs

\* The live rows of the chosen files go to a new one.
RewriteDataFiles ==
  /\ At("rewrite_data_files")
  /\ plan = NULL
  /\ \E old \in Chosen("rewrite_data_files", {f \in Current : IsData(f)}) :
       LET new == {Data(files + 1, f.row, now) : f \in LiveIn(Current) \cap old}
       IN  IF old = {}
           THEN EndStep("rewrite_data_files") /\ UNCHANGED table
           ELSE /\ plan' = [adds |-> new, drops |-> old, base |-> Current]
                /\ AddFiles(t1, new)
                /\ files' = files + 1
                /\ UNCHANGED <<snapshots, steps>>
  /\ Unchanged

\* Iceberg commits if the old files are still there and nothing more of them is deleted.
CommitDataFiles ==
  /\ At("rewrite_data_files")
  /\ plan # NULL
  /\ plan.drops \subseteq Current
  /\ \A d \in Current \ plan.base : \A f \in plan.drops : d.deletes # f.id
  /\ Commit(t1, (Current \ plan.drops) \cup plan.adds)
  /\ EndStep("rewrite_data_files")
  /\ UNCHANGED <<storage, files>>
  /\ Unchanged

\* Those that still delete something are merged, which changes no row.
RewritePositionDeleteFiles ==
  /\ At("rewrite_position_delete_files")
  /\ \E old \in Chosen("rewrite_position_delete_files", Dangling(Current)) :
       IF old = {} THEN UNCHANGED snapshots ELSE Commit(t1, Current \ old)
  /\ EndStep("rewrite_position_delete_files")
  /\ UNCHANGED <<storage, files>>
  /\ Unchanged

\* A snapshot of the same files.
RewriteManifests ==
  /\ At("rewrite_manifests")
  /\ Commit(t1, Current)
  /\ EndStep("rewrite_manifests")
  /\ UNCHANGED <<storage, files>>
  /\ Unchanged

YoungEnough == {i \in DOMAIN snapshots[t1] : snapshots[t1][i].time >= older_than}

\* Mutation of FirstRetained: retain_last missing, and no table keeps more than it has to.
FirstByAge == Min(YoungEnough \cup {Len(snapshots[t1]) + 1})

\* older_than, and retain_last => 1.  The order of commits is the order of their times.
FirstRetained == Min(YoungEnough \cup {Len(snapshots[t1])})

Retained == SubSeq(snapshots[t1], FirstRetained, Len(snapshots[t1]))

FilesOf(ss) == UNION {s.files : s \in ToSet(ss)}

\* The metadata first; the files that no retained snapshot has are deleted afterwards.
ExpireSnapshots ==
  /\ At("expire_snapshots")
  /\ plan = NULL
  /\ snapshots' = [snapshots EXCEPT ![t1] = Retained]
  /\ plan' = [adds |-> {}, drops |-> Referenced(t1) \ FilesOf(Retained), base |-> {}]
  /\ UNCHANGED <<storage, files, steps>>
  /\ Unchanged

\* Mutation of IsOrphan: without older_than, files that are being written are orphans.
IsUnreferenced(f) == f \notin Referenced(t1)

IsOrphan(f) == f \notin Referenced(t1) /\ f.created < older_than

RemoveOrphanFiles ==
  /\ At("remove_orphan_files")
  /\ plan = NULL
  /\ plan' = [adds |-> {}, drops |-> {f \in storage[t1] : IsOrphan(f)}, base |-> {}]
  /\ UNCHANGED <<table, steps>>
  /\ Unchanged

DeleteFiles ==
  /\ plan # NULL
  /\ \E s \in CLEANUP_STEPS :
       /\ At(s)
       /\ IF plan.drops = {}
          THEN EndStep(s) /\ UNCHANGED storage
          ELSE /\ \E f \in plan.drops :
                    /\ storage' = [storage EXCEPT ![t1] = @ \ {f}]
                    /\ plan' = [plan EXCEPT !.drops = @ \ {f}]
               /\ UNCHANGED steps
  /\ UNCHANGED <<snapshots, files>>
  /\ Unchanged

Step ==
  \/ RewriteDataFiles \/ CommitDataFiles \/ RewritePositionDeleteFiles \/ RewriteManifests
  \/ ExpireSnapshots \/ RemoveOrphanFiles \/ DeleteFiles

Next ==
  \/ Tick
  \/ (\E t \in Table : BeginWrite(t)) \/ EndWrite \/ AbandonWrite
  \/ Create \/ Begin \/ FinishTable \/ StepRaises \/ End \/ Die
  \/ Step

Spec == Init /\ [][Next]_vars

----------------------------------------------------------------------------
(* Properties *)

File == [id : Nat, created : Nat, row : Nat \cup {NULL}, deletes : Nat \cup {NULL}]

\* The types of the variables; a table is never without a snapshot.
TypeOK ==
  /\ now \in 0 .. MaxTime
  /\ storage \in [Table -> SUBSET File]
  /\ snapshots \in [Table -> Seq([time : 0 .. now, files : SUBSET File]) \ {<<>>}]
  /\ files \in Nat
  /\ write # NULL => write.table \in Table /\ write.adds \subseteq storage[write.table]
  /\ writes \in 0 .. MaxWrites
  /\ run # NULL => run.args \in Invocations /\ run.due \in 0 .. now
  /\ attempts \in Nat /\ (run # NULL => attempts <= run.args.retries + 1)
  /\ older_than \in Int
  /\ todo \in Seq(Table)
  /\ steps \subseteq ToSet(STEP_ORDER)
  /\ failed \subseteq Table
  /\ exit \in {"none", "running", "success", "error", "died"}
  /\ runs \in 0 .. MaxRuns

\* No snapshot lacks a file, and a file that is still to be committed is there: neither
\* the files of an expired snapshot that a later one has too, nor those of a write in
\* progress, nor what another attempt has left in between, are ever deleted.
SnapshotsAreWhole ==
  /\ \A t \in Table : Referenced(t) \subseteq storage[t]
  /\ write # NULL => write.adds \subseteq storage[write.table]

\* However late an attempt runs and however often the run is retried, it removes no
\* snapshot and no file that is younger than the retention was when the run was due.
RemovesOnlyOlder ==
  [][\A t \in Table :
       /\ \A i \in DOMAIN snapshots[t] :
            snapshots[t][i] \in ToSet(snapshots'[t])
              \/ snapshots[t][i].time < run.due - run.args.retention
       /\ \A f \in storage[t] \ storage'[t] : f.created < run.due - run.args.retention]_vars

Swept(t) ==
  /\ \A i \in DOMAIN snapshots[t] : i > 1 => snapshots[t][i].time >= older_than
  /\ \A f \in storage[t] \ Referenced(t) : f.created >= older_than

\* When an attempt ends by itself, every table of it is in failed_tables or in order: if
\* it was a cleanup, one snapshot at most is left that is old enough, the one that was
\* current, and no file, whatever an attempt before has left; and if it was to rewrite all
\* delete files, there is none that dangles, whichever data files the same attempt has
\* rewritten.
FinishedTablesAreClean ==
  exit \in {"success", "error"} =>
    \A t \in ToSet(run.args.tables) \ failed :
      /\ CLEANUP_STEPS \subseteq run.args.steps => Swept(t)
      /\ "rewrite_position_delete_files" \in run.args.all => Dangling(LastOf(t).files) = {}

ReadableVersions(t) ==
  {[time |-> snapshots[t][i].time, rows |-> RowsIn(snapshots[t][i].files)] :
     i \in {i \in DOMAIN snapshots[t] : snapshots[t][i].files \subseteq storage[t]}}

ShortestRetention ==
  CHOOSE r \in {a.retention : a \in Invocations} \ {NULL} :
    \A a \in Invocations : a.retention # NULL => r <= a.retention

Versions ==
  INSTANCE TableVersions WITH
    Values <- 0 .. MaxWrites,
    Retention <- ShortestRetention,
    contents <- [t \in Table |-> RowsIn(LastOf(t).files)],
    versions <- [t \in Table |-> ReadableVersions(t)]

\* Jobs and maintenance together keep what TableVersions promises: maintenance changes
\* no contents, and takes away only versions older than the retention.
ImplementsTableVersions == Versions!Spec
=============================================================================
